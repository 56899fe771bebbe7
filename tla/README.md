# Papaquébec, formally

TLA+ modules of Papaquébec, the server that listens to a Beast source, tracks the
aircraft it hears and publishes them over WebTransport, and of the scope, the page that
draws them. Each module is translated from the code under `src/`; `PROJECT.json` maps every
definition that models code to the lines it stands for, lists the runs and their mutants,
the hazards the properties are for, and the theorems.

`tlc -config X.cfg M` checks module `M`; `tlapm M_proofs.tla` checks its proofs, and `tlapm M.tla`
those of `Placer` and `MCPicture`, which end their modules.

## The system

```
 Beast source ──► follow ──► tracker ──► Published ──► sessions ═══════► feed worker
                  (1)        (2)         history       (3)   WebTransport    (4)
 registry, metar stations ◄── mirrors (5)                                     │
 Aviation Weather Center ◄─── poll (6) ── weather ──► sessions                ▼
 phones' trust ◄── authority (7) ── door (8)              track store (9) ──► scene
                                                            │   ▲              │
                                                            ▼   │              ▼
                                                         placer (10)       renderer (11)
                                                         in a worker       in a worker
```

| | part | state it keeps | operations | what is hard | correct when |
|---|---|---|---|---|---|
| 1 | source following, `feeder/follow.rs` | the connection, when it last said anything, when the next tick is due | connect, hear, tick, give up, retry | a connection that dies without a word; a task late to its tick | silence is noticed in time, a source that is back is heard, snapshots are a period apart |
| 2 | tracker, `tracker/*.rs` | each aircraft heard, what is remembered of those forgotten, the values each message said | hear a frame, forget, recall, derive, snapshot | what a message means depends on what was heard before; values in steps of several sizes; derived values grow old; positions in two halves, any of which is lost | one record of each address, vouched for; values neither stick nor jitter; a fix is where the aircraft was |
| 3 | live feed, `feeder/transport.rs`, `feeder/feed.rs` | the history, the latest snapshot and weather, the permits, the certificate and its hash | publish, accept, refuse, greet, write, renew, restart | publishing goes on while sessions are made and written; permits come back on every path | a page is sent the history whole and once; permits balance |
| 4 | the page's side of it, `scope/src/feed` | the run: info, connection, reading, waiting; the last snapshot taken | follow, read, time out, retry, stop | an answer that comes after its deadline, or after the page stopped | it catches up whatever is lost, and once stopped is silent and closed |
| 5 | mirrors, `web/mirror.rs` | the copy kept, the download aside, what was told | start, look, download, keep, tell, sleep | stops between any two steps; a wall clock that is set | what was told is kept; every renewal is told at last |
| 6 | weather, `web/weather.rs`, `metar/*.rs` | reports kept, flags of what changed, the stations in range | poll, record, expire, tell, list | lists that come during a poll; reports out of order; days of a month | told what is kept, nothing long stale, never back to an older one |
| 7 | authority, `authority/lib.rs` | two files | open, create, keep | a stop between two writes; a clock set back past its making | devices trust one authority ever; refused only outside its validity, or in part |
| 8 | door, `web/door.rs` | certificates issued, by name | issue, keep, reissue, forget | certificates grow old while they are kept | all that is shown is of the name, of the authority, well before its end |
| 9 | track store, `scope/src/state/trackStore.ts` | tracks listed, and trails, samples and settings of those no longer listed | ingest, reproject, drag | targets come and go; snapshots skip and repeat; projections change | one copy, in the projection in use; trails and samples in order; of one flight |
| 10 | block placer, `scope/src/render/layout` | the scene in flight, the newest waiting | ask, answer, fail, apply, drop | answers race with drags and with newer scenes | one in flight, newest next, no dropped block moves |
| 11 | renderer, `scope/src/render` | the scene retained, the calls on their way, the frame due | probe, open, replay, set, draw, lose | a renderer that comes late, on either thread, and may go | nothing set is lost or overtaken; what was set is drawn |
| 12 | gestures on the scope, `scope/src/canvas/input` | the fingers down, the buttons held, what each kind of drag has grabbed, menus | press, move, lift, leave, cancel, drop | several pointers at once; a second button; a touch that may be a pan, a pinch, a press or a drag; a context menu asked for on press or on release, by platform | what was pressed comes to one outcome, and nothing outlives the pointer that did it |
| 13 | lanes, `scope/src/panels/lanes` | the lane held, dragged, swiped or picked, the loops of frames | press, hold, lift, move, swipe, pick, cancel | a timer races with moves and lifts; lanes come and go while one is held | a lane is held by one pointer, which does one thing |
| 14 | lanes' window, `scope/src/state/window.ts` | the window, live or held, and the contact it is of | zoom, pan, select, pinch, hold, go live | the contact grows at its end and is trimmed at its start under a held window or a pinch | what is shown is of the contact, and moves no further than it has to |
| 15 | map sets, `scope/src/state/mapsets.ts`, `mapsetStore.ts` | the sets listed and switched off, the database, the old record, the draws to come | open, merge, import, remove, switch, draw | writes, reads and draws end in any order; the database may fail at any of them | the next session has what this one lists |
| 16 | layers, `scope/src/state/layerTree.ts`, `lib/visibility.ts`, `lib/tree.ts`, `lib/chart.ts` | of each layer its mode and the items that go against it; the search | tap an item, a layer's or a group's dot, search, load; the chart merged anew of the sets | a layer is set by item, by search and whole, items come and go meanwhile, the mode flips, a limit drops keys | an item is shown as was last said of it |
| 17 | chart lines, `scope/src/lib/topology.ts`, `stops.ts`, `pathLines.ts` | the paths, who owns each edge, lines walked so far | build, choose owners, split at stops, walk a line | outlines share edges either way and run them twice; lines are asked for in any order | an edge is drawn once, on one line, and stops short of points |
| 18 | names on the chart, `scope/src/render/scene/spanDesignators.ts`, `areaBlocks.ts`, `areaLabels.ts` | of each span and stack whether it was shown; what is lit | build at a scale and a density, light, switch | labels are shared by items that come and go; the room changes with the zoom | a name has room, stands once, and does not flicker; what is lit is said where the chart says it |
| 19 | file of a map set, `scope/src/lib/mapset.ts`, `panels/MapsPanel.tsx` | the sets listed, the import in flight, the removal armed | read strictly, read leniently, import, arm, remove | two readers of one format, any Feature at fault | both read alike but for what one refuses and the other leaves out |
| 20 | data blocks, `scope/src/canvas/scene.ts`, `render/layout/moves.ts` | the slides under way, where each block was drawn, the drag | place, slide, grab, drop, rest | bearings change, targets go and blocks are grabbed while they slide | a block goes on from where it was drawn, and comes to rest |
| 21 | aircraft on the board, `scope/src/state/scope.ts`, `canvas/hit.ts`, `canvas/rbl.ts`, `panels/ListPanel.tsx` | the hovered, the selected, lines, menus, the sort | hover on three surfaces, choose, draw a line, delete, sort | snapshots, sorts and keys come between a press and what it named | what is pointed at, asked about and joined is what is listed, and what was named |
| 22 | layer tree, `scope/src/panels/maps` | rows open, search, focus, row pointed at | type, fold, walk by keys, point, load | rows go while they hold the focus or the pointer | the focus is taken from no row that stays, and what is traced is there |
| 23 | what a lane draws, `scope/src/panels/lanes/trace.ts`, `plot.ts`, `readout.ts` | the samples, the window, the pointer | hear, fall silent, point, hold | values heard at instants of their own, gaps, windows that end in one | joined, shaded and read alike |
| 24 | lanes' column, `scope/src/panels/lanes/Lanes.tsx`, `Picker.tsx`, `drag.ts` | the scroll, the scroll kept, the drag, the picker and the focus | drag, scroll, resize, hide, show, pick, close | a scroll is told a frame late, sizes are measured later still | what is shown while a lane is dragged is what letting go leaves |
| 25 | settings, `scope/src/state/persist.ts`, `panels/DisplayPanel.tsx` | each page's settings, and what the browser stores | load, set a control, store | another version's or another page's settings; a control still being used | the next page opens with what was written last; nothing hides an emergency |
| 26 | sheet of a phone, `scope/src/ui/Sheet.tsx`, `pull.ts`, `contentDrag.ts` | the panel that holds it, its detent, fingers, the pull | press, move, lift, tap, open, close | one pull, two places to pull from, several fingers | it follows the finger that pulls it, and rests at a detent |
| 27 | instruments, `scope/src/panels/instruments`, `render/scene/targets.ts`, `datablock.ts` | readings on their way, the moment shown, modes that changed | hear, lapse, glide, draw | each reading lapses on its own; wheels carry; north is crossed | what holds is drawn, once, alike, without a leap |

What each part shares with the others: (1) calls (2) frame by frame and publishes what it
makes to (3) over watch channels; (5) and (6) publish over watch channels of their own; (3) and
(4) share a stream; (4) posts each message to the page, which hands it to (9); (9), the
settings and the drags make the scene of (10) and (11), which answer by messages; (16), (17) and
(18) make the chart of it, and (27) reads what (9) holds. (7) is opened
once before (8) serves. Everything else each part keeps to itself, which is why the tasks of
the server may be checked one at a time (below).

`PROJECT.json` lists every component, those left out too, with the reason. Left out as a whole:
the pure decoding of Mode S fields and the numerical formulas (tables and floats, without
state), the simulator, the server's configuration and routes, the buffers and shaders of the
scene, the markup of panels, and the build, map and visual scripts.

## The modules

- `FeedPromise` is what a page is promised: snapshots that were published, each later than all
  it had. `Feed` is how the sessions keep it: `server` (Published, Endpoint), `session` (the
  tasks `Endpoint::serve` spawns) and `page` (`followFeed` with the feed worker's `run`). An
  await is a state of its own: `info`, `connecting`, `reading`, `waiting` of a page;
  `handshaking`, `greeting`, `streaming` of a session. `Down` is every way a wait ends badly
  (`downOf`), its deadline among them; an `info` left behind may still answer. `Feed` implements
  `FeedPromise` with the identity as its refinement mapping. `Feed_proofs` has the proofs.
- `Traffic` is `Traffic` and `Tracked` of `tracker/traffic.rs`. A message is a record of what it
  says, in steps of a size; a register is told apart as `Tracked::answer` does; `Picture_proofs` has
  the proofs, with those of the track stores that `MCPicture` runs. `Fixes` is
  `cpr.rs` in exact arithmetic on a globe of fewer zones, whose number changes with latitude as
  theirs does, and how a fix is made of positions (`Tracked::place`).
- `TrackStore` is `createTrackStore`, fed any snapshot, and `TrackStore_proofs` its proofs; `Picture` composes `Traffic`, the
  following of a source and the store, so that what the store is fed is what the tracker makes.
- `Placer` is the placer, its worker and what becomes of an answer.
  `Blocks` is what is drawn meanwhile: the slide of each block, in frames, and the operator's drag.
- `Renderer` is `createRenderer`, both its threads, and the renderer behind them.
- `Door` is the authority's files (`Spec`) and, above them, the certificates shown (`DoorSpec`).
- `Follow`, `Beast`, `Mirror` and `Weather` are the tasks that keep the server supplied.
  `Weather` has its proofs at its end; `Server_proofs` has those of the door, the source,
  its stream and the mirror, and puts them all together as `MCServer` does the tasks.
- `Gestures`, `Lanes`, `Window` and `MapSets` are what an operator does to the page. `Gestures`
  has one action per event of a finger or of the mouse; `platform` says whether a context menu
  is asked for as a button goes down or comes up. `Board` is what they do to the aircraft, and
  lines between them, along one axis: what a point hits is computed, not chosen. `Lanes` has the timer of a press in `hold`
  and counts the loops of frames in `loops`; `Column` is the column around them, of which a frame,
  an event of a scroll and the observer of sizes are actions of their own, since the code hears
  of them later; `Strips` is what a lane draws of `Sample`s and reads at the pointer. In `MapSets` a write is taken once the database is
  open and the draws asked for before it are done.
- `Layers` is the chart merged of the sets that are on (`chartOf`) and what the layer tree does
  to what is shown of it. A term of a search is the set of layers and names it matches. `said` is
  what the operator last said of each item; `vague` holds the items of which that is not known
  to the code: not in the chart when their layer came to be all one way, or when exceptions were
  dropped for their number.
- `Paths` is how outlines become paths that share edges (`networkOf`), which path draws each
  edge, where routes stop, and the line of each path, walked when first asked for. A line has
  two points between the ends of each edge, so that it tells which way it runs.
- `RouteNames` is what is said along routes: spans, the airways and procedures that name them,
  chevrons, and what a lit route says; `AreaNames` the blocks of areas, stacked by footprint.
  Both build a whole chart at each step, with the memory (`shown`) of the build before.
- `SetFile` is a file and its two readings (`ParseStrict`, `ParseMapSet`), as operators over
  values of which one member at a time may be `Malformed`; and the list of sources of the panel.
- `LayerTree` is the rows of the tree, filtered and folded, the focus and the row pointed at.
- `Settings` is what the browser stores, of any version, and the pages that share it: one of
  the actions of each control of the panels, and `Store`, which is the effect that writes.
- `Sheet` is the sheet, whose `down`, `move` and `up` are those of `pull.ts`, reached from the
  grabber and, through `contentDrag.ts`, from the content.
- `Glide` is a reading on its way; `Tapes` what the flight display draws of one; `Pfd` what it
  and the surveillance panel read, with the boxes about modes; `Nd` the navigation display with
  its traffic and threat; `Targets` the target itself on the scope: glyph, colour, block, tags,
  trail, and the header of its details. These are mostly operators of one report, checked over
  reports that differ in one value at a time; the actions are the reports and the passing of time.
- `MCTracker`, `MCPicture`, `MCScene`, `MCServer`, `MCPage` and `MCScope` instantiate these for
  TLC, from the constants of their own configurations; `Feed` and `Door` have theirs from these
  alone. Where a component is proved about, `MCServer` and `MCPicture` instantiate the module of
  its proofs, so that a theorem of it is a theorem of the instance; `Page_proofs` has those of
  `MCPage` and, with them, of `Placer` and `Renderer`, and `Scope_proofs` those of `MCScope`. A property named there is the conjunction, part by part, of the properties its comment lists, each stated
  with its own comment in the module it is of.

A definition whose comment begins with "Mutated:" is the code with a plausible mistake in it; it
is used by nothing, and shows of one property that this mistake would break it
(`PROJECT.json`, "mutants").

### Tasks and questions

Where several modules share no state, or one module is asked questions whose inputs have
nothing to do with one another, they are run together and a behaviour is of one of them: a
variable (`task`, `question`, `board`, `part`, `naming`, `instrument`) is chosen at the start and never changes, and the others stay
as they began. Were they run side by side, every state would be a pair of states that are
reached apart, and every property, being of one of them, would hold or fail just the same.

## The runs

| run | what it asks | bounds |
|---|---|---|
| `feed_safe` | permits balance; a page takes the history whole, once; nothing after a stop | two pages, one of a host that is forbidden, three session tasks for two permits, three snapshots with a retention of two, a restart, a renewal, a late answer |
| `feed_live` | a page catches up; one stopped ends; the weather settles; the promise is kept | one page, two tasks and one permit: a session that lingers shuts the page out; a clock set back once, with a restart, a renewal and a late answer |
| `scene` | placer: `InTurn`, `DropStands`, `Keeps`; renderer, `Carried` (nothing it was told is lost); blocks, names, set files: `DrawnTrue` (what holds of what is shown); all: `SceneDrawn` (what is drawn at last, and how it may change) | placer: two targets, three scenes: one answered, one overtaken, one newest; renderer: three changes of two slots; blocks: two targets, two bearings, a slide of two frames, two changes; routes: two airways, a procedure and an unlabelled one-way route over three vertices, three scales, two densities; areas: a sector, two areas of one footprint, one that is a line, four scales; files: three Features of ten kinds, nine roots, two picks |
| `tracker` | `Records` (with the callsigns, the values in steps and what is derived), `ValuesSteady`, `FixesSound`; `LanesTrue`: lanes draw and read what was heard | by question: two aircraft and four messages over a lapse and more; one aircraft and values in three sizes of step; registers of all inputs of a derivation; a flight of three moves about four sites; four reports over twelve seconds, a gap being six, altitudes below, about and over the transition by two settings, selected headings flown and not, two places of the pointer |
| `picture` | `StoreSound`, `Ordered`; `OperatorKept`, of drags in the store and of what is hovered, asked and joined; `AsShown`: menus and lines end at what they named; `ChartTrue`: items shown as was last said, edges drawn once | by question: a source away for two of a retention of four; any snapshots of one target over its whole life; three aircraft hovered and sorted, two joined by two lines, with points on one, between two and on a block; two sets that share a point and not another of its name, one search, exceptions for two; two outlines of eight shapes that share edges either way, and three of three, with points of two sizes at two vertices |
| `server` | the authority and its door: `TrustedOnce`, `RefusedOnlyWhen`, `ShownGood`; the tasks: `Bounded`, `ExactlyWhole`, `ToldIsKept`, `WeatherTold`, `Spaced`, and at last `HeardAgain`, `RenewalReaches`, `LeavesAreTold` | door: two authorities made, three stops, a clock that reads before, within and after the validity of either, three names for room for two; following: two periods of silence and more; Beast: two frames cut up at every byte over two connections; mirror: two versions, two crashes, one setting of the clock; weather: two stations, two places, seven ticks of which four make a day |
| `page` | `SettingsKept`; `SheetFollows`; `InstrumentsTrue` and `NeverJumps`: instruments, and the scope, show what holds, and get there without a leap | settings: two pages, three changes, what is stored spoilt in each field; sheet: two panels, of two detents and of one, two fingers, five speeds; glides of two steps over north; instruments: own ship, one other and a third at the end of the range, one value at a time lapsed, missing or changed; a trail of thirteen seconds in slots of four |
| `scope` | `LetGo`: a press comes to one outcome, nothing outlives its pointer, and a lane is held once and goes back where it was; `WindowShown`: the window stays on its contact, the tree points at what is there, the column shown is what letting go leaves, and the focus stays where it is wanted; `SetsKept`: map sets are kept | by part: three fingers; the mouse with and without chords; the left button with one finger; two lanes, one an instrument, and one hold that a move tells of before its timer; a contact of five seconds under a window of two at least; two sets, one there from the start, two imports, one load; two groups of a layer each, two items of two sets, five searches; a column of two readings and an instrument, twice as high as its view, three places of the pointer |
| `renderer_lost` | *violated*: a lost renderer takes no calls | two changes |
| `traffic_bearings` | *violated*: a coarser repeat of a bearing does not jitter | a circle of eight |
| `picture_gap` | *violated*: a track is of one flight | a source away for longer than a target is remembered |
| `sheet_pull` | *violated*: a sheet is released when the finger that pulls it lifts | as `page`: one finger on the content, one on the grabber |

The bounds are small because the hazards are: each is an order of two or three steps of two
actors, and each bound leaves room for what a hazard needs and one more. A third page would
only contend for the same permits; a fourth scene would only overtake as the third does; a
second address in the store would have a record of its own, as the `calls` question checks of
the tracker. Lengths of time are a few ticks, ordered as the code's are (a lapse before what is
remembered, a renewal before an end). Lengths on the screen are whole, few, and chosen to fall on
either side of each threshold; where the code's own numbers matter (a wheel's window, the reach of
a pointer, the tenth of `fits.ts`) they are the code's. For every property a mutant shows that its run does reach
the states in which it could fail.

`CHECK_DEADLOCK FALSE` is set everywhere: once a bounded counter is at its bound a behaviour may
stop, as it may in the code (a page that was stopped, a renderer that failed).

### Fairness, and why the code justifies it

- `Feed`: tasks of the runtime are polled and promises of the page resumed (`Run`, `Info`,
  `Read`, `Wake`); a connection that is made is accepted (`Serve`); a wait that nothing can
  answer meets its deadline (`Down` when nothing is awaited: `within`, push.ts); a snapshot with
  a later time is published in the end, since the source sends; a renewal's second step follows
  its first. Nothing else must happen: the network may drop any session at any time, but only
  as often as its bound says.
- `Follow`: the interval ticks, the task gets to it, and a retry follows (weak). Connecting is
  strongly fair: of infinitely many attempts at a source that is there one succeeds.
- `Mirror`: each step of the task follows the one before, a sleep ends (weak); a download of a
  file that is there, tried again and again, succeeds at each of its steps in the end (strong:
  every attempt starts the steps anew).
- `Weather`: a question is put and answered, or fails; the poll looks when it wakes (weak).
- `Placer`: the worker takes its messages, and the page its events (weak).
- `Renderer`: both threads take their messages and animation frames come (weak). That a device
  is found is not assumed.
- `Blocks`: frames come while they are asked for, time passes, and a bearing is answered (weak).
- The parts of `scope`, `tracker`, `picture` and `page` are checked for safety only and assume no fairness:
  what an operator or an aircraft does next is not the code's to promise.

## What is proved

For every value of the constants, from the assumptions each module states of them, and for
behaviours of any length. In each case the property is not inductive by itself, and the
invariant that is says what its parts leave open.

The feed, in `Feed_proofs`:

- `Soundness`, that states are well typed and permits balance; `NothingTwiceHolds`, that no hello
  on its way holds a snapshot the page has; `Delivery`, that `Feed` implements `FeedPromise`.
  `Sound` adds to types and permits that a session past the handshake is held by the page it
  serves and by no other. `AllPublished` says that whatever is anywhere on its way was published.
  `Pipeline` says what lies between a history and a page: the frames written, those pending, the
  snapshots to come, each later than the one before, and the first later than all the page has
  taken; or, of a session that resumed from less than the page has by now, dropped by the page.
  `Inductive` is the three together, proved action by action.
- `WholeHistoryHolds`, that a page has the history whole up to its last snapshot, but for what its
  session was too slow to look at, under the hypothesis that the clock is not set back
  (`MaxStepsBack = 0`): a snapshot earlier than one taken is dropped, as it must be by
  `FeedPromise`. `Whole` says of all frames on their way that none runs ahead of what comes before
  it (`Caught`), and that a streaming session lacks the latest snapshot at most, while it is to be
  told of it (`Accounted`); it needs that time goes forward (`Forward`) and that the first frame of
  a session is its hello (`Opened`).
- `WeatherSettledHolds`: the last report on its way to a page is the weather as it is, or the
  session is to be told of it (`AllUpToDate`). `NothingAfterStopHolds` is a fact of every step.

The server, in `Server_proofs`, for the specification `MCServer` checks (`TaskSpec`): each
theorem of a task is carried over by a lemma that says that `TaskSpec` implies the task's own
specification (`TaskIsDoor`, `TaskIsSource`, `TaskIsCopy`), or by the task's invariant, while it
is the one that is run.

- `TrustedOnceHolds` and `RefusedOnlyWhenHolds`, for any number of stops and settings of the clock. The invariant says what
  the two files may hold of each other (`Files`), that what was given out is what they hold
  (`Given`), and how far the writing has come (`Keeping`, `Running`). `ShownGoodHolds`: `Signed`
  says that a certificate kept is of its subject and of the authority the server goes by, and
  that there is none while it does not answer; that this is the authority trusted is the
  invariant before it.
- `SpacedHolds` and `NoticesSilenceHolds`, for any periods and any lateness of the task.
  The invariant `Paced` ties the tick to what was published: while a connection is heard, the time
  since the last snapshot and the time to the next tick make up a period, unless one has passed.
  It holds since a connection made anew first ticks after a whole period, and since a tick that was
  missed is not made up for.
- `ToldIsKeptHolds`, for any number of versions, stops and settings of the clock. The
  invariant `CopyKeeps` adds that what is on its way to the copy is as new as anything told
  (`OnItsWay`), and that nothing is newer than what is published (`NoneNewer`).
  `SleepsUntilDueHolds` needs that the copy gone by is the one told, but for a moment (`GoneBy`).
- `WeatherToldHolds` (`Weather`), for any stations, lists, observations and answers. To be
  told no older observation than before is kept by `Surpassed`: the newest told of each station is
  kept, or was surpassed, or went stale, so that no answer may bring it back. It is needed since
  what is told may have left the range, and the reports kept, between two polls. `UpTo` and
  `Timely` say what is told of what is kept in each phase, and how old it may be.
- `ExactlyWholeHolds`, for frames of any lengths and bytes, broken off anywhere,
  and reads of any size. The invariant `Received` says where the reader is: what it has not returned
  is the stream from the start of one frame sent, of which it has not all the bytes, nor those that
  would tell that it broke off; and it has returned the whole frames before that one. Of the
  parser it rests on what it makes of one frame, whole, broken off or unfinished (`ItemParsed`),
  and on a chunk being read as though it had come byte by byte (`LeftOn`).
- `BoundedHolds`: types of the tasks, silence noticed in time, no more pending than a frame,
  and no sleep past what is due.

The tracker, in `Picture_proofs`, for any aircraft, messages, sizes of steps and lapses:

- `RecordsHolds`: each aircraft has one record, vouched for, and goes by the callsign it said last
  while that lasts; a value told in steps is the last reported, or a finer one that it repeats; and
  nothing derived is younger than what it is of. The callsign an aircraft goes by passes from its
  record to what is remembered of it and back, and lapses in either. So `Called` says of the
  one it has, or would have were it heard again, that it is the last said, unless both have lapsed;
  and, of the reports made since the aircraft was last forgotten, that the last is that callsign.
  `UpToNow` says that nothing is heard later than now, without which what has lapsed might be young
  again, and `DerivedOfKept` that what a derived value is of is still kept.
- `ValuesSteadyHolds`: a coarser report takes the place of no value heard lately that it only
  repeats, a bearing apart. A step hears one message, and a message says a value in one size of
  step.

The page:

- `InTurnHolds` and `DropStandsHolds` (`Page_proofs`), for any number of scenes. The invariant
  adds that a drop asks for a scene of its own (`DropsAsked`): were the scene in flight as new as
  a drop there would be none waiting; and that an answer is of its scene (`Directed`).
- `StoreHolds` and `OperatorKeptHolds` (`TrackStore_proofs`), for any snapshots, projections and
  retention. The invariant `Sound` says of each target held what its trail, samples and settings
  are (`Held`), that samples listed are young (`Young`), and that what the operator did is known
  only of targets held. Of `TrimOld` the proofs need that it drops the first items up to one
  that is young (`Trimmed`). `StoreSoundHolds` (`Picture_proofs`) is what of it the run `picture` checks.
- `SheetFollowsHolds` (`Page_proofs`), for any panels, heights, fingers and speeds, under the
  hypothesis `~Mixed`: the grabber is pressed and tabs are tapped only while no finger is down, and
  none lands on the content while one is on the grabber. Without it the code breaks the property, as
  the run `sheet_pull` shows. The
  invariant `Follows` says that the open sheet rests at a detent it has (`Rests`), that the fingers
  that are down are on one sheet, and one on the grabber is alone (`Down`), and how what landed,
  what pulls, what is pressed and what is drawn go together (`Sheets`).
- `GesturesHold` (`Scope_proofs`), for any number of fingers and a mouse at once, with chords and
  with fingers that landed beside the canvas: with nothing on the canvas and no button down nothing
  is grabbed, dragged, zoomed or measured, and what is pressed comes to one thing. `LetGoHolds` is
  the same of the page that is run, where these come one part at a time. The invariant `Steady` says
  what each recognizer knows of its pointers (`Fingering`, `Pressing`), and who holds what is
  grabbed: the left button, or a finger alone that neither pinches nor zooms (`Grabbed`). A block
  drawn as if dragged is one that is held, and one is asked to release only a line that was dragged
  (`Asked`), or nothing would take either back. That a press comes to one thing needs that pointers
  are used one at a time, which `Alone` takes from the history; then at most one thing is held, a
  press that may yet be a tap has done and moved nothing, and no menu is asked for after a
  measure (`Doing`).
- `LetGoHolds` also says of any lanes, arranged, switched, added and removed while one is held, that
  a lane is held by one pointer which does one thing with it, that the lane drawn as dragged is
  the one held, and that one let go of is put back. The invariant `Firm` says that a pointer
  scrolls, drags or waits and does no two of these (`OneThing`), which frames that scroll at the
  edges are still asked for (`Loops`), what the timer of a hold is armed for (`Timers`), that what is
  held is pointed at (`Pointed`), and, while the lanes stay as they were at the press, that the
  place noted there is the lane's (`Placed`). It needs of the sequences that removing and inserting
  a lane leaves each lane once (`RemoveAtIs`, `InsertAtIs`, `MoveLaneIs`).
- `SetsKeptHolds` (`Scope_proofs`, of what `MapSets` proves at its end), for any map sets, imports
  and loads of the page: the list and the database come to agree, whatever is imported, switched or
  removed before, while or after the database opens or fails. The invariant `Lasting` says that imports are numbered as they are asked
  for, so that what waits for its task is newer than all there is (`Numbered`), and that writes wait
  in the order they were asked for, so that the first of them is the first ready (`WaitInOrder`).
  Then the last write on a set decides what the database comes to have of it (`Comes`), while a set
  the session has not touched is read as it is kept (`Untouched`). A set is off by the list, or by
  the flag of an earlier version until that is adopted (`FlagsAgreed`). That a sorted list exists,
  and only one that has each set once, is proved of any total order (`OrderExists`,
  `ByPrecedenceIs`). It assumes of the sets that they are finitely many and that none has the
  identity of the built-in.
- `CarriedHolds` (`Page_proofs`), for any slots and any number of changes, whatever the worker does: a renderer that
  is up was told of every change, and of each part what stands last, and what changed since it drew is to
  be drawn. The invariant `Rendering` adds where the one renderer is, if any (`Threads`: a worker
  says once that it is ready, before all else, and of a worker given up nothing is heard), and
  that with no frame due what stands is on the screen, or the last call on its way draws it
  (`DrawsLast`). Replaying what was kept gives a renderer made
  later what it missed (`ReplayGives`), since a later call of a part takes the place of an earlier
  one and of no other part's (`LastStands`).

The library's induction theorems are out of reach, since they take an operator; where a proof goes
by induction over numbers, as those of the parser and of the reports do, it goes over a set of them
(`AllNaturals`), which follows from the well-foundedness of strict subsets, and what a recursive
function computes is taken from its definition once such a function is shown to exist
(`JoinExists`, `WholeExists`, `TakingExists`).

Only model-checked: liveness, since the prover has no fairness or `ENABLED`; and, so far, the
invariants of positions (`FixesSound`), of what lanes and instruments draw
(`LanesTrue`, `InstrumentsTrue`), of blocks, names and set files (`DrawnTrue`), of tracks across
gaps and their samples (`Ordered`; `OperatorKept` is proved of the store, not of the board), of the
chart (`ChartTrue`), of the settings kept (`SettingsKept`), of the window, the tree and the
column scrolled (`WindowShown`), and the action properties of what is shown (`SceneDrawn`,
`AsShown`, `NeverJumps`).

## What the code does otherwise than it says

Four runs end in a violation, of what a comment or a test in the code says:

- `picture_gap`: a target that was listed carries on across any gap in the feed, so that its
  next flight may carry on from its last (`trackStore.ts:172-175` and `:194`).
- `traffic_bearings`: bearings on either side of north are compared as numbers
  (`traffic.rs:241-252`).
- `renderer_lost`: on the main thread a lost renderer goes on taking calls (`facade.ts:79`,
  `:111`).
- `sheet_pull`: a finger that lands on the grabber while another pulls the content takes the pull
  over. Nothing releases the sheet when the one on the content lifts less than a tap's wobble from
  where the other landed, or anywhere after that one was tapped and lifted (`pull.ts:45`, `:53-58`;
  `contentDrag.ts:98-102`, `contentDrag.test.ts:124`).

And these are seen in the models, without a run of their own:

- A session that is slow to write skips the snapshots published meanwhile, but the last, where
  `transport.rs:95-98` says that each one published is sent. `WholeHistory` says what the page
  then has: all but those.
- A target the tracker forgot counts its messages anew, and may come to the very count of its
  last sample: it then makes none for that snapshot (`track.ts:109`, `trackStore.ts:95`).
- In `Placer` the comparison with what was `seen` never decides by itself whether a dropped
  block stands: a drop asks for a newer scene, by which the answer is overtaken.
- A stop within the writing of the authority's certificate leaves files of which the server says
  that they are broken, until someone removes them; and a start by a clock that says a time more than
  the slack before the authority was made is refused, with a whole authority, until it is put right.
- The pointer stays set after a range line's drag is dropped or released off the canvas, where
  `scope.ts:94` says that it is null when there is none.
- A button pressed while another is held may leave a drag's cursor behind; a finger off the
  canvas moves or ends the drag of another (`drags.ts`).
- A move that comes late, but before the timer of a press, picks a lane up, and the timer picks
  it up again: one of the two loops of frames is never ended (`laneDrag.ts:195-243`).
- Below the transition altitude a lane draws the altitude by the crew's setting and reads it by the
  operator's (`plots.ts:71`, `readings.ts:75`), so that they differ where the two do.
- A lane's place is noted when it is picked up: if lanes change meanwhile, it is another lane
  that moves (`laneDrag.ts:154`). A lane put down within the slop moves over its neighbour.
- A map set imported and removed again before the database has answered is back for the session
  (`mapsets.ts:142-155`). If the database fails once at its opening, the old record goes all the
  same, and sets that were switched off are on again (`mapsets.ts:153-155`).
- When an item is set and all of its layer in the chart then go against the layer's mode, the
  mode flips and the exceptions of items not in the chart are gone: a fix of a set that is off
  comes back as the others are, not as it was left (`visibility.ts:64`).
- A point's exceptions are by where its first position stands: the same point of another set, a
  little off, is another item, and shows when the set that was hidden is off (`chart.ts:92-97`).
- A lane lifted at an edge that scrolls and held for 900 ms opens its picker, which the event of
  the last frame's scroll closes at once (`laneDrag.ts:161-192`, `Picker.tsx:58-60`). A scroll
  not yet told when the panel is hidden is kept as none (`Column`, `left.untold`). A new target
  closes the picker without giving the focus back.
- Where a lane would be dropped is told without the height of the axis, for lanes under it.
- Of two imports in flight the note of the older one may be what is left (`MapsPanel.tsx:40`).
  A root's `bbox` is kept by the strict reading and dropped by the lenient one.
- While the site is not known snapshots are dropped before the feed's state is set
  (`connect.ts:66-71`): after thirty seconds the banner says that the feed is dead though it is not.
- A pull let go after the tab of another panel was tapped leaves that panel at a detent which it
  may not have.
- A threat on the display whose altitude lapsed is neither drawn nor said to be off the scale.
- A target that is filtered is said to keep its altitude (`filter.ts:21`) and is drawn as a diamond
  alone (`targets.ts:139-142`).
- A finger's range line is previewed with a snap of 15 pixels and released with one of 24
  (`hit.ts:18`, `touch.ts:10`); as it ends the pointer of a mouse still hovering is forgotten
  (`drags.ts:136`).
- A block grabbed while it slides, and let go before the slide's end, leaps back onto the slide
  (`scene.ts:174-188`): `NeverLeaps` leaves that out.
- The barb of a wind of 145 knots or more has marks past the point of its staff (`barbPath`,
  `plot.ts`). Targets of the altitude readout are put in the order of a vertical rate that may
  itself have lapsed (`readout.ts:103`).
- A procedure tried first on a span with a label too long for it forgets that the span was shown
  (`spanDesignators.ts:221`), so that a shorter one's label is not kept through the tenth.
- The advisory CLEAR (`acas.ts:58`) is never said (`DetailPanel.tsx:39`). A level of 1000 or more
  runs the second line of a block past its twelve columns.

## What is left out, and why

- `Mirror` and the authority of `Door`: the program stops, the machine does not: writes that returned are
  on disk.
- `Door`: certificates age by the monotonic clock, as they are issued anew; that a certificate is
  itself valid by the wall clock, of the server or of the device, is not followed. An error of the
  disk as the authority is read or written is a stop at that step.
- `Feed`: the bytes of a message, and datagrams: a stream delivers in order or ends.
- `Traffic`: the values of most fields, which are kept and lapse alike; the power of the last
  messages; names and operators filled in from the registry.
- `Layers`: the navaids left out at wide ranges. `LayerTree`: how a search is read into terms.
  `RouteNames`: spans that are loops, and where along a span a label is put. `AreaNames`: the
  point of an area its block is put at. `Paths`: lengths, labels and the points a geodesic bends at; areas are routes that no
  point stops.
- `Placer`: what a good layout is; `Renderer`: what a buffer holds.
- `Glide`, `Tapes`, `Blocks`: floats are whole numbers of a small unit, rounded as each says.
- `MapSets`: imports are dated by a clock that neither stands nor is set back between two of them.
- `Gestures`: a press of the right button that the browser cancels. A cancel bears the number of the
  left one, so that `up` leaves the press as it was (`mouse.ts:64-81`, `:137`).
- `Settings`: fields that are alike are one field (one of several values; a list of what is open).
- `Strips`: instants are whole seconds, and a setting of an altimeter is the feet it adds; what the
  operator sets stands. `Column`: pixels are a few to a lane.
- `SetFile`: what the schema asks of a string or a number beyond whether it fits.

## The plan

Done: the server (feed with its promise, tracker, tasks, authority and door), proved but for
positions; the page's store, placer and sheet, with proofs, and renderer, what an operator does with
fingers, mouse and keys to scope, lanes, layers and map sets; what is drawn of a chart, of a target
and of its instruments; and what the browser keeps.

Left, in this order:

1. Proofs for the settings kept, for the window of the lanes, the column and the tree, and for
   the board, each by an inductive invariant checked by TLC first. No module declares a recursive
   operator, so that each may be proved about.
2. The block layout algorithm: the schedule of the hyperheuristic, the acceptance of moves, and
   the relations between blocks kept up to date (`placer/*.rs`), with its result shown to be one
   that `Placer` allows.
3. The registers' readings as operators against a reference (`tracker/register.rs`,
   `tracker/message.rs`).
4. The simulator's fleet: phases of a flight, and what it transmits when (`sim/fleet.rs`).
5. Windows on a desktop: where they stand, which is on top, and what is kept of them
   (`state/layout.ts`, `ui/Window.tsx`).
