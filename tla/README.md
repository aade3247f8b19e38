# ShadowMesh desktop: a verification development

TLA+ specifications of the desktop client under `apps/desktop-native`, the TLC
models that check them, and theorems about them that TLAPS checks. Source
locations are relative to `apps/desktop-native/src/` unless a path says
otherwise. `PROJECT.json` holds, per definition, the lines it translates.

Check a model with `tlc -config MCRoster.cfg MCRoster.tla`, a proof with
`tlapm RosterProofs.tla`.

## 1. The system

One process: a Slint window (`main.slint`) with handlers in `main.rs`. Three
kinds of thread touch its state.

* **The UI thread** runs one callback, one timer turn or one closure posted with
  `invoke_from_event_loop` at a time. Posted closures are a FIFO.
* **Tokio tasks**, one per press. A task talks to the daemon or to the control
  plane, or waits for a blocking one, and posts what it found. No press waits
  for an earlier one: **no button is ever disabled**, so any number of tasks of
  any kind are out together and land in any order.
* **The tray** delivers menu events from the desktop into a channel, which a timer of the
  UI thread empties one event a turn.

| component | state | operations | meets |
| :--- | :--- | :--- | :--- |
| roster (`main.rs` 488-683, `rfc051.rs`) | `listing_rows` under a mutex, `nodes`, `country_groups`, the state line | launch timer, REFRESH, fetch task, its closure | connect reads `listing_rows` |
| country grouping (`main.rs` 70-94) | the sections built so far | `group_nodes_by_country` | roster's closure |
| connection (`main.rs` 259-378, `connection_failure.rs`) | the status card | connect and disconnect, their tasks and closures | daemon (tunnel), roster, card |
| pairing (`main.rs` 380-486, `qr.rs`, `ipc_arms.rs`) | token, image, waiting flag | GENERATE, polls, CANCEL, five closures | daemon (sessions), the phone, card |
| forensic wipe (`rfc011.rs` 205-290, `main.rs` 953-991) | five files, the report | press, teardown, file after file, report | update check writes one of the files |
| single-instance guard (`single_instance.rs`) | the socket or file at the lock path | `try_lock` | other launches |
| start sequence (`main.rs` 114-206, `dumpability.rs`) | how far `main` has come, the posture against dumps | `apply`, guard, windows and core, first use of the credential | guard, the kernel |
| update notice (`rfc011.rs` 19-123, `main.rs` 893-922) | the stamp of the last check | `check_due`, `fetch`, `record_check`, `is_newer` | wipe, card |
| window, tray, session (`main.slint`, `tray/mod.rs`, `main.rs` 158-231, 685-951) | visibility, disguise, switch, login sheet, autostart | clicks, tray events, two closures | card |
| status card | one label, written by eight handlers | begin, end, report | all of the above |
| physics (`spring.rs`, `main.rs` 849-882) | position and velocity | a 16 ms turn | card, disguise |
| artefact scan (`attribution.rs` 240-451) | buffer, offsets | search, refill, carry, verdict | release gate |
| source stamp (`build.rs`, `attribution.rs` 295-307, 956-1010) | stamp, receipt, artefact | build script, gate | cargo |

**What is hard here.** Overlap of presses of the same and of different kinds
(roster, pairing, card); results that land late or out of order; state copied
before an await and used after it (the selected row); several facts written one
after another that readers on other threads see half done (held rows and drawn
rows); operations that fail half way (wipe, autostart) with a report that must
be true; a process that ends between two calls on the file system (wipe, update
stamp, lock path); clocks that are set back; labels that must end; and a few
dense sequential algorithms (grouping, Horspool's table, overlapping windows,
version order, drawing a code).

## 2. Modules

| module | models | extends or instantiates |
| :--- | :--- | :--- |
| `CountryGroups`, `CountryGroupsLoop` | `group_nodes_by_country`: as a function of the listing with its promises, for the roster; as a loop with a turn per row | |
| `RosterTypes` | answers, `RosterState::from_projection` / `from_failure`, the selection | `CountryGroups` |
| `RosterView` | **abstract**: a read lands once, rows and line together; a connect picks from one instant's rows | `RosterTypes` |
| `Roster` | the code's own steps: handler, fetch, two-part closure, connect task beside them | `RosterTypes`, INSTANCE `RosterView` |
| `StatusCard` | **abstract**: work begins under a label of its kind and is ended by a label that is none | |
| `Connection` | connect, disconnect, a daemon that serves, refuses, stops, starts; round trips that fail or lose their answer | |
| `Pairing` | presses, polls, the closure queue, the phone, CANCEL | |
| `Window` | tray, disguise, the two windows and the loop that ends with the last of them, login sheet, wipe report, update notice, autostart | INSTANCE `StatusCard` |
| `Desktop` | **composed**: everything that writes the card, with the card, the primary button's condition and the tunnel shared | INSTANCE `Connection`, `Pairing`, `StatusCard` (twice: as the window's part, and as what the whole implements) |
| `ForensicWipe` | the purge call by call, faults, failed stats, deaths, restarts, the update stamp | |
| `SingleInstance` | `try_lock` on Unix and Windows between launches | |
| `Launch` | **composed**: `main` from `apply()` to the first use of the credential, on three platforms, around the guard | EXTENDS `SingleInstance` |
| `UpdateCheck` | the cadence of checks over launches, settings of the clock, wipes and failing reads and writes of the stamp | |
| `VersionCompare` | `is_newer`, turn by turn | |
| `QrImage` | `pairing_qr_image`, pixel by pixel | |
| `HorspoolSearch`, `ArtefactScan` | `bmh_find`; `scan_file`, `verify_artefact` | |
| `SpringMotion` | the spring, its parameters and its timer, in fixed point | |
| `BuildStamp` | slint's compilation, the script's digest, rustc, edits between any two of them, and the gate on receipt, stamp and artefact | |
| `MC...` | small constants for TLC; `MCStandalone` chooses one of eleven parts that share no state and runs it | |
| `RosterProofs`, `ConnectionProofs`, `PairingProofs`, `ForensicWipeProofs`, `WindowProofs`, `DesktopProofs` | theorems about the module of that name | that module; `RosterProofs` also `ListingLemmas`, `DesktopProofs` INSTANCE `PairingProofs` |
| `ListingLemmas` | lemmas and a theorem about the grouping function, and least places in sequences | `CountryGroups` |
| `StandaloneProofs` | theorems about the parts of `MCStandalone` | those parts, `ListingLemmas` |

Variables have the code's names where it has them. A handler, a posted closure
or a timer turn is one action, because nothing runs between its statements on
the UI thread, with one exception: the closure of a refresh writes
`listing_rows` under a mutex that connect tasks take on other threads, so it is
split there (`HoldServedRows` / `ShowServedRows`, `ClearHeldRows` /
`ShowFailure`). A task is one action per await. The purge is one action per
call on the file system. `Desktop` takes the handlers of connecting and pairing
as they are, and those of the window (login, wipe, update check, autostart) by
what they promise, `StatusCard`: `WindowImplementsCard` is the theorem that
entitles it to. History variables (`asked`, `heldFrom`, `pickedFrom`,
`overlapped`, `rivals`, `set_by`, `recorded_at`, ...) are read by properties
only. Operators marked "variant of X" are plausible slips in X: with a variant
in X's place TLC finds the property it is paired with in `PROJECT.json`
violated. No action uses one.

**Outside the code, modelled from its use:** the daemon (serves one request at a
time, one that was given up included; its tunnel goes when it stops) and the way to
it (a client that cannot be made, a request that times out, an answer that is lost or
cannot be read: `main.rs` takes each for a daemon that is not there), the core's fetch
(returns or panics), the phone, the Slint runtime (a binding is followed until something
assigns its target; an element behind `if` is built anew; `run()` returns when the last
window is hidden), the tray library (a call may fail), the file system (a call may fail,
a stat included), cargo, the wall clock.

## 3. Runs

| run | bounds | distinct states | what it shows |
| :--- | :--- | ---: | :--- |
| `roster` | launch read and one refresh, two connects, four manifests and two errors | 74,801 | held rows, drawn rows and line are facts of one read; selections; every read lands; `Roster` implements `RosterView`, liveness included |
| `connection` | 3 connects, 2 disconnects, 1 stop of the daemon | 474,246 | the card is true of operations made one at a time, but for what the daemon has done unasked since |
| `pairing` | 3 presses, 1 poll each, 1 cancel | 365,166 | a waiting panel is polled for, CONNECTED is an approval, no panel waits for ever |
| `wipe` | 2 wipes, faults or none, 1 failing stat, tasks that die, 1 restart, an update check | 4,124,932 | what stays and was seen is reported, nothing is unlinked in the clear, the marker goes last |
| `desktop` | 1 connect, 1 disconnect, 1 stop of the daemon, 1 pairing with 1 poll, 1 wipe, autostart | 72,529 | CONNECTED is witnessed by an answer; the card is true of operations made one at a time whoever else writes it; no label of work stays; all writers together keep to `StatusCard` |
| `window` | 1 login, 1 wipe, the update check, 2 waiting tray events, an icon that may be refused | 568,368 | disguise of window and tray, sheet and session, autostart, a Show is heard while the loop runs |
| `standalone` | see below | 539,529 | the eleven parts that share no state, the guard and the start sequence among them |
| `tunnel_offline`, `one_instance_unix`, `wiped_nothing`, `approved_is_approved`, `qr_size` | as their passing runs, smaller | | a statement of the sources that the code does not keep (section 6) |

**Why the bounds are enough.** Two reads already land in both orders around two
connects that select before, between and after them; a third adds no new pair.
Three pairing tasks are needed for a token, an end and a cancel that belong to
three different presses; a second poll repeats the first with nothing changed,
so one poll stands for sixty. Two disconnects and three connects let each kind
overlap with itself and with the other after a success. Two wipes are the
fewest that undo each other's work (one's write of zeros makes again the file the
other has removed), and one failing stat (`Blind`) is enough to lose a file in silence. In
`desktop` a connect and a disconnect give every order of an operation that begins, lands or has
landed around the writes of a pairing and of a wipe, with a daemon that starts and stops in
between; more presses of the button are `connection`'s; one wipe stands for the window's work,
whose kinds differ in their labels only. In `window` a login that is out, cancelled,
overtaken by a wipe and answered late is one; that a second beside it changes nothing is
`SheetIsForStrangersAlways`, which is for any number; the icon stands for the part of the
tray that may be refused (`Refused`), the tooltip for the one that is not.
`standalone`: four launches, faults and both platforms for the guard (one that
runs, one that has ended and two that race), two launches on three platforms for
the start sequence, begun in the order of their numbers because launches are alike;
listings of up to five rows of four kinds; codes up to 3 x 3 with a quiet zone of 1 and a scale of 2 (2 and 6 in the code: the index
arithmetic has the same cases); versions of up to three numbers, one of them beyond
`u64`; an interval of 3 hours in quarters of an hour on a clock of 22 quarters that may be set back
once; every haystack of six bytes and needle of up to four over two letters;
every file of up to six bytes read in windows of 2 plus the overlap; six kinds
of work and a second connect; three turns of the spring's target at any step, in units of
1/10000; two files, one of them the user interface and one always listed, two contents and
three edits: one before a digest, one after it, and one that puts the first back.

Runs whose system can really stop say `CHECK_DEADLOCK FALSE`. `wipe` and
`one_instance_unix` use symmetry in presses and launches, with no liveness
property.

**Ends.** Closing the main window ends the loop and the program (section 6), which only
`Window`, `Launch` and the restarts of `ForensicWipe` and `UpdateCheck` model. The other
modules are about a loop that runs; an end of it is a prefix of their behaviours, of which
every safety property speaks, and no promise of theirs to end something outlives it.

**Fairness.** Weak fairness of what the runtime owes: a spawned task goes on
(tokio), a posted closure runs (the event loop), a held repeating timer fires
(tray, physics; the launch timer, once) for as long as the loop runs, a round trip to the
daemon comes to an end, by its timeout if by nothing else, a loop goes on. `desktop`
assumes what its parts assume. Nothing is assumed of the user, the phone, the desktop, daemon stops and
starts, or launches.

Liveness checked: `WaitingEnds` (`pairing`), `WorkingEnds` (`desktop`), `ShowIsHeard`
(`window`), `SpringSettles` (`standalone`), and the liveness of `RosterView` (`roster`).

Definitions that no run lists, because one that is listed says more or because
they are what a proof needs. TLC finds each true under the constants of the run
named: the inductive invariants `RosterInv` (`roster`), `TruthInv` (`connection`),
`PairingInv` (`pairing`), `PurgeInv` and `BackIsAboutToGo` (`wipe`), `WindowInv` (`window`),
`DesktopInv` (`desktop`), `GuardInv`, `LaunchInv`, `CompareInv`, `UpdateInv`, `DrawInv`,
`SearchInv`, `ScanInv`, `StampInv`, `GroupsInv` and `SpringInv` (`standalone`), with the
`TypeOK` they start with; `HeadersInFirstSeenOrder`, `IndexIsInRange`, `VerdictIsOfTheFile`
and `SearchEnds` (`standalone`); `PanelIsPolledFor` (`desktop`); `DialIsTheFirstOnlineRow`,
`LineLeavesPending` and `EveryReadLands` (`roster`); `ProgressEnds`
(`connection`); `PairingEnds` (`pairing`); `WipingEnds` (`wipe`, one
press without symmetry).

## 4. What the checks say of each part

* **Roster.** Whatever reads overlap, once the loop is free the held rows are the drawn
  rows (`HeldRowsAreDrawn`), the line is the state of the very read they are from
  (`LineSpeaksOfTheRows`), and READING is shown only while something is out
  (`PendingIsOutstanding`). The id dialed is `best` or an online row some read
  served, and is current until a read lands (`SelectionIsCurrentUntilARead`); of the listing
  it was picked from it is the first online row, in the server's order
  (`DialIsTheFirstOnlineRow`). The code's
  two-part closures are atomic to everybody: `ImplementsView`.
* **Grouping.** However the rows come, a country has one section, under it is the listing
  with the other countries left out, row for row and in the listing's order
  (`SectionsAreTheListing`), and the sections come in the order their countries were first
  seen. So what a free loop shows is the held listing, nothing lost or doubled
  (`EveryHeldRowIsDrawn`).
* **Connection.** Truth of the card is claimed only for operations that did not overlap, and
  only of CONNECTED and DISCONNECTED (`StatusIsTrueOneAtATime`): the labels of a daemon that
  is not there are given for every failed round trip, with daemon and tunnel up as well
  (`tunnel_offline`). The client never asks the daemon again, so the property names what may
  have moved the tunnel since: a stop, or a request the client had given up and the daemon served.
* **The card, with all its writers.** The label is also what the primary button
  decides by, so a pairing, an AUTOSTART or an UPDATE message written over it makes the next
  press a second connect or a disconnect of nothing. What survives any order:
  CONNECTED stands only after a served connect or an approval of the phone
  (`ConnectedIsWitnessed`); connects and disconnects made one at a time leave a true card
  unless a pairing has lit it (`CardIsTrueOneAtATime`); a label of
  progress is of work that is out, and an end writes an end (`ImplementsCard`); no label of
  work stays (`WorkingEnds`).
* **Pairing.** `WaitingIsPolled` rests on the queue's order: a token that has
  not been shown yet is followed by the end of its task, if that has ended. It
  does not speak of the card, so it holds with every other writer of that
  at work (`PanelIsPolledFor`). The polls are for the token, not for the image beside it: a code
  that cannot be drawn leaves the image of an earlier one (`main.rs` 427).
* **Wipe.** `WhatIsLeftIsReported` and `FirstRunHasNoIdentity` hold with two exceptions
  that are part of their statements: another wipe may make a file again by
  overwriting what this one has removed; and a file whose stat fails is to `path.exists()`
  (`rfc011.rs` 231, 258) one that is not there, so it stays, is in no report, and does not keep
  the marker from going (`ReportIsComplete`, section 6). Without faults nothing stays once the last of the
  overlapping wipes has reported, also of what a process left that ended half way through
  one (`GoneWhenQuiet`). Zeros are taken to overwrite in place.
* **Guard.** The properties are about what the guard keeps, which is never to
  refuse a start for nothing. What it is for does not hold (section 6).
* **Start.** No process gets as far as asking the daemon, and so resolving the
  credential, past an `apply()` that failed: on Linux the attribute is set or the process has
  panicked, on macOS the limit is set or its refusal printed (`CredentialIsClosed`).
* **Update notice.** Floored hours make the interval an hour short at most, and
  a stamp from the future makes a check due because the difference wraps. In a
  debug build the same subtraction panics, which is not modelled. The record of a check is one
  file, and whatever takes it away makes the next launch check at once: a wipe, a write that
  fails after truncating, a read that fails, or a launch that finds no state directory and looks
  into `/tmp` (`main.rs` 895-898, where the message says that the notice is disabled).
  `ChecksAreAlmostADayApart` names these four and no other; `RecordedIsFetched` says that
  nothing is recorded that was not fetched.
* **Window.** Icon and tooltip of the tray are in disguise as the window is, but for a
  part whose last setting failed, which nobody looks at (`tray/mod.rs` 121, 123). The switch may be
  wrong, but only after the tray has set the disguise (`SwitchIsWrongOnlyAfterTheTray`). A Show is
  heard while the loop runs (`ShowIsHeard`); the loop ends with the last window, so what there is
  to show is a disguise to take off, or a main window that is hidden while the About screen
  could not be.
* **Scan.** A stray prefix of a stamp before the real one does not make a current binary look
  stale. A prefix with no stamp behind it does: the verdict is Stale where `attribution.rs`
  207-215 would have Absent.
* **Spring.** The overshoot stays within a tenth of the whole travel for a
  target that turns round up to three times at any step, at rest or in mid-flight. The tests
  measure the overshoot from rest, and turn the target round once, at the fifth step
  (`spring.rs` 83-106), without measuring it.
* **Stamp.** What the gate lets through was built from the files of the receipt
  as they are now, but for a file that was edited between slint's compilation, the digest and
  rustc, whether cargo noticed or not, and then put back: it is in the artefact and in no digest
  (`GateIsNotFooled`, section 6). Outside the statement is also a file that is in no receipt
  because it appeared since the script ran.

## 5. Proofs

For every value of the constants (assumptions are named where the constants are
declared):

| module | theorems | by |
| :--- | :--- | :--- |
| `RosterProofs` | type, `HeldRowsAreDrawn`, `LineSpeaksOfTheRows`, `PendingIsOutstanding`, `SelectionIsCurrentUntilARead`, `DialNamesAServedRow`, `DialIsTheFirstOnlineRow`; `EveryHeldRowIsDrawn`; `Spec => View!Safety` | `RosterInv`, the lemmas of `ListingLemmas` |
| `ConnectionProofs` | type, `StatusIsTrueOneAtATime` | `TruthInv` |
| `PairingProofs` | `WaitingIsPolled`, `ConnectedIsApproved`, the invariant itself | `PairingInv` |
| `ForensicWipeProofs` | `WhatIsLeftIsReported`, `NeverUnlinkedInTheClear`, `FirstRunHasNoIdentity`; `GoneWhenQuiet` | `PurgeInv`; with `BackIsAboutToGo` |
| `WindowProofs` | type, `DisguiseIsWhole`, `SwitchIsWrongOnlyAfterTheTray`, `SheetIsForStrangers`, `OnHasAnEntry`; `Spec => ImplementsCard` | `WindowInv` |
| `DesktopProofs` | `ConnectedIsWitnessed`, `CardIsTrueOneAtATime`; `Spec => ImplementsCard` | `DesktopInv` |
| | `PanelIsPolledFor` | `PanelInv` of `Pairing` |
| `StandaloneProofs` | `NeverRefusedAlone`, `RefusedForARival` (any number of launches) | `GuardInv` |
| | `CredentialIsClosed`; `LaunchSpec => GuardSpec` | `LaunchInv` |
| | `LabelsAreDistinct`, `SectionsAreTheListing`, `HeadersInFirstSeenOrder`; the loop ends with `GroupByCountry(nodes)` (`LoopIsTheGrouping`) | `GroupsInv` |
| | `CardInv` | itself |
| | `ResultIsTheOrder` (versions of any length), `NeverBothNewer`; `Newer` is transitive and total up to zeros at the end | `CompareInv` |
| | `DueAfterADay`, `ChecksAreAlmostADayApart`, `RecordedIsFetched` (any interval, resolution and word) | `UpdateInv` |
| | `AnswerIsTheFirst` (any alphabet and texts); the window always advances; the answer is what `ArtefactScan` takes it to be (`SearchAnswersFirst`) | `SearchInv` |
| | `FoundIsTheFirst`, `VerdictIsOfTheFile`, `StaleIsAnother` (any file, needles, chunk, and cuts of the reads); `ScanLeft` falls at every step | `ScanInv` |
| | `IndexIsInRange` (any code, quiet zone and scale); a finished drawing has a pixel per module, too few at any scale above 1 | `DrawInv` |
| | `OvershootsAtMostATenth` (any turns of the target, any resolution of a thousandth or finer) | `SpringInv` |
| | `GateMeansCurrent` (any files and edits) | `StampInv` |
| `ListingLemmas` | `GroupingKeepsItsPromises` (any listing); least elements of sets of positions | |

Why the invariants are stronger than what is wanted: *Roster* ties the held rows, the
matrix, the line and each selection to the read they are from, which is what the
history variables name; without that link, nothing relates two writes of one
closure. *Connection* says what an answer on its way is worth (`Agrees`): nothing
but a stop or a request that was given up has moved the tunnel since. *Pairing* speaks of the queue, not only of the
panel: every token in it is followed by its task's end (`EndsFollowTokens`).
*Wipe* says of a wipe in progress that what it has passed is gone, reported, not seen, or
being made again (`PastIsPurged`), and that it stands before an unlink only over
cleared content; that nothing is left once all is quiet needs besides that a file
which is back behind a wipe is one another wipe is about to remove (`BackIsAboutToGo`). *Desktop*
says of connecting and of pairing what does not depend on the card
(`ConnectingInv`: what an answer on its way is worth; `EndsAreOfTheDone`: a task
posts one end, and is done then), so that either stays true while the other moves the card;
the refinement maps the work that is out to `WorkOut`, and needs that an end is
of work that was. *Stamp* says that between the script and rustc a listed
file not edited since the script's start is as slint compiled it and as it was digested. *Search*: the table
never jumps over a place whose end byte stands in the needle. *Scan*: what is not found yet ends
nowhere before the place the search has reached, and a carry of the longest needle less
one byte keeps every such place that began. *Guard* says whose file is at the path: that of a launch that
overlaps whoever is about to bind. *Spring* keeps position and velocity in a polygon around
both targets: the ellipse of the damped motion with its corners cut straight, so that a turn
keeps each side by a sum of multiples of the sides, and loose enough for what rounding
down adds in two places of a turn; the overshoot is one of its sides.

*Grouping.* `GroupByCountry` is a recursive function of the listing, and an induction over
its argument would need a theorem with an operator parameter. `ListingLemmas` does it
without: a turn keeps the promises (`AddNodeKeeps`), so if they failed after some number of
rows there would be a least such number (`LeastElement`, from the well-foundedness of
inclusion on finite sets), it would not be 0, and the turn before it would keep them
(`TurnByTurn`, `EveryTurnIsGrouped`). The loop is tied to the function by its own invariant.

*Composition.* `DesktopProofs` instantiates `PairingProofs` over the shared card. What
`Pairing` proves of its panel is split from what it proves of the card (`PanelInv`), since
the first is kept by whatever leaves the panel alone; its lemmas are cited as they stand.

TLC found each invariant kept on the small instance before it was proved. Each
proof has the same shape: the initial states, one lemma per group of actions, the step,
and a temporal conclusion by PTL.

**Model-checked only:** liveness under fairness, and with it the fairness part of
`ImplementsView`, which PTL without ENABLED cannot reach. Every safety invariant and action
property that a run checks is also a theorem. For two of the algorithms the measure behind their
end is proved (`TheWindowAdvances`, `TheScanAdvances`); that they are scheduled at all is
fairness.

## 6. Where the sources say something else

Each of these has a run in which TLC finds the statement violated:

| run | statement | what the code does |
| :--- | :--- | :--- |
| `one_instance_unix` | `single_instance.rs` 80-82: a live instance makes `bind` fail | the socket of the live instance is unlinked first, so two run |
| `wiped_nothing` | `main.rs` 953-954, `rfc011.rs` 207-208: the report says what succeeded | a task that dies becomes an empty report and the card reads WIPED |
| `approved_is_approved` | `main.slint` 1209-1211: status truth flows back | an expired code's panel reads APPROVED - ACTIVATED |
| `tunnel_offline` | `connection_failure.rs` 102-104: the daemon is not running, the tunnel is gone with it | any failed round trip reads so, and the card says DISCONNECTED (daemon offline) beside a tunnel that is up |
| `qr_size` | `qr.rs` 17-19, 65: an image of 222 x 222 with its quiet zone | the loops count modules where they should count pixels: 37 x 37 pixels are pushed for an image declared 222 x 222 |

And these are refuted by TLC under the constants of the named run, without a run
of their own (the definition is in the module):

| definition | statement it formalises |
| :--- | :--- |
| `LineSaysOutstanding` (`roster`) | `main.rs` 504: while a request is outstanding the line says so; an earlier read's landing overwrites it |
| `UnreadableHasNoRows` (`roster`) | `rfc051.rs` 55-56; an unknown projection comes with rows |
| `NoEarlierRowsAfterAFailure` (`roster`) | `main.rs` 607-608; an older read may land after the failure |
| `DialedRowIsOnScreen` (`roster`) | `main.rs` 619-622; the id is copied before an await |
| `CardGlowsOnlyWhenLive` (`connection`) | `main.slint` 1014; nobody tells the client that the daemon has stopped |
| `RefusalLeavesTheTunnel` (`connection`) | `connection_failure.rs` 113-117; a core task that fails hides the daemon's success |
| `DismissedStaysDismissed`, `ExpiryUnsaysNoApproval` (`pairing`) | `main.rs` 380-382; CANCEL does not end the task, and an expiry overwrites CONNECTED |
| `ImageIsOfTheToken` (`pairing`) | `qr.rs` 1-4: the image is the code of the token; one that cannot be drawn leaves the image before it |
| `ReportIsComplete` (`wipe`) | `rfc011.rs` 207-208; a file whose stat fails is passed over without a word |
| `RemovedWasThere` (`wipe`) | `rfc011.rs` 207-208; an absent `activation.json` counts as removed |
| `FieldIsTheToken` (`window`) | `main.slint` 858, 949-950: the token field is bound two ways; it is bound one way, so AUTHENTICATE always sends the empty property |
| `HidesRatherThanExits` (`window`) | `main.rs` 186-187: the main window hides rather than exits; with the last window hidden `ui.run()` returns (993), and the program ends |
| `WipedHasNoTunnel` (`desktop`) | `rfc011.rs` 10-11, `main.rs` 953: the wipe tears the tunnel down; it ends the core's session, and the daemon's tunnel stays (`main.rs` 833 says that this is still to do) |
| `AtMostOneOnWindows`, `RefusedByALiveOne` (`standalone`) | `single_instance.rs` 125-127, 49-50; an open of a held file succeeds, and EADDRINUSE is about the path |
| `PixelsAreInTheirPlace` (`standalone`) | `qr.rs` 28: 6 pixels per module; rows of one width are read with another |
| `GateIsNotFooled` (`standalone`) | `attribution.rs` 967-968, `build.rs` 63-65: an artefact that passes is what this source produces; see Stamp above |
| `ChecksAreADayApart`, `FetchesAreAlmostADayApart` (`standalone`) | `rfc011.rs` 19; hours are floored, the stamp may be lost, and a program that ends before the record fetches again |

Read off the code while modelling `Window`, and built into it: the tray's Quit
entry is handled by nobody; the switch shows the opposite of the disguise after
the tray has set it; the login sheet stays up in disguise; AUTOSTART and UPDATE
messages overwrite CONNECTED, after which the primary button asks for a connection
again; a login answered after a wipe makes a member; disabling autostart does
not report a file that stays; the wipe leaves the autostart entry, and starts at one
tap, where `main.rs` 955-956 speaks of a confirm sheet; the admin sheet
cannot be reached because `is_team_admin` is never set. In `scan_file`, `scanned`
is 0 at every search, so the overlap is searched twice; nothing is missed by it.

## 7. Not modelled

* The table of answers in `ipc_arms.rs` beyond the token's arm (`roster_projection` has no
  caller; the rest is spelling), and `ipc_wire.rs`, which is tests of the daemon's decoding.
* Layout, colours, fonts and wording of `main.slint`; the admin sheet.
* Transport and JSON of the manifest and of the update notice; decoding of icons.
* How `build.rs` finds the files of the receipt: one set in `BuildStamp`.
* The tests, which are most of `attribution.rs`, `rfc051.rs`, `connection_failure.rs`,
  `dumpability.rs` and `ipc_arms.rs`: many read the sources as text and pin wording.

## 8. Plan

Done, in this order: roster with its view, country grouping, connection,
pairing, wipe, guard, drawing, update notice and versions, window, the card's
contract, search and scan, spring, stamp; the start sequence around the guard; all
writers of the card in one state space; proofs of every safety property of these, and of the
refinements of `Roster`, `Window` and `Desktop`.

Left, the most important first:

1. The wipe's teardown as a step that ends the daemon's tunnel, once the code has one
   (`main.rs` 833), and `WipedHasNoTunnel` as a property that holds.
2. The roster's read across the daemon's own `ListNodes` answer and the arms of
   `ipc_arms.rs`, once a caller of `roster_projection` exists.
