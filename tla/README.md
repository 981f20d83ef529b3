# A TLA+ development of pptx2html-turbo

This directory models the parts of pptx2html-turbo in which state, order,
concurrency or failure matter, checks the models with TLC and proves the main
results with TLAPS. Paths below are those of the repository.

Contents: [the system](#1-the-system), [modules and code](#2-modules-and-code),
[runs](#3-runs), [bounds](#4-bounds), [fairness](#5-fairness),
[proofs](#6-proofs), [where code and documents disagree](#7-where-code-and-documents-disagree),
[what is left out](#8-what-is-left-out), [plan](#9-plan).

To repeat a result: `tlc -config Deck.cfg Deck`, `tlapm DeckProofs.tla`.

## 1. The system

The repository converts documents to HTML. It has five groups of parts.

| group | where | language |
|---|---|---|
| presentation converter | `crates/pptx2html-core` | Rust |
| universal document engine | `crates/document2html-core`, `crates/document2html-native` | Rust |
| front ends | `crates/*-cli`, `crates/*-py`, `crates/*-wasm` | Rust |
| LLM enhancer | `pptx2html-enhance` | Python (asyncio) |
| evaluation harness | `evaluate` | Python (threads, processes, files) |

How they interact:

    front ends --> document2html-core: detect_format
                     | pptx                      | everything else
                     v                           v
               pptx2html-core              document2html-native
          parser -> resolver -> renderer    office, pdfinfo, poppler stages
                     |                           | each stage: one process
                     | HTML with placeholders,   v
                     | unresolved elements   SystemCommandRunner::run
                     v
              pptx2html-enhance (optional): a model replaces placeholders

    evaluate: contract -> plans -> pools of sources -> native unit inventory
                -> ready corpora -> captures (oracle, candidate: run, browse,
                   photograph) -> reviews -> metrics -> report -> gate
              every process run: candidate process runner
              every document published: atomic, snapshot or file publisher
              every file read: a reader that looks before and after

### Inventory

For each part: its state, its operations, what it interacts with, what is hard
about it, and what makes it correct.

**Presentation parser** (`pptx2html-core/src/parser`). State: the
`Presentation` it builds (slides, layouts, masters, themes, embedded inventory,
actions), the notes and comments; while it reads a slide, some seventy flags,
builders and waiting values. Operations: `parse`, one function per part, one
match arm per XML event. Hard: slides that cannot be read are skipped and the
rest goes on; later phases are keyed by slide numbers, places and part names
that agree only when nothing was skipped or moved; a flag that an end tag
forgets sends the values of the next element astray. Correct: what is recorded
for a slide stays tied to that slide; every value reaches the object it belongs
to. *Modelled in Deck (the ties) and SlideParser (the event loop of a slide).*

**Style resolver** (`pptx2html-core/src/resolver`). Stateless: slide, layout,
master and theme to a value and the provenance of that value. Hard: value and
provenance are computed on two paths. *Not modelled yet (planned: Cascade).*

**Renderer** (`pptx2html-core/src/renderer`). State: the collector (counter,
unresolved elements, occurrences of embedded objects, diagnostics), the numbers
of automatic bullets. Operations: `render`, one function per kind of shape.
Hard: one counter for three kinds of entries; occurrences counted by parser and
renderer independently; hidden shapes and unselected slides; sorting and
deduplication of diagnostics at the end. Correct: unique ids and identities,
every placeholder once and in order, nothing reported twice or dropped. *The
collector is modelled in Deck; markup, geometry and text are not.*

**Internal links and browser runtimes** (`renderer/actions.rs`,
`renderer/timing.rs`). Slide links carry the same numbers as notes. *Not
modelled; finding 2 applies to them.*

**Universal document core** (`document2html-core`). Stateless: detection of the
format, the contract of an adapter, display of spreadsheet cells. *Not
modelled: pure functions of bytes.*

**Native conversion** (`document2html-native/src/{converter,office,poppler,pdfinfo,stage,workspace,runtime,isolation}.rs`).
State: a temporary workspace, discovered tools. Operations: discover, convert
(one to three stages in a row, validation after each), clean up on drop. Uses
the process runner once per stage. Hard: several bounded stages in one
workspace; clean-up on every path. *Not modelled yet (planned:
NativeConversion, above BoundedRun).*

**Native process runner** (`document2html-native/src/process.rs`,
`process/output_limit.rs`). State: the child and its group, a reader thread and
a pipe per stream, a channel, captured streams, the output directory.
Operation: `run` under a deadline, a log limit and an output limit. Hard:
threads, descendants that outlive the child, kill and reap races, a directory
scanned while it changes. Correct: an Ok log is whole and in order; limits hold
and are reported only when crossed; nothing of the run is left; it returns.
*Modelled in NativeProcess.*

**Spreadsheet freeze and HTML** (`xlsx_*.rs`, `spreadsheet_html`). Pure rewrite
of a package in memory. *Not modelled.*

**Command line tools, Python and WASM bindings.** One call of the library, no
state. *Not modelled.*

**LLM enhancer** (`pptx2html-enhance`). State: a semaphore, a task per element,
the document, the report, the provider. Operations: `enhance`,
`Enhancer.enhance_with_report`, one handler per type, `patch_html`. Hard:
timeouts that race answers, slots that must come back after a timeout or a
cancellation, replacements applied to a document earlier replacements changed,
the provider closed in a `finally`. Correct: slots are conserved, a failed
element keeps its placeholder, a good fragment replaces the right one, the call
ends. *Modelled in Enhancer; the rules that make fragments are not.*

**Candidate process runner** (`evaluate/multiformat_candidate_process.py`).
State: as the native runner, plus an overflow event and two lists of failures
shared by three threads. Operation: `run_bounded_process`. Hard: three threads
kill and reap; descendants leave the session; refused signals; the order in
which failures are reported. *Modelled in CandidateProcess.*

**Native unit capture** (`evaluate/multiformat_native_unit_*.py`). State: the
identities of the inputs, private copies of the tools, a barrier, a cache of
observations with a lock per entry, the inventory. Operation:
`capture_native_unit_inventory`: every source observed twice, two of them side
by side, by several workers. Hard: files are read many times and may be edited,
and edited back, in between; a cached observation serves later campaigns; a
failed observation leaves others running. Correct: what is published was
observed; nobody runs a program that was removed; it ends. *Modelled in
NativeUnits; the removal of its workspaces in OwnedRemoval.*

**Candidate capture** (`evaluate/multiformat_candidate_*.py`). State: the
sandbox token, frozen sources, private copies of the programs and what
`RuntimeArtifactSnapshots` remembers of them, artifacts of two runs, manifests.
Operation: `capture_candidate_evidence`. Hard: some sixty reads of files that
may be replaced and restored in between. Correct: what is READY rests on what
was attested. *Modelled in CandidateCapture.* **Units in the browser**
(`multiformat_candidate_browser*.py`, `candidate_scripts.py`): callbacks of
requests, errors, windows and crashes come at any moment, while the page is
changed unit by unit. *Modelled in UnitCapture.*

**Readers of files and trees** (fourteen of them, in `multiformat_*_fs.py`,
`*_files.py`, `*_bindings.py` and others). Each compares the status of what it
reads at different moments. Correct: what a scan that succeeded recorded was
there. *Modelled in StableScan.*

**Publishers** (`evaluate/multiformat_atomic_publish.py`,
`multiformat_snapshot_*.py`, `multiformat_metric_file_publish.py`). State: a
staging directory or pending file, a lock file, the destination, what is on
disk. Operations: `atomic_publish`, `publish_snapshot`,
`publish_created_file`. Hard: races of publishers, deaths, a power failure,
errors during clean-up, interruptions between a system call and the note that
it was made. Correct: one publication, complete, for good after success,
nothing left after failure. *Modelled in AtomicPublish, SnapshotPublish and
FilePublish.*

**Release evidence and corpora** (about a hundred validators and tools of
`evaluate`). State: documents that record each other's digests, and the world
they describe (HEAD, programs, sources). Operations: every tool that reads some
documents and publishes another, and the gate. Hard: nothing forces a caller to
pass documents that belong together; each validator compares some of the
digests only. Correct: what the gate accepts is of one version, is not stale,
and is all that should be accepted. *Modelled in Evidence, OfficeEvidence,
Corpora and Golden over EvidenceMachine.*

**Other evaluation code**: package writers and byte parsers, metrics, golden set
generators, visual comparison, research loop and release scripts. *Not
modelled: pure computation over complete files, or shell around other programs;
PROJECT.json has the reason for each.*

PROJECT.json lists every component with its sources, and every hazard with its
line and the properties that watch it.

## 2. Modules and code

| module | lines of the system it stands for | abstracts |
|---|---|---|
| Deck | parser `mod.rs`, `embedded_parser.rs`, `notes_comments_parser.rs`; renderer `mod.rs`, `fallback.rs`, `embedded_fallback.rs`, `notes_comments.rs` | contents of slides |
| SaxRules, SaxMachine, SlideParser | `slide_parser.rs` with the states of frames, tables, text and fills | attribute values |
| Enhancer | `enhancer.py`, `html_patch.py`, `__init__.py`, handlers and providers as far as they await or fail | fragments |
| BoundedRun | (abstract) what running a process under limits promises | |
| NativeProcess | `process.rs`, `process/output_limit.rs` | bytes to offsets |
| CandidateProcess | `multiformat_candidate_process.py` | bytes to counts, the clock |
| NativeUnits | `multiformat_native_unit_*.py` | files to numbers of edits |
| CreateOnly | (abstract) what publishing under a contested name promises | |
| AtomicPublish | `multiformat_atomic_publish.py` | file contents |
| SnapshotPublish | `multiformat_snapshot_{publish,lock,cleanup,filesystem}.py` | file contents |
| FilePublish | `multiformat_metric_file_publish.py` | file contents |
| CandidateCapture | `multiformat_candidate_{capture,preflight,sandbox,run,manifest,...}.py`, `multiformat_capture_*.py` | files to versions |
| UnitCapture | `multiformat_candidate_{browser,browser_network,scripts,security_browser}.py` | geometry, pixels |
| StableScan | `multiformat_ready_tree_fs.py`, `public_pool_fs.py`, `native_unit_files.py`, `font_filesystem.py` and ten more | a tree of two files and a directory |
| OwnedRemoval | `multiformat_native_unit_cleanup.py` | one file in the workspace |
| EvidenceMachine | (common) documents that record each other, tools, gates | digests to versions |
| Evidence, OfficeEvidence, Corpora, Golden | validators, tools and gates of the portable and Office profiles, the ready corpora, the golden set | contents of documents |

Modules for checking compose them: MCPresentation (SlideParser and two
instances of Enhancer; MCSlideParser has the grammar), MCCapture
(CandidateProcess and NativeUnits), MCPublish (the three publishers), MCHarness
(these and CandidateCapture, UnitCapture, StableScan, OwnedRemoval), MCEvidence
(the four chains). In such a module a behaviour is about one part, chosen in the
initial state; the other parts stand still. So a run that passes, and a theorem
about the composed specification, says of each part what it would say of it
alone.

NativeProcess and CandidateProcess implement BoundedRun under a refinement
mapping; the three publishers implement CreateOnly. A definition whose comment
begins "Mutant of" is a wrong variant of the definition after it, used to see
that the properties notice; no specification uses it.

### Deck

The parser reads the references of `sldIdLst` in order (`refs`, `next`); a
readable slide is appended to `slides` and its notes recorded under its number
in the list (ReadSlide), an unreadable one is skipped (SkipReference). Whether a
slide can be read is a choice. ResolveShape takes the shapes of a slide in
order; an embedded object (SmartArt, OLE, equation) is entered in the inventory
under part, id and XML, with its occurrence counted by id. EndSlide and Fail end
a slide. The renderer walks places and shapes (NextSlide, SkipHidden), gives a
placeholder to an object (RenderEmbedded when the inventory has it under the
part name made from the *place*, else RenderLost) and to an unsupported geometry
(RenderGeometry), and takes a number for the diagnostic of a pattern
(RecordPattern). AppendNotes selects the notes by number.

Abstractions: selection options and hidden slides come down to a set
`included`; groups are flattened in walking order; every readable slide has
notes, comments go the same way; the list of diagnostics, which the code sorts
and deduplicates, is a set; the part names `slide<n>.xml` are the numbers n.

### SaxRules, SaxMachine, SlideParser

SaxMachine is the event loop of the parsers: a stack of open elements, flags and
builders, values that wait for an end tag. SlideParser is `parse_slide_impl` as
tables of rules for it, one rule per match arm and in the code's order, the
arms of the four helper states included; the first rule whose guard holds takes
the event. The document is any that the grammar of MCSlideParser allows. Every
value carries its *home*, the slot and the element that own it by its place in
the document, at which the rules never look: ValuesGoHome and NoValueLost
compare where the code puts a value with its home; PiecesOnce says the same of
shapes, rows, cells and paragraphs.

### Enhancer

An action is what the event loop runs between two awaits. The semaphore is that
of asyncio (FIFO waiters, a slot granted before the waiter runs), timeouts may
fire before or after the answer came. A call of the provider that is told to end,
by its timeout (Expire) or by a cancellation of the whole (Cancel), keeps its slot
until the provider has unwound it (Unwind), after any time and with any outcome.
A task that waits for a slot or has not begun ends at once (Abandon). The gathering
ends when all tasks are over, or with the first that ends cancelled, as
`asyncio.gather` does without `return_exceptions`; so after a cancellation the
provider may be closed while calls of it still unwind, and ProviderOutlives claims
only that these have all been told to end. Patching is `Patched`: one replacement after the other over the list of
nodes with an id, with the rules of `patch_html` for a placeholder that is
missing or a fragment without a body.

### NativeProcess

The controller's `pc` follows `run`: launch, the observation loop (try_wait,
deadline, live scan, receive), terminate and reap, the two joins, drain, final
scan. Each reader thread reads chunks, which are intervals of offsets, and sends
them to one channel. The processes of the group write, close, fork, exit, change
the files; a process that was sent SIGKILL runs no more code and ends at some
later time. While a process is alive a directory walk may see any size: it is
not atomic. The two calls of `terminate` on an error path are one step, as the
second finds the child reaped and the group signalled.

### CandidateProcess, NativeUnits

CandidateProcess is the same kind of system in Python. Every wait has a timeout
and may give up at any moment; the two readers kill the group themselves on
overflow and on a failure of their own; a descendant may leave the group
(Escape) and is then beyond reach; killpg may be refused (MayRefuse). The order
of the checks at the end decides which failure is raised and is kept.

NativeUnits follows a campaign from Trust (identities of the inputs) over Load,
Probe, three phases of observations (Take ... Store, one step per read, wait or
program) and Close to Build, Validate, Approve and Rename. A file is the number
of its edits, which stands for its identity; its digest is the parity, so that a
second edit restores the content. A program run is two steps, as the other half
of the run shows that it ends. The cache outlives campaigns; locks of dead ones
stay. Contract, routing and configurations are one file, "manifests", which is
not part of the key.

### AtomicPublish, SnapshotPublish, FilePublish

A directory or file is named by the publisher that made it. Each step of the
code that changes the file system is an action; an error or an interruption may
come in place of any step or after it, and a process may die between any two. The
clean-up runs only for what is raised inside the `try`: the staging directory
stays when it cannot be looked at (Stat), the pending file when an interruption
comes right after its creation, and both when the clean-up itself fails. Such a
call is "left"; "failed" is one whose clean-up came to its end. `complete = True`
is a step of its own, after the last sync.

AtomicPublish and FilePublish keep in `disk`, beside the visible state, what may
be on disk: of each name all that it has had since its directory was synced last,
of each file and READY file whether it is known to be as it is seen. A power
failure picks any of these, one by one. So the unsynced removal of a tree may be
undone in part, a READY that a failed call had written and removed may come back,
and so may a pending file whose rename or removal was not synced. CreateOnly says
it in the abstract: `recoverable` is whose publication the name may have after a
power failure, only a sync makes it smaller, and success means that nobody
else's is in it. Two claims are limited by this. FailedLeavesNothing speaks of the
time before a power failure. PublishedIsWhole makes an exception for the trees whose
publisher removes them, failed to, or died while it did: rmtree takes entries in
any order, READY perhaps last. In
SnapshotPublish an interruption may fall between the rename and the assignment
that notes it; the clean-up then acts on what it believes.

### CandidateCapture, UnitCapture

CandidateCapture has one action per stage of `capture_candidate_evidence`, and
`todo`, the stages that are left. A file is the number of its version; Edit
replaces any file, or puts it back, between two steps, EditCopy a private copy,
which keeps the trace of it in its times. A sandboxed capture runs its own
program again (Launch), with what the profile denies.

UnitCapture has one action per script that is run in the page and per
screenshot. Requests, errors, windows and a crash come between any two and only
fill lists, which CheckRequests, LastCheck and Noticed look at when the code
does. The page may hold an element with the id of a unit, nested units, styles
of its own.

### StableScan, OwnedRemoval

A reader is a record of what it compares and when; List, Look, Open, Read,
Leave, Close interpret it. Others write files (in place, with a time that shows
or not), replace, remove and add entries. What a file holds is the number of its
writes; where contents come back (`returns`) every second write restores the bytes
of the one before, and digests, which are compared by Agree, IsKnown and Found,
are then equal for different versions. `moments` keeps what the tree was during the
scan, for ScanIsTrue only. ScanIsTrue claims the more, the more the reader can tell:
nothing where contents come back and the times do not show it.

OwnedRemoval follows `_remove_entry`: an entry is moved into a tombstone,
compared with the inode that was meant, and removed there or moved back, while
others move names. Level 1 is the workspace, level 2 the file in it. Every step may
fail or be interrupted, the removal of the tombstone after a successful removal
too, so a removal that failed may have removed the workspace; OwnedOnly says that
nothing but the workspace and what was listed in it is ever removed, and that
success means that it is gone with nothing hidden in a tombstone. Others reach into
tombstones except while the tombstone is read-only: from its fchmod (line 128) over
the second comparison (129) to unlinkat. `_remove_captured` makes it writable again
right before it calls unlinkat (213-228), and a swap between these two calls is left
out: the entry is not compared a third time.

### EvidenceMachine and its tables

A kind of document has versions; a tool compares what the documents it was given
record (`binds`), the sources as they are (`now`), and publishes a new version
that records the versions it read. A validator of the code is a set of pairs
<<holder, kind>>: the digest of kind that the holder records is compared. The
gate is the last validator. Evidence, OfficeEvidence, Corpora and Golden
translate the validators and tools to such tables. Calls pass any mixture of old
and new versions.

What a row names is the file behind it. "revision" is HEAD with the files of
`evaluate/`, "routing" the one of them that holds the commands of each format,
because `multiformat_portable_lock.py:100-102` reads that table wherever a portable
lock is validated. "tools" are the programs, the Rust toolchain, the fonts and the browser,
"inputs" the sources that the corpus lists. Under the Office profile "exports" are
the files that Office made on the Windows machine: a batch keeps them beside its
manifest (BatchFiles), and whoever finalizes a batch compares its copy as well
(CopiedBatch). A validator that a second one repeats, such as LockArtifacts or
RequestReceipt, has its own set, although a call is one step here and what changes
within it is not followed.

## 3. Runs

| run | question | result |
|---|---|---|
| `deck` | Are ids and identities unique (NumbersAreUnique, IdentitiesAreUnique), placeholders complete and in order (EveryShapeOnce), and do slides that are in their place keep inventory, diagnostics and notes (InPlaceKeepsInventory, InPlaceIsReported, NotesFollowSlides)? | holds |
| `deck_previews` | Does every object show its own inventory (ShowsOwnInventory)? | violated (finding 1) |
| `deck_notes` | Are notes output exactly for the slides that are (NotesFollowSelection)? | violated (finding 2) |
| `process_log` | Is an Ok log whole, in order, within its limit (OkComplete, InOrder, LogLimit); is run a BoundedRun (ImplementsContract)? | holds |
| `process_tree` | Is nothing left, does nobody survive a kill, is the output bounded (NothingLeft, NoSurvivors, OkOutputBounded), does run return unless an orphan holds a pipe (KillReturns, ReturnsUnlessHeld)? | holds |
| `process_deadline` | Does run return, the deadline being 120 seconds (Deadline)? | violated (finding 3) |
| `capture` | A run of a converter: is what is left behind reported (LeftIsReported), does it return (RunReturns), is it a BoundedRun (ImplementsContract)? Campaigns of runs: was observed what is published and what is cached (InventoryIsTrue, CacheIsTrue), does nobody run a removed program (PoolOutlivesRuns), do campaigns end (CampaignsEnd)? | holds |
| `publish` | Publishers: is success for good, what a reader finds whole, failure that was cleaned up without trace (OkIsForGood, PublishedIsWhole, FailedLeavesNothing); are they CreateOnly (ImplementsContract)? Is a READY candidate what was attested (AsAttested), its pictures those of its units (PicturesAreTrue)? Was there what a reader recorded (ScanIsTrue)? Is only the own workspace removed (OwnedOnly)? | holds |
| `snapshot_interrupt` | Is the target of an ended call complete or absent (EndedIsComplete)? | violated (finding 4) |
| `presentation` | Does every value of a slide reach its object (ValuesGoHome, NoValueLost), every piece once (PiecesOnce)? Are slots conserved (SlotsConserved), does no call of the provider outlive the gathering but those that a cancellation told to end (ProviderOutlives), do failed elements keep their placeholders and good fragments replace the right ones (PatchedInPlace), does the call end unless the provider holds it (EndsOfSlots)? | holds |
| `evidence` | For four chains of documents: does the gate accept evidence of one version only (OneVersion), nothing stale (NothingStale), and refuse nothing else (NothingLost)? | holds |
| `golden` | Do the pictures that a gate of exactness counts cross-link exactly with decks and metadata (ExactCrossLinks)? | violated (finding 5) |

Each passing property has a mutant in PROJECT.json: one definition of the model
changed as a bug would change it, after which TLC finds the property violated.

Properties worth reading first: IdentitiesAreUnique and InPlaceKeepsInventory
(Deck), InOrder and NoSurvivors (NativeProcess), InventoryIsTrue (NativeUnits),
AsAttested (CandidateCapture), ScanIsTrue (StableScan), OneVersion
(EvidenceMachine).

`CHECK_DEADLOCK FALSE` is in every configuration because every modelled call
ends: a converted deck, a run that returned or a finished publisher has no next
step.

## 4. Bounds

| run | bounds | why they are enough |
|---|---|---|
| `deck` | 3 parts, 1 id, 2 XML texts (one names a relationship), 3 shapes in the deck | copies of one object, two objects with one id, a slide in the place of another and one skipped before it all fit; more ids add independent keys |
| `deck_previews`, `deck_notes` | 2 parts, 2 shapes | the smallest decks with a misplaced slide |
| `process_log` | no descendant, log limit 2, chunks and pipes of 2, 3 bytes written per stream | below, at and one above the limit, cut in every way, two streams |
| `process_tree` | one descendant, log limit 0, output limit 1, output up to 2 | the descendant outlives the child and holds each pipe; output below, at and above the limit |
| `process_deadline` | one descendant, no file output | the smallest group with an orphan |
| `capture`, runs | one descendant, log limit 1, chunks of 2, 2 bytes on stdout and 1 on stderr | overflow by a chunk that straddles the limit; escape; refused signals; both readers run the same code, so one of them overflows |
| `capture`, campaigns | three set-ups: one campaign of four sources of three formats with two edits (Alone), two at once that share a cache, with one edit and one death (AtOnce), one after the other with two edits (Again) | two edits are an edit that is undone; all three phases and both kinds of formats occur; the cache is met empty, filled, locked and filled from older inputs |
| `publish`, publishers | 2 publishers of a tree and 2 files with 1 power failure; 3 of a snapshot; 3 of a file with 1 power failure | a race needs two, a partial tree two files; the third finds a lock that the operator cleared and another took, or a pending name |
| `publish`, candidate | 2 sources, 2 replacements | a replacement and its undoing around any read. With one source, 4 and 5 replacements were explored as well (1.1 and 5.5 million states): the fifth admits units of another corpus, as AsAttested says |
| `publish`, units | 3 units | first, last and one between |
| `publish`, readers | a tree of two files and a directory, 2 changes by others; the readers, times and contents for which ScanIsTrue claims something (`Telling`) | a change and its undoing; a file in the root and one below |
| `publish`, removal | 3 moves, one file | swap and swap back, at both levels |
| `snapshot_interrupt` | 1 publisher, 1 file | smallest instance |
| `presentation`, slide | nesting to 17, each repeatable element at most twice | a table cell with text in a graphic frame in a group, and its sibling |
| `presentation`, enhancer | 4 elements, 2 slots, 1 id; 3 elements, 1 slot, 2 ids | two tasks in and two waiting, so that a grant, a timeout and a cancellation can meet; two elements of one id and a third whose id a fragment carries |
| `evidence` | 1 edit or repetition, 2 versions of each kind | one edit makes two worlds, and documents of both are mixed in every way. With 2 edits two of the chains were explored as well (40,256 states) |
| `golden` | 1 edit | smallest instance |

Named bounds in the models: MaxShapes (Deck), WriteBound and OutputBound
(NativeProcess), WriteBound and the condition in RunNext (CandidateProcess,
MCCapture), the edits and deaths of a plan (NativeUnits), MayLosePower and
`lost` (AtomicPublish, FilePublish: the power fails once), MaxEdits
(CandidateCapture), MaxChanges (StableScan, EvidenceMachine), MaxMoves
(OwnedRemoval), Depth and MaxVersions (EvidenceMachine), MaxDepth (SaxMachine).
The theorems of section 6 have no such limits: they hold for every value of the
constants.

## 5. Fairness

*NativeProcess*: weak fairness of the controller and of the readers (the
operating system schedules the threads of this program), of Die (the kernel
delivers a SIGKILL) and of Expire (the clock advances). Nothing is assumed of
the converter and its descendants, which may run or sleep for ever, nor of the
failures. KillReturns and ReturnsUnlessHeld hold under this; Deadline does not.

*CandidateProcess*: weak fairness of the calling thread (`Main`) alone. Each of
its waits has a timeout, so one of its steps is always enabled; neither the
readers nor the converter need to be scheduled.

*NativeUnits*: threads run, a program that was started ends (that is RunReturns)
and a wait at the barrier times out. One condition for all campaigns says it, as
the steps of each are finitely many. Nobody need edit a file or die.

*Enhancer*: the event loop runs what is ready (`Gather`, `Task`) and fires timers
that are due (`Expire`). Nothing is assumed of the caller nor of the provider: not
that it answers (Answer), that it unwinds a call that was told to end (Unwind: since
Python 3.12 `wait_for` awaits the cancelled coroutine without bound), or that
its `close()` returns (Close, `__init__.py:106`). EndsUnlessHeld claims accordingly: the
call ends, or some call of the provider that was told to end is held for ever, or it is
in `close()` for ever. What it excludes is everybody waiting for a slot that nobody
has, and a call that is never timed.

All other modules have safety properties only.

## 6. Proofs

All theorems are checked by tlapm from the assumptions named in the modules,
which only say what kind of values the constants are: limits are numbers, sets
of sources and publishers are sets, a corpus lists finitely many sources
(HarnessAssumption), the ids of placeholders are finitely many, a document has a
unit.

**NativeProcessProofs**, from LimitsAssumption, for every limit, buffer and pipe
size and every set of descendants.

- TypeCorrect. TypeOK needs `pipe[s] <= written[s]`: a reader takes its offsets
  from the difference.
- NothingIsLeft, NobodySurvives, OkOutputIsBounded. The invariant TreeInv ties
  the place of the controller to the state of the child (ChildInv), of the
  readers (ReaderInv), of the processes a kill reached (KillInv) and of the
  output (FileInv). It is needed because the properties speak of the end only,
  while what makes them true happens in terminate, reap and the joins.
- OkIsComplete, LogInOrder, LogIsLimited. As long as no event was refused, the
  events of a stream that are in the channel are a chain (`Chained`): the first
  starts where the captured bytes end, each next one where the one before it
  ends, the last one ends where the pipe begins, and a reader that ended either
  sent an error or left an empty pipe that nobody holds. Completeness is the
  chain at the end: channel empty, readers ended.
- RunImplementsContract. Init maps to Init and each step to a step of BoundedRun
  or to a stutter; that a good result keeps all there is, and that nobody writes
  after it, comes from the invariants above.

**CandidateProofs**, for every limit, buffer and set of descendants: types,
what is left behind is reported, an exit status comes with complete logs, and
CandidateImplementsContract. TreeInv says who may still run at each place of the
caller, ResultInv when the readers have ended, LogInv that what was kept and
what is in the readers' hands is what was written until somebody saw the
overflow.

It also has the theorems about campaigns, from PlansAssumption, for any plans,
files and edits: CampaignInventoryIsTrue, CampaignCacheIsTrue and
CampaignPoolOutlivesRuns. UnitsInv, which the run `capture` checked before it
was proved, has four parts beside types and CacheIsTrue itself.

- RunInv: an observation is under way only in the phase of its request, the pool
  is released only when none is, and behind the phases all are done. This is
  what makes the theorem about the pool true, and what lets the final checks
  speak of observations that nobody writes any more.
- ObsInv: what an observation has recorded so far, and that it is the cache's
  exactly when its request uses the cache. An entry is therefore stored under
  the tools, the fonts and the source it was made with, as Store compares them
  with the key.
- GateInv: the two observations of the gate are never the cache's, and run
  together from the barrier on.
- CheckInv: what was compared stays compared. The manifests may change behind the
  campaign's back, but only to later versions; that Approve finds the one which
  Trust saw means that what Validate compared is still what they list.

**DeckProofs**, from DeckAssumption, for decks of any size.

- TypeCorrect, which includes that every lookup is in range. It needs PlaceInv
  (the parser never has more slides than references behind it, so a place is a
  possible number of a part) and FreshInv (the renderer starts untouched).
- IdsAreUnique. NumberInv: every number handed out is below the counter.
- SourcesAreUnique. StoreInv: within the inventory no two entries are equal,
  because a part is read once and `seen` counts the objects of an id within it;
  IdentityInv: every identity shown was looked up under its key below its
  occurrence. Two facts about counting kept in different phases make it true
  even where slides look up the inventory of another part.
- ShapesInOrder. OrderInv: the elements are exactly the visible shapes before
  the place the renderer is at.
- NotesStay. NotesInv: as long as every reference could be read, the number of a
  slide's notes is its place.
- InventoryKept, where the parser's count has to meet the renderer's.
  RegisteredInv: the entry of every object that was read is in the inventory,
  under the number of objects of its id before it. LookupInv: at a slide in its
  place, the renderer's count of a key is the number of visible objects of that
  key before it. KeptInv joins the two: the visible objects before a shape are
  among all of them, so what is looked up was registered, and if none was
  hidden the numbers are the same.
- ReportedOnce. ReportInv: as long as every slide is in its place, the set of
  placeholder diagnostics has as many members as there are elements, and each is
  that of an element; two elements differ in what they show or in their number,
  so their diagnostics do.

**HarnessProofs**, about HarnessSpec, the specification that `publish` checks.

- A behaviour of HarnessSpec is one of each of its parts, as those that a
  behaviour is not about stand still (HarnessPublishes). So what is proved of each
  publisher by itself (TreeImplementsContract, SnapshotLockExcludes, ...) yields
  PublishOkIsForGood, PublishPublishedIsWhole, PublishFailedLeavesNothing,
  PublishLockExcludes and PublishImplementsContract, for any number of publishers
  and files. OwnTree says which directory a publisher at each place has, under
  which name, and what of it may be on disk; TreeAlone that once the parent was synced no
  other tree may have the destination on disk; OneDestination and OneTarget that no
  two have the destination. OwnFile and Durable say the same of single files. A
  withdrawn tree is why OwnTree speaks of what may come back: whatever may be READY
  at the destination after a power failure is whole and synced, unless it
  is being, or was, withdrawn. The exceptions of the properties (section 2) are those of
  the theorems.
- HarnessPicturesAreTrue, for any number of units. PictureInv says for each step
  of the capture which units have records and what these are, what is hidden at
  this moment (all units but the active one), and what an element with the id of
  a unit changes in this: a capture that it reaches fails when the unit is
  photographed. It is needed because a record is made of what the page shows,
  which the property does not mention.
- HarnessOwnedOnly, for any number of moves. RemovalInv: from the second
  comparison to the removal the tombstone, which is read-only, holds exactly what
  was meant (MeantInv); the workspace is removed last, so nothing is gone before it is
  listed, and when its level goes on to remove its tombstone and returns with success
  it is gone (GoneInv); a level that succeeds leaves an empty tombstone (EmptyInv).
  Nothing is claimed of a removal that failed but that only the own was removed.

The last part of HarnessProofs but one is HarnessAsAttested, for any finite set of
sources and any number of replacements. Here the invariant has to follow some
sixty stages whose number depends on the corpus, without induction over them. Two
ideas make it possible.

- *What is left of the plan* is described by facts that hold of every rest of
  it: no stage comes after one of a higher rank (Ordered), three stages of one
  conversion are next to each other (ThreeInARow), each has the one that must
  follow it (Follows), a run begins with the hash of its source (Entering) and
  publishing comes last (PublishIsLast). That the whole plan has these facts is
  one lemma about sequences that are concatenated, and that they pass from a
  sequence to its tail is another; so each action needs them only for the stage
  it is.
- *What has been done* is what is no longer in the plan. SealInv: once Seal is
  done, the copies are those that were sealed, or no later Recheck passes (the
  change times grow). MadeInv: the artifacts of a source whose Confirm is over
  were made from version 0 of it, and of the sealed programs. WrittenInv and
  ReadyInv: what is in the manifest, and that Accept compared it. CorpusInv
  counts replacements: the listing, both revalidations and the acceptance each
  saw a version of the corpus, and versions that alternate between them take a
  replacement each; five are needed for a READY manifest with the units of
  another corpus.

The attempt to prove it corrected the model: Accept had lacked the comparison of
the units with the corpus (`multiformat_capture_manifest.py:98-142`). TLC
confirmed with four replacements that the property failed of the model then.

**ScanProofs**: ScansAreTrue, for each of the fourteen readers and any number of
changes; HarnessScanIsTrue carries it to HarnessSpec, step by step. The readers
differ in what they compare, so each claim of ScanIsTrue has a part of the
invariant of its own, on top of Base, the shape of a scan: which frames are on the
stack, what is being read, and what a record can be.

- Torn: what was read so far is one version, as long as the time of the file is
  that of the opening; so a file with two versions in it fails where the status
  is compared, where it is read twice, and where its digest is known. Digests tell
  versions apart only where contents do not come back; the theorem has the condition
  of ScanIsTrue (`Telling`, `Exact`).
- Placed: every record was at its path at a moment of the scan, for the readers
  that open by the path from the root. Those that hold descriptors have it by
  LeaveInv instead: of a directory whose status has not changed since it was
  listed, all files are recorded, left to do, or being read.
- FilesInv: for a file that is noted in the first round, and again in the last,
  with the same status, its time cannot have changed in between; so what the
  files held when the last round began lies between the two (FilesBetween), and
  all records are of that moment.
- NotesInv, ListNoted, SealedNoted, PackageInv and LastInv, for the two readers
  that survey a whole tree: a note of an entry comes with one of its directory;
  notes none of whose times has changed say what the tree is; all that was listed
  is noted; and what the tree was when the last survey began lies between the
  two surveys. If they are equal, nothing has changed in between, and what was
  read in the meantime is the tree of that moment.

The moment is never computed: it is the state in which the last round begins,
which `moments` has, and all parts of the invariant speak of it by what is
noted. Grows carries them across the changes of others: times only grow, and
where the time of a directory stays its entries do.

The proof corrected the model: names to be taken were a sequence sorted by a
partial order, of which nothing can be said. They are now a set, of which the
first in order is taken, as in the code.

**EvidenceProofs**, for any tables of the kind `Covered` describes, which the
four chains are, and any number of versions and edits: EvidenceTypes,
EvidenceOneVersion and EvidenceNothingStale. HolderBound: where a tool compared
what another document records of a kind with the file of that kind which it was
given, and its own document records both, the other one still says so. PairBound:
two documents that it compared with the same file say the same of it. With these it
is a matter of the tables that every pair of documents below the gate is compared by somebody: the
gate itself, or a tool in between. The pairs that only a tool compares are the
interesting ones: the revision and programs of the candidate lock were compared
when the lock was made (PortableLock), those of an Office batch when its receipt
was signed. The digests of the routing table that a lock and a receipt hold, and
those of the exports that a batch, a receipt and a capture hold, are compared by
the gate itself.

EvidenceNothingLost is the converse, and needs other facts: that the tool of the
last document compared all that the gate compares below it, and that everything
the gate reads is recorded there (Rooted; all four chains have such a root). Made is
the invariant: each version of each document was made with arguments that agree,
and still do, as no document ever changes. A call of the gate starts at the root and
follows digests, so each of its documents is the one that the tool had
(CurrentIsAccepted); what the gate reads as it is now is compared with documents
that are current by assumption. That the digests were followed to the end is a
recursive function, treated as the one of the next section.

**EnhancerProofs**, from EnhancerAssumption, for any number of elements and slots.

- CallsAreBounded: at most `max_concurrent` calls of the provider are under way,
  and while a slot is free and a task waits, one that waits has been woken
  (NobodyIsForgotten). The second half is what a semaphore loses first: a task
  that was given a slot and is cancelled before it runs has to pass it on; after a
  cancellation of the whole call it does not matter. It is inductive only with QueueInv (the queue holds each task that waits once and
  nobody else) and SlotInv (free, given and held slots are `max_concurrent`).
- That no call outlives the gathering, unless it was told to end, needs MainInv:
  behind the gathering all tasks are over or the call was cancelled, and then no task
  is in a call that has not been told.

- DocumentIsPatched, for any finite set of placeholder ids: a document that is
  returned has the placeholders of failed elements, and of nobody, in their
  order, whatever the fragments carry; and with fragments that have a body and no
  id, every other placeholder has the last fragment of its elements, in place.
  The first half holds of one replacement, as what it takes out is the node of an
  element that did not fail and what is nested in it, and only fragments nest
  (SpliceStays, Replaced); the places of what is left compose from one document
  to the next (StayLonger). For the second half ShowsAt says what a node is when
  the replacements have come to an element: its own fragment's if the first
  element of its id has been reached.

The replacements are a recursive function. That there is one with these equations
(ChainExists), and what holds of all its values, is shown without induction: a
set of naturals that is not empty has a least member (LeastNatural, from
WellFoundedInduction), so a statement that failed at some number would fail at a
least one, whose predecessor satisfies it.

**PresentationProofs** carries all three to the two enhancers that `presentation`
runs, one with slots and one with documents: SlotsStay, ProviderStays and
PatchedThere, about MCSpec.

Checked with TLC only:

- liveness (KillReturns, ReturnsUnlessHeld, RunReturns, CampaignsEnd,
  EndsOfSlots), which the prover does not reach;
- ValuesGoHome, NoValueLost and PiecesOnce: what the tables of SlideParser do
  with every document is an induction over documents, whose hypothesis would
  restate the seventy flags.

## 7. Where code and documents disagree

1. `deck_previews`: SUPPORTED_FEATURES.md:250-251 promises the preview the
   package provides. The inventory is kept by part, but looked up under
   `ppt/slides/slide{place}.xml` (`renderer/embedded_fallback.rs:31-36`): a deck
   whose slides are not numbered in their order loses previews or shows those of
   another slide.
2. `deck_notes`: the test at
   `crates/pptx2html-core/tests/notes_comments_test.rs:398` has notes follow the
   selection of slides. A slide that cannot be read shifts the places of the
   later ones, not their numbers (`parser/mod.rs:312,325`), so notes go missing.
   Slide links use the same numbers.
3. `process_deadline`: the design document
   (`docs/superpowers/specs/2026-08-20-universal-document-engine-design.md:303`)
   gives each stage a deadline. After the child has exited the readers are
   joined without one (`process.rs:97-98`).
4. `snapshot_interrupt`: `publish_snapshot` publishes "a complete directory tree
   without a readiness marker" (`evaluate/multiformat_snapshot_publish.py:57`).
   An interruption between the rename and line 118 makes the clean-up empty the
   published directory.
5. `golden`: `docs/architecture/PPTX_COMPLETENESS_CONTRACT.md:61` has decks,
   metadata and pictures of exact-promotion evidence cross-link exactly. The
   gate (`evaluate/powerpoint_evidence.py:101-141`) counts decks, slides and
   fields, and compares no digest: a deck or picture that changed since is
   accepted.

Not made into runs, as nothing that the model follows decides them:

- `evaluate/README.md:556-558` and `docs/UNIVERSAL_DOCUMENTS.md:257` say that
  the clean runs of a candidate are byte-identical at READY; determinism.py
  (61-88) tolerates differences in some formats, and the gate
  (`multiformat_report.py:120`, `multiformat_checks.py:62`) demands identity
  later.
- `evaluate/README.md:542-556` says of the programs of a candidate that
  mutate-execute-restore cannot pass. soffice and Chromium run from where they
  are installed (`multiformat_candidate_capture.py:39-47`) and are not looked at
  again, which is why AsAttested speaks of the copies only.

## 8. What is left out

- *Deck*: markup, cascade, charts, tables, media, timing, comments (they go the
  way of notes), links; the zip container.
- *SlideParser*: values of attributes; the other parsers. Documents that the
  parser is known to misplace are barred by `Limits` of MCSlideParser, each with
  its reason: a colour in `rPr/effectLst/glow` becomes that of the text, one in
  `spPr/sp3d/extrusionClr` the fill of the shape, the last of several gradient
  stops wins, `rPr/ln` overwrites the colour of a run, the shadow of defRPr becomes the
  default colour, `ln/pattFill` and `lnL/pattFill` become fills, bullets of the
  slide's lstStyle and fills of grpSpPr are dropped, as are self-closing `a:p`
  and `a:tc`, and a picture inside an oleObj replaces the frame.
- *NativeProcess*: descendants that leave the process group, reuse of process
  numbers, the contents of logs, writes to a stream whose reader has ended (they
  fail and add nothing).
- *CandidateProcess*: reuse of descriptor numbers (`_interrupt_pipe`), the
  contents of logs, time.
- *NativeUnits*: fields of the inventory, the records of gate and preflight.
  Copying the fonts is one step; they are hashed before they are copied
  (`prepare_font_environment`).
- *Enhancer*: prompts, providers' protocols, conversion rules; of HTML only the
  nodes that have an id; `max_concurrent = 0`, for which the call never ends and
  which the model's assumption excludes.
- *AtomicPublish, FilePublish*: file systems that cannot sync a directory, which
  the code treats as if they had. FilePublish knows a pending
  file by its name, as the rename does.
- *SnapshotPublish*: names replaced by a third party during the call, against
  which the code compares inodes; durability, which it does not promise.
- *CandidateCapture*: edits of output artifacts; access outside the sandbox; a
  font directory (`.candidate-font-runtime`) that two captures would share; the
  limits of determinism. The security executions name the corpus as it is when
  they run. A last Recheck may fail after the manifest is READY. The digest of
  the corpus is not hashed again when the manifest is accepted, so that after
  five well-timed replacements its units may be those of another corpus, which
  the gate of the evidence would refuse.
- *UnitCapture*: geometry, rounding and pixels; references that the page's
  policy blocks, which never reach the callbacks.
- *StableScan*: hard and symbolic links, limits of sizes and counts, a root that
  is replaced, copying of fonts. It assumes that two changes of a file differ in
  its times, unless `shows` is FALSE, and that different contents have different
  digests. Readers give different promises, as
  ScanIsTrue says: "inventory" and "fonts" do not guarantee that the file of a
  subdirectory was at its path, only "package" and "sealed" record one moment of
  the whole tree.
- *OwnedRemoval*: several files and deeper directories; a swap in a tombstone
  between its last fchmod and unlinkat, and one that moves a tombstone itself (its
  name is random, its mode 0700); reuse of inode numbers.
- *Evidence* and its tables: cryptography, schemas, computation of metrics,
  failures inside a tool; one document format. Under the Office profile people
  fill in the lock and an external verifier attests, and the programs are copied
  into the evidence. In Corpora a manifest stands for its files, and whoever
  edits the contract also edits the digest in `ready_inputs.py`. In Golden a
  picture records nothing of its deck, and the decks are followed as one.
- Hazards that no model reaches: a destination of a dead publisher without
  READY keeps everybody out; the output limit of a stage against that of a
  conversion (`office.rs:62`); provenance beside value
  (`resolver/inheritance.rs:131`); `_REQUIRED_COUNTS` of
  `multiformat_corpus_identity.py` against the count of files in the design
  document.
- Components with status `not_modelled` in PROJECT.json, each with its reason:
  pure functions over data that is complete (styles, rendering, detection,
  spreadsheets, metrics, package writers and byte parsers), generators of test
  data (`create_golden_set.py`, decks, QA scripts), thin wrappers. They are two
  thirds of the lines, and a model of them would restate them.

## 9. Plan

Done: the process runners with BoundedRun, the publishers with CreateOnly, the
presentation (Deck, SlideParser, Enhancer), the captures (NativeUnits,
CandidateCapture, UnitCapture), readers and removal, the chains of evidence.

Left, in order of importance:

1. The makers of exclusive files (O_EXCL: keys, receipts, command plans, portable
   locks), trusted runs of installed programs, and the checks of receipts.
2. NativeConversion: the stages of `office.rs`, `pdfinfo.rs` and `poppler.rs`
   over one workspace, each stage one BoundedRun; the output limit of a stage
   against that of a conversion, clean-up on every path, what a validation
   between stages guarantees to the next.
3. Cascade: value and provenance of a style, as two functions over the same
   layers that must agree; checked against a reference definition over all small
   hierarchies.
4. The counters of automatic bullets (`renderer/bullets.rs`), and the order of
   the OMML rules in the enhancer, as pure functions over bounded inputs.

Runs are kept to one per question: a new module joins the run whose parts it
resembles, as the parts of MCHarness did.
