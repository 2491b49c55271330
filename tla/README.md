# ROM Patcher for Android: a TLA+ verification development

ROM Patcher is an Android app: the user picks a game ROM and a patch, ticks a few
options and presses *Patch*. Java code (`src/src/com/xperia64/rompatcher/`) decides
which patcher to call, manages the backup, temporary and output files and reports
the result; one native library per patch format (`src/jni/*patcher/`) rewrites the
bytes; two formats (APS for GBA, NMP for Nintendo DS) are patched in Java. `MA`
below is `MainActivity.java`.

## 1. Inventory

| Component | State | Operations | Talks to |
|---|---|---|---|
| Patch run (`MA.patchCheck`, worker of `MA.patch`) | files of the ROM's directory (ROM, `.bak`, `.new`, output), name field, check boxes *Backup ROM* `c`, *Rename* `d`, *keep extension* `e`, *ignore checksums* `r` | Patch button, overwrite dialog, backup copy, native call, swap, renames | native patchers through JNI: a path in, an `int` out |
| Result hand-off (`MA.patch`, `Globals.msg`) | `Globals.msg`, the progress dialog, the UI thread's queue, the `purchaseNag` preference | worker sets the message, watcher polls, dismisses, posts a toast, counts | shared static field, `runOnUiThread` |
| DS edit lock (`FileWithLock`) | `editedBy`, `editedIntervals`, hooks `startEdition`/`endEdition` | `beginEdit`, `endEdit`, the interval pair, and the writers that check the lock | called by `PhysicalFile`, `RealPatch` |
| DS file system (`RealPatch`, `PhysicalFile`, `PhysicalFilesystem`, `NitroROMFilesystem`, `HeaderFile`) | begin and size of each file in memory; data, FAT, used size and CRC on the ROM | per NMP record: find room, write, save offsets, update header | the ROM file, in place |
| Native formats (UPS, BPS, IPS, IPS32, PPF, DPS, APS N64, bsdiff, xdelta 1/3, XPC, DLDI, ECM, xkas, asar) | input, output and patch files, cursors | one `apply` each | called by the worker |
| File browser (`FileBrowserActivity`) | current directory, parent to go back to, list of entries | `getDir`, click, back key | `Globals.fileToPatch`, `Globals.patchToApply` |
| NSMB Editor code (`ROM`, `Overlay`, `ROMUserInfo`, NARC, streams) | overlay tables, region | read by `ROM.load` | NMP branch |
| glib, libedsio, liblzma, bzip2, nall | third-party | | |

What is hard here:

* **Crash and partial failure.** Nothing is transactional. The swap of `.new` and
  the ROM is two renames; an NMP patch rewrites the ROM by separate writes; a
  native `exit(1)` or Android's low-memory killer may come between any two.
* **Files left by earlier runs.** `patchCheck` decides by one long condition
  whether the user is asked before files are overwritten.
* **Two threads and a queue per press of Patch**, and all runs share the one
  static `Globals.msg`.
* **Allocation.** `findFreeSpace` places grown files between others, with empty
  files, touching files and an inconsistent comparator.
* **Streams read out of step.** UPS leaves terminators unread and skips blocks;
  PPF has loops that end on an exact count, DPS one that ends on `feof`; short reads
  leave a buffer as the read before left it.
* **State that outlives a call.** The natives stay loaded: ECM's error code, PPF's
  validation block and n64aps's `optind` are what earlier calls left.
* **Buffered output.** Two patchers never close the stream they write to.

`PROJECT.json` lists these as hazards at their lines.

## 2. Modules

| Module | Models | Properties |
|---|---|---|
| `PatchRun` (`MCPatchRun`, `PatchRunProofs`) | one press of Patch at file level | TypeOK, OriginalSurvives, OnlyAskedOverwrites, SuccessLayout, PatchedNeverLosesBoth; refuted texts BackupKept, RenamedToTyped, DialogSparesRom, ErrorAllowsRetry |
| `PatchReport` | abstract: what the user is promised about a press | |
| `PatchMsg` (`MCPatchMsg`, `PatchMsgProofs`) | the threads and `Globals.msg`, shown to implement `PatchReport` | TypeOK, OwnMessage, DialogCoversWork, DialogHasDismisser, EveryRunReported, Reported; refuted DialogEventuallyGone |
| `FileWithLock` (`MCFileWithLock`, `FileWithLockProofs`) | the edit lock and the writers it guards | TypeOK, LockInvariants, OpenCanClose, EditionsBracketed, WritesRespectIntervals |
| `DsFs` (`MCDsFs`, `DsFsProofs`) | an NMP patch changing a DS ROM in place | TypeOK, NoOverlap, PlaceIsFree, OthersIntact, RomConsistent |
| `FileOps` | a file as the sequence of its bytes: `Slice`, `Put`, `Fill` | |
| `PatchIO` | one call of a patcher: its job, files, position in the patch, locals, result | |
| `Ips` | `ips.c` of IPS and IPS32 | IpsExact, IpsCutFails |
| `Ppf` | PPF 1, 2 and 3 | PpfOwnPass; refuted text PpfSuccessOnDisk |
| `Dps` | `dpspatcher.c` | DpsExact |
| `ApsGba` | `APSGBAPatcher.java` | ApsGbaKnownChunks, ApsGbaLastChunk |
| `ApsN64` | `n64aps.c` | N64Exact |
| `Bps` | `bpspatch` and its JNI wrapper | BpsExact, BpsChecked |
| `Bsdiff` | `bspatch.c` and its JNI wrapper | BsExact, BsFits |
| `Xpc` | `xpcapply.c` | through LaidOver |
| `Ups` | `UPS::apply` | BothWays, SuccessMatches, SizeKept |
| `Ecm` | `ecm.c`, run as `unecm` | EcmExact |
| `Dldi` | `dlditool.c` | DldiRelocated |
| `RecordPatch` | abstract: what a patch made of records promises | |
| `Formats` (`MCFormats`) | a call of any of the twelve patchers | TypeOK, LaidOver, Returns |
| `FormatProofs` | lemmas: checksums and offsets of UPS, checksums of BPS, bounds of bsdiff | |
| `RebuildProofs` | lemmas: BPS and bsdiff give the file a patch was made for, UPS goes both ways | |
| `RecordProofs` | lemmas: what the steps of DPS, IPS, APS (N64), APS (GBA) and PPF keep | |
| `CallProofs` | lemmas about XPC, ECM and DLDI, the types of all formats, and every theorem about `Formats`: the invariants and the refinement of `RecordPatch` | |

A definition whose comment or line says *mutant* is a plausible wrong version of
the definition that follows it. It is not part of the specification; substituted
for that definition it must break a property.

### PatchRun

`fs` maps names to contents. A name is a directory and a text with the extension
appended some number of times, so that the extension appended to the text field
itself (MA:522, MA:537), the empty name (which denotes the directory) and the path the
ECM branch builds without a `/` (MA:913) are what they are in the code. A content
is a number: the original, a foreign file, or the good or bad output of run *n*.
`Apply` is `patchCheck`; `Confirm` and `Cancel` are the dialog's buttons; then one
action per file operation of the worker. Types are handled in six ways: natives that
write `.new` (`PatchNew`, `Swap1`, `Swap2`), types whose backup Java copies
(`Copy`, `PatchInPlace`), IPS whose library makes the backup by itself, NMP with
renames of its own, ECM, and the shared tail. A native call succeeds, fails with
any partial output, or dies with the process (`Killed`, enabled in every step).
The native code's *ignore checksums* flag only selects among these outcomes. Success
means the good output here; that a patcher may report one over something else (a damaged
patch under *ignore checksums*, BPS after an ignored failure to open) is in the modules
of the formats, not in `PatchRun`.

### PatchReport and PatchMsg

`Apply` starts a worker and a watcher. `Dismiss` and `Post` append to the UI queue,
because `Dialog.dismiss` off the UI thread posts the dismissal. `RunPosted` is the
UI thread taking the oldest entry. Messages are the numbers of the runs that set
them. `SetEarly`/`SetAgain` are the NMP branch, which sets `Globals.msg` when its
exception is caught (MA:787) or the app is not the donation build (MA:798) and again at the end.
`GapTaps` says whether the user can press Patch after a run's dialog went and
before its toast is shown; the two are separate messages on the UI queue, so a touch event can be
handled between them.

`Phase` maps a run to `PatchReport`: working, done, freed (dialog gone), told.

### FileWithLock

`editedIntervals` is a bag of intervals, since the list may hold an empty interval
twice. A call that throws is no step. `replace` and `replaceInterval` are the
writers in `PhysicalFile` with the checks they make; `written` and `unlocked` are
history variables. `isAGoodEditor` is a bare `editor == editedBy`: while nobody edits
the whole file, `replace(data, null)` passes it although intervals are open, overwrites
them and may shrink the file below them, after which they cannot be closed. The model
does the same, for every length, and records the intervals it happened to in
`unlocked`; OpenCanClose and WritesRespectIntervals state that nothing else does it. An
interval has no owner in the code: whoever names its range may write or close it, so
neither property says *who* writes. `beginEdit(null)` is left out: the code accepts it,
but every caller passes `this`, the file system or a new object
(`MainActivity.java:782`).

### DsFs

A byte of the ROM is the file and version last written there. `Replace` is the
placement part of `PhysicalFile.replace`, followed by one action for each byte,
for the FAT's begin word, its end word, the used size and the CRC. `Before` is the
comparator; files it cannot order may come in either order and `SortThrows` is the
exception TimSort may raise for them. Any disjoint layout is an initial state:
`load` and the fnt are not parsed. A run that stops (`Stop`, or simply taking no
further step) stands for the end of the patch, an exception or a killed process:
the invariants hold after every write.

### PatchIO and the formats

A behaviour of `Formats` is one call of one patcher: `job` holds what the caller gave
it (ROM, patch, *ignore checksums*, state left by earlier calls) and, for the properties, what the
maker of the patch had (`want`), `out` is the output as the patcher's stream sees
it, `disk` as a later reader of the file finds it, `at` the position in the patch,
`loc` the call's locals, `ret` the result. A file operation that can fail, does:
`open` and `malloc` give their error results in every call. `Crash` is the result of a call that
ends the process. The formats are separate modules with an `...Init` and a `...Next`
each and share no action but `Done`.

* A **checksum** (CRC, EDC) is the content it was computed from, so there are no
  collisions. In UPS its bytes also stay in the stream: the apply loop reads into them.
* **Patches** of IPS, PPF, DPS, APS (N64), UPS and DLDI are byte streams, read field by
  field. Those of BPS, bsdiff, XPC, ECM and APS (GBA) are the lists their
  decoders yield; the bzip2 streams of bsdiff are what they decompress to.
* **How a patch was made.** A job with an intact patch also records, for the properties,
  how its maker went along: where each record or command starts in the patch (`pos`,
  `marks`) and what the file is after each of them (`layers`); for UPS the `blocks` where
  the two files differ, for DLDI the places of the driver's addresses (`ptrs`). The predicates `IpsMade`, `DpsMade`,
  `N64Made`, `GbaMade`, `PpfMade`, `BpsMade`, `BsMade`, `UpsMade`, `EcmMade` and `DldiMade` say what makes
  these right, one record at a time; no action reads them.
* **Short reads and uninitialised locals** are nondeterministic, or leave the buffer as
  it was where the code reuses one.
* `Ips`: one action per record; a record cut short writes made-up bytes, and the loop
  ends with an error. The backup and the early exits of `IPSOpen` are in `PatchRun`.
* `Ppf`: the `switch` has no `break`, so versions run one after the other, and the loop
  counts are unsigned and wrap at `Turns`. `Spills` is what an 8-byte read into a 4-byte
  `off_t` may overwrite in a 32-bit build (nothing that is used, the count, the undo flag);
  `OldBlocks` is what earlier calls may have left in the global `binblock`. `fwrite` goes to a buffer
  that reaches the disk with the next `fseeko`.
* `Dps`: `MaxJunk` bounds what an unread field may hold. The buffer is as in PPF.
* `ApsGba`: the chunk buffer is zeroed from the count of patch bytes left, as in the
  code; success truncates the ROM to a size of the patch.
* `ApsN64`: the header comparisons are one field of the job; `again` is a second call in
  the same process, where `optind` no longer points at `-f`.
* `Bps`: one action per byte of a command, since a TargetCopy may read what it is
  writing. The wrapper ignores the results of `modify`, `source` and `target`
  (`bpspatcher/nativelink.cpp:34-36`), and the members of the `bpspatch` on the stack are
  unset until they succeed. A ROM that cannot be opened (`readable`) is one with no byte inside:
  each read gives any byte or kills the process, the size comparison and the source checksum go
  either way. When patch or output cannot be mapped, or the patch is too small (`Unopened`),
  the call ends with any of the results of `apply`, a success included, over any
  output of `BpsLeft`, or with the process.
* `Ecm`: segments are rebuilt sector by sector in the one static buffer; EDC and ECC
  are operators of the constants `Edc` and `Ecc`. `before` is the error code an earlier call left.
* `Dldi`: the search, the checks, the copy, and the fixing of header and sections at every byte.
  The calls are those whose headers stay within their files (`DldiSane`). `Image` is the copied
  driver with some of its addresses moved.
* `Ups`: a byte has a stop bit and `Low` values below it. Reads at the end of a file return all
  ones and do not advance (`nall/file.hpp`).

`RecordPatch` lays records over a file in order; a failure leaves a prefix of them,
the last perhaps damaged within its own place. `Formats` maps IPS, IPS32, APS (N64) and
XPC to it; calls of other formats map to a state that never moves.

A write-back that fails inside `fclose` (a full disk found late) is not modelled: no
patcher looks at its result.

## 3. Runs

| Run | Bounds | Shows |
|---|---|---|
| `patch_run` | 2 presses, 5 kinds (one per way of handling), 2 typed names, names with up to 2 extensions, leftover `.bak` and output | the five properties of PatchRun; 754k states |
| `doc_backup`, `doc_rename_nmp`, `doc_dialog`, `doc_retry` | 1 or 2 presses | violations, see below |
| `patch_msg` | 3 presses, no press in the gap, no early messages | safety, liveness, refinement of PatchReport |
| `patch_msg_race` | 3 presses, no press in the gap, every run an NMP patch that may set its message early | every dialog has a dismissal posted or about to be, or a watcher with a message to find; 29k states |
| `doc_dialog_gone` | 2 presses, presses in the gap | violation, see below |
| `file_lock` | 2 editors and null, 3 bytes, an interval open at most twice | the lock's invariants; 210k states |
| `ds_fs` | header, fnt, three files of 0..2 bytes in every disjoint arrangement at 5..8, alignment 2, 2 replacements of any length up to the end at 11 | DsFs; 136k states |
| `formats` | bytes of two bits, fields of one or two bytes, lists of up to two or three records, commands, triples or segments, the patches cut at every byte or damaged, ROMs they fit and do not fit | all properties of the formats, LaidOver and Returns; about 490k states |
| `doc_ppf` | the PPF calls of `formats` | violation, see below |

Why the bounds suffice: a second press of Patch is what meets leftovers of the
first, and a third adds no new kind of file; two names are enough for "the ROM's
own" and "another"; a message left by one run can meet the next and the one after
with three runs; two intervals and two editors are all any condition of the lock
compares; two replacements let a file move into room another one left, with a third
file as neighbour; two-byte UPS files have blocks that start, touch and end at the end
of the output, growing and shrinking, and offsets of more than one digit; two records or
segments are enough for the second to meet the buffer, position and flags the first left, to
overlap it and to reach past the ROM; three BPS commands let a copy follow a copy of the same
kind and one of another, with offsets back and forth; APS chunks need a third so that one lies
between a first and the last; a DLDI driver of 64 bytes holds a full header and one word
for each kind of section, of which three overlap.

Deadlock checking is off in one run: `ds_fs` ends when its patch ends.

### What the violation runs show

* `doc_backup` (MA:706): the backup copy fails, the exception is printed, and the ROM is
  patched in place and reported successful although *Backup ROM* was ticked.
* `doc_rename_nmp` (MA:898): the NMP branch renames the patched ROM to the typed
  name, and the shared tail then renames the original over it.
* `doc_dialog` (MA:520): *Yes* in the overwrite dialog deletes the ROM when the output
  name is the ROM's own.
* `doc_retry` (MA:881): after a failed native patch the swap still happens and, without
  *Backup ROM*, the original is deleted: the retry the app suggests has no ROM.
* `doc_ppf` (`ppfpatcher/nativelink.cpp:412`): nobody closes the stream to the ROM. "Patching
  successful." (`strings.xml:22`) is shown while the last record is in its buffer only.
* `doc_dialog_gone` (MA:943): Patch pressed between a dismissal and its toast; the toast
  clears the second run's message and its dialog stays.

Seen while modelling, without a run because no text of the repository says
otherwise: the ECM output path lacks a slash (MA:913); an empty output name
makes the final rename fail silently (MA:898); a file without the NMP header
returns normally and is reported as patched (`RealPatch.java:49`); the ECM error code is never reset
(`ecm.c:1159`); `ROM.readUint` shifts the mask, not the byte
(`ROM.java:148`); a UPS patch without blocks is smaller than the size `apply` accepts
(`libups.cpp:71`). In the formats: a PPF1 or PPF2 patch is read again as the next version
and its -1 or -2 is discarded; an empty `file_id.diz` in a PPF patch is not recognised; the last chunk of an APS (GBA)
patch is zeroed before its CRC is taken, so the patch ends with -4 unless the chunk is all zeros
in one of the files, a chunk behind the ROM's end is compared with bytes of the chunk before, and
success truncates to the original's size; n64aps forgets `-f` in a second call; DPS output is
complete only because its loop turns once more at the end of the file; an IPS record at the offset that
reads as the end mark ends the patch; the BPS wrapper ignores failed opens, after which `apply` works on an unset pointer and
may report a success over any output when the patch or the output is what did not open; DLDI ignores the
result of `fwrite` and, when a driver is linked where the application has it, may move
an address twice. In the file browser, a root directory that cannot be listed makes `getDir`
call itself for ever (`FileBrowserActivity.java:178`).

### Fairness

`PatchMsg` assumes weak fairness of each worker (a patcher returns), each watcher
and the UI queue: Android schedules every runnable thread and the UI looper
handles every message. The app gives no timeout, so a patcher that never returns
is outside these liveness properties. `Formats` assumes weak fairness of the
call's own step: it is a sequential program. `Returns` holds for every patch file of eleven
formats; for PPF it is stated only for an intact PPF3 patch made for this ROM in a build where the 8-byte
read does no harm, since other loops may run for the full range of their counts. A BPS call on unset members
(`Unopened`) counts as returning: its cursor only grows, so it reaches an end or an unmapped page.
The other modules have no liveness properties.

## 4. Proofs

`PatchRunProofs`: for every set of kinds, typed names and bounds. "Some file holds the
original" is not inductive: the next rename may overwrite it. `OriginalIInv` says
*where* it is at each step (`WhereOriginal`): under the ROM's name until a backup
exists, under `.bak` while the ROM is rewritten, and that `.bak` is free when the
worker starts. The other three properties are proved along the same lines:
`OverwritesOnlyWhenAsked` from `AskedIInv` (when nobody was asked, every name the rest of
the run writes was free when Patch was pressed), `NeverLosesBoth` from `MadeIInv`
(between two renames either the `.new` file or the ROM's name has the output) and `SuccessLeavesLayout`
from `LayoutIInv` (which names hold what before each of the remaining operations of a run
that may still report success). The step lemmas go through the actions one by one;
`RenameEffect` and `RenameFrame` say what a rename does to the names involved and to
others.

`PatchMsgProofs`: for every number of presses. `TypeCorrect` holds in every interleaving.
`DialogsHaveDismissers` assumes `GapTaps = FALSE` and nothing of `Early`: the worker of an NMP run may still be
at work, and set its message once more, while the next run polls. A polling watcher counts only with a message
to find, which only a toast can take away; so `Attended` says that while a watcher polls the queue is empty and no
other run is on its way to a toast. With presses in the gap this is false, and `doc_dialog_gone` ends in the
state that violates it. `OwnMessageShown`, `DialogAlwaysCoversWork` and `ImplementsReport` assume `Early = {}` and `GapTaps =
FALSE`: with early messages or presses in the gap, runs overlap and the statements are false
(`doc_dialog_gone` is such a behaviour). Without them `Serial` is inductive: at most one run is
under way, it is in one of four stages (working, finished, leaving, telling) that fix its two
threads, its dialog, the message and the queue, and all others are unused or over.
`ImplementsReport` maps each stage to a phase of `PatchReport`; of
the abstract specification it states the safety part, `Report!Safety`.

`FileWithLockProofs`: the invariants in the class comment for every set of editors
and size. `LockIInv` is their conjunction with OpenCanClose and EditionsBracketed;
it is inductive because a resize by an editor needs `editedBy` and intervals exclude it,
and a resize in the name of null puts every open interval into `unlocked`.
`WritesAlwaysRespectIntervals` is an action property from the same invariant;
`TypeCorrect` says that no sequence of calls drives a count below zero.

`DsFsProofs`: for every disjoint layout, alignment, size and number of records,
files never overlap, a moved file's place is free, aligned and behind the fnt, all other
files stay intact after each write, and FAT and header are consistent
between records. `FreeSpace` is the core: in the comparator's order
consecutive files bound free room, and behind a last file nothing begins or ends (`SortedEnds`).
`RomIInv` adds what holds in the middle of a replacement: the chosen place is apart
from every file but the old self of the one being replaced (`PlaceInv`), which FAT word
is behind (`FatInv`), which bytes each file has (`DataInv`) and how much of the new version is written
(`WrittenInv`). `HeaderInv` does the same for used size and CRC.

The theorems about the formats are all in `CallProofs` and all about `Formats`' `Spec`, a call of any
of the twelve. `CallIInv` says that the invariant of the call's own format holds; since no step changes the job
(`JobKept`), it is enough that each format's steps keep its own. The lemmas about the steps of each
format are in the modules described next. Together the theorems state every invariant the run `formats` checks.

`FormatProofs`: for every patch file, ROM and number of values of a byte, UPS and BPS
without *ignore checksums* report success only for the right result (`UpsSuccessMatches`,
`BpsSuccessIsTarget`), and bsdiff stays within the buffer it allocated (`BsAlwaysFits`).
`SuccessMatches` needs to know, between the two checks, that the CRC
compared at the end belongs to the file opposite the ROM (`Chosen`). `SizeKept` rests on the fact that `decptr`
yields a natural number for every stream (`OffsetIs`). That is an induction over the digits, which the library's
theorems cannot give with the provers at hand; it is done over sets instead: `Least` (a set of
naturals has a least element) from the well-foundedness of <, `UpTo` (induction up to a bound) from `Least`,
and `LoopRuns`, that a recursive function over 0..m exists, from `UpTo`. `BpsChecked` is about two
things the code keeps apart, the mapped output and the running checksum over the bytes written:
`Tracks` says that the output has the target's size, that `outputOffset` counts the
bytes in the checksum, and that the two agree as far as the output reaches. `BsFits` is
inductive with the types of the locals.

`RebuildProofs`: `BsAlwaysExact`, `BpsAlwaysExact` and `UpsAlwaysBothWays`, for intact patches of any length.
For the first two the
invariant is that the output is a prefix of the wanted file and that the cursors are where the
maker's were at the start of the current triple or command (`BsPrefix`, `BpsBetween`), and within a BPS
command as many bytes further as it has written. A TargetCopy may read bytes it
wrote itself; that they are there is part of the invariant. UPS writes into a copy of the ROM, so `Mixed`
says that the output is the other file below `relative` and still the ROM from there on. `UpsPlace` has two cases at
the head of the loop: the position is that of a block's mark, or `relative` is past the end of the output, which is then
complete (`Past`). In the second the loop may read the rest of the stream, a terminator left behind and the
checksums included, as any blocks whatever: an offset is never negative, so none leads back into the output.
That a patch works in both directions rests on XOR being its own inverse (`XorBack`).

`RecordProofs`: for every list of records and every ROM, IPS and IPS32 lay
exactly the records of an intact patch over the ROM and never report a cut one as applied,
DPS and APS (N64) give the file their patch describes, PPF has laid its records when the loop of its version
ends, APS (GBA) changes chunks only to
ones its patch knows, and its last chunk decides as described in section 3. Between two records the position
in the patch is that of a record and the file is the maker's layer (`IpsReady`, `N64Ready`,
`DpsReady`, `PpfReady`); IPS needs two more states, a record whose head is read
(`IpsRead`) and, in a cut patch, one laid with made-up bytes, after which the position is the end of
the file and the loop can only fail (`IpsSpoilt`). PPF's loops end on a count of bytes that is
unsigned: the invariant is that it is the distance to the end of the records, which no record of an
intact patch steps over (`PpfHolds`, `PpfEnd`). APS (GBA) needs to know what is in the buffer
and that every chunk but the last is already the other file's (`GbaHalf`). `LaysRecords` is the refinement of `RecordPatch`
itself, step by step: a record is one abstract step, the copy in XPC and the resize in APS
(N64) are stutters, and a failed IPS or XPC record is the abstract damage to its own place.

`DldiAlwaysRelocated`: the code searches three sections byte by byte for words that lie within the
driver, in memory it has already changed. The invariant is that this memory is `Image(M)` for the set M of the
places fixed so far, and that M has all of the header and every address of the sections up to
the cursor. What is assumed of an intact driver (`DldiMade`) is what the code cannot know:
that however many of its addresses are moved, what reads as one of its addresses is one that is left.
From that, each search moves an address exactly if it was not moved before (`ImageMoves`: moving one at p takes
the image of M to that of M and p), so at the end all are moved once (`DldiSearch`, `DldiRebuilds`).

`EcmAlwaysExact` is about one static buffer that every sector finds as the one before left it.
`EcmSectorIs` says that this does not matter: for any content of the buffer and each of the three
types, what `reconstruct_sector` leaves and `unecmify` writes is `SectorOf`, the sector as a CD has it, of what was
stored. It is shown field by field (`Holds`: these bytes lie at this place; a write
elsewhere keeps them, neighbours join), so it also shows that the fields do not overlap and that
EDC and ECC are taken over fields that are already in place. The rest is an invariant as for bsdiff: so many segments, bytes
of a literal or sectors of a segment are written and are a prefix of the image (`EcmReady`). Of `Edc` and
`Ecc` only the length of their results is assumed (`EcmSums`).

`TypesAlwaysHeld`: output and disk are files of bytes and position, locals and result keep their types in a
call of every format, for any patch file (`CallType`). Some formats need more than the types: that
a position never passes the end of the patch, or that a buffer keeps its length.

Assumptions are the named ASSUMEs of the modules: bounds are naturals, names of
files and editors are distinct, layouts are disjoint, jobs have the fields their
format reads, and a job whose patch counts as intact was made as its `...Made` predicate
says. TLC evaluates them in the runs, on every job.

Only model-checked: liveness (EveryRunReported, DialogEventuallyGone, Returns) and with it the
liveness part of Reported, since the provers have neither fairness nor ENABLED; and the violations of
section 3, which are single behaviours. Every invariant and every action property that a passing run
checks is also a theorem. That the operators which build the jobs in `MCFormats` (encoders,
written with recursion) yield what the `...Made` predicates ask is evaluated by TLC for the jobs of the run, not proved.

## 5. Not modelled

`PROJECT.json` gives the reason for each component. In short: the main screen and its
error texts; the file browser, whose state is a directory and its parent and whose results
`PatchRun` chooses freely; the assemblers xkas and asar, xdelta 1 and 3, glib, liblzma, bzip2
and libedsio, all third-party and by far most of the lines of the repository: their calls appear as the
outcomes of `PatchNew` and `PatchInPlace`; the NINJA patchers, which are empty classes; NSMB
Editor code that a patch run does not reach (NARC, `moveAllFiles`, level data); parsing of
the fnt and overlay tables; encoders and creators of patches, which the app does not call;
the 64-bit wrap of UPS offsets and files beyond 2 GB.

## 6. Plan

1. A composition of `PatchRun`'s NMP branch with `DsFs`: the backup copy and the writes into
   the ROM in one behaviour.
2. The file browser's navigation (back always leads to a readable directory or leaves).
3. PPF patches of the 32-bit builds, whose 8-byte offset is read into four bytes: what a call may still promise
   when `Spills` is not harmless.
