# Parthenope (ub2lb) in TLA+

Parthenope is a second level bootloader for AmigaOne machines.  U-Boot loads it
from the boot blocks of the disk; it looks for menu files on the booting device
or on every partition it knows, shows a menu, loads the kernel and the modules
of the entry chosen and starts them.  `parthenope-install` writes it to the boot
blocks.  This directory holds a formal model of the program: TLA+ modules, TLC
configurations that check them on small instances, and theorems checked by TLAPS
that hold for every value of the constants.

The program is sequential: no threads, no interrupts of its own.  What makes it
hard are long sequences of legal inputs (keys, menu files, disk layouts),
failures half way, state that outlives its purpose (U-Boot's one current ext2
partition, the static window of the menu, a device handle), and an installer that
may be killed between two writes.  The repository has no tests and its README,
NEWS and ChangeLog are empty; what it says of itself are its comments, its
messages and the comments on its structures.

## 1. Inventory

Paths are relative to the repository (`src/src/...` is its directory `src`,
`src/tools/...` its directory `tools`).

| Component (source) | State | Operations | Interacts with | What is hard, what makes it correct |
|---|---|---|---|---|
| Menu on screen and serial line (`menu.c` 664-795) | `selected`, `delay`, the static window `first`/`last`, the entry last highlighted | `menu_display`, `display`, `menu_display_serial` | `bootstrap()` calls it with the list; U-Boot's `tstc`, `getc`, `video_get_key`, `getenv` | one row of scrolling per call against jumps of the selection; a countdown against a key; walking past the list.  Correct: it answers the entry the user sees selected |
| Menu readers (`menu.c` 48-312, 314-575) | buffer offset, state, entry under construction, list | `fsm` (menu.lst), `kick_fsm` (Kicklayout) | called by `dev_load`, appends to the list, sets header fields | pushed back lines, rejected entries, end of file inside an entry, ownership of entries.  Correct: the list is the bootable blocks of the file |
| Menu loading (`menu.c` 597-662) | list, sum of the readers' results | `dev_load`, `magic_load`, `menu_load` | partition table, drivers, readers | stamps on entries of many partitions.  Correct: every entry knows its device |
| Bootstrap and handlers (`parthenope.c`) | device handle, kernel buffer, modules | `bootstrap`, `get_booting_device`, `testboot_standalone/linux/aros/aos` | everything | early returns, handlers that fail and fall through.  Correct: the kernel comes from where the entry says, and the boot ends |
| Partition table (`rdb.c`) | `table[16]` | `RdbPartitionTable_init`, `_get`, (`_getbyname`, `_dump` unused) | U-Boot's unit scan and `block_read`; `magic_load` and `bootstrap` read it | lists in circles, bad checksums, empty slots.  Correct: slot k is the k-th partition |
| Installer (`parthenope-install.c`, `rdb.h`) | the disk | `find_rdb`, `erase_slb`, `install_slb`, `next_free_block`, `main` | the firmware reads what it wrote | killed between writes and run again, out of space, foreign blocks.  Correct: nothing else is damaged; what it reports as installed is |
| ext2 and tftp drivers (`ext2.c`, `tftp.c`) | handle; U-Boot's current ext2 partition | create, `load_file`, destroy | U-Boot's ext2 and network code | the current partition is shared by all handles |
| ISO 9660 driver (`cdrom.c`) | handle with a one-sector cache | create, `load_file`, destroy; Rock Ridge iteration, path walk | U-Boot's `block_read` | stale cache, CE chains, path elements that are missing |
| SFS driver (`sfs.c`) | handle | create, `load_file`, destroy; directory chains, B-tree, extents | U-Boot's `loadsector` | unbounded searches and chains, a checksum that is computed and compared with nothing |
| ELF loader (`elf.c`) | two bump pointers, the bss tracker, debug list | `load_elf_file`, `load_hunk`, `relocate` | `testboot_aros` | 32-bit arithmetic, unbounded tracker, failing half way |
| U-Boot wrappers (`context.c`, headers) | the context pointer | one-line calls | all | none |
| C support (`support.c`) | none | strings, memory, two list operations | all | `strtol` reads garbage as digits |
| Build files, linker script, IDE project | none | none | none | no behaviour at run time |

## 2. Modules

| Module | Models | Composes |
|---|---|---|
| `MenuCursor` | abstract menu: a cursor over a list | |
| `MenuDisplay` | the menu on both consoles | implements `MenuCursor` on the screen |
| `MenuParser` | both menu readers, `dialect` says which | |
| `Bootstrap` | boot from `bootstrap()` to a running kernel or the prompt, with menu loading | table (as `fs`), reader (as any result), menu (as any choice), drivers |
| `Rdb` | filling the partition table | |
| `BootArea` | abstract boot area: which start of the installer wrote what the firmware reads | |
| `Installer` | the installer, the disk, kills and restarts | implements `BootArea` |
| `ElfLoader` | the ELF loader with the loop over a kernel and its modules | |
| `LoadFile` | abstract device: what `load_file()` promises its caller | |
| `SfsDisk`, `CdromDisc` | a disk with the file system: its structures, and what a path on it stands for by the links alone | |
| `Sfs` | the SFS driver, one load | on the disks of `SfsDisk`, implements `LoadFile` |
| `Cdrom` | the ISO 9660 driver, any number of loads with one handle | on the discs of `CdromDisc`, implements `LoadFile` |
| `MC*` | instances for TLC | the module they are named for |
| `*Proofs` | theorems | the module they are named for |

In the models an operator called a *slip* in its comment is a plausible mistake
in the definition that follows it.  Nothing uses it; `PROJECT.json` names the
property that catches it when it takes that definition's place.

### MenuDisplay
`Display(sel)` is one call of `display()`: it moves the window by at most one
row, and `entry` is what it returns.  `VgaStart`, `Tick`, `Interrupt`,
`VgaExpire` are `menu_display()` up to `skip_delay`, one `Tick` per turn of the
polling loop; `Draw` and `ReadKey` are one turn of the key loop.  `SerialStart`,
`SerialExpire` and `SerialKey` are `menu_display_serial()`.  A key waits in `key`
until it is read, as in U-Boot.  A negative delay skips the countdown on the
screen and counts down for 2^31 polls on the serial line; the model leaves it
negative.  The abstract menu of `MenuCursor` is reached by forgetting the window,
the countdown and the key codes.

### MenuParser
One step is one turn of `while (parse)`; `status` is the C variable of that name
(directive states are named for their word).  A text is a sequence of lines; a
line is its first word, its argument, whether more follows and whether anything
was stripped from it.  `PushBack` is `offset -= strlen(line) + 1` with the
stripped line: a cut line is read again from behind its beginning.  The next read
of such a chopped line is taken to be no head line, so the model assumes that
what is left of a title never spells a directive of its own.  What follows an
unterminated last line is heap content; texts with any last line stand for it.  `at`, the line of the title, stands
for the title.  Entries are not bounded to 100 modules as the array is.
Line buffers that the code does not free are not modelled.

### Bootstrap
`pc` follows the program: `Start` (booting device), `DevLoad` or the loop
`Probe`/`MagicDevLoad`/`ProbedAll`, `MenuLoaded` (the test for 0), `Choose` or
`Leave`, `Open` (the `switch` on the device type), `KernelLoaded` or
`KernelMissing`, then the handlers in their order and `Free`, `Exit`.  `wrote`
and `home` are history: the root its file gave an entry and the device of that
file.  `blkdev` is U-Boot's current ext2 partition.  Reading one menu file gives
any of `ReaderResults`, those with entries and 0 included, as `MenuParser` shows
to be possible.  The partitions may be in any slots of the table: `Rdb` shows that
there is no hole while every read of the partition list succeeds
(`TableHasNoHoles`), and one is possible after a read that failed.  `Wanted` is
what a root line says, with its disk and the whole number of its partition;
`InTable` and `Open` cut both as `RdbPartitionTable_get()` does, and `Uncut` names
the root lines for which that makes no difference.  The image types are those the
handlers tell apart; a CD that lacks the kernel leaves the buffer as it was
("garbage").

### ElfLoader
`CheckHeader`, `LoadHunk`, `PassSection`, `HunksLoaded` are the first loop of
`load_elf_file()` with `load_hunk()`, one section per step; `Relocate`,
`RelocateFails`, `Relocated` the second, one relocation per step; `Register` the
element of `debug_info`; `NextModule`, `ModuleMissing`, `Jump` the loop of
`testboot_aros()`.  `addr` holds the `addr` fields of the section headers, which
the loader changes in the file's buffer; 0 means not loaded.  `Reached` gives a
list of relocations its address in that buffer when the second loop comes to it.  Arithmetic is
modulo `Word` = `Half`^2, so an address may wrap; the history variable `fits`
says that none did, and most properties presume it, as the code does.  Loading
a hunk forgets what `mem` held there, so that an overlap would break pointers.
Alignments are at least 1; symbols of `debug_info` are left out.

### LoadFile
A device is idle, loading or broken.  While it loads, the buffer fills with the
file from its beginning (`Copy`), and the answer is the file's length once it is
all there, or `Missing`.  A broken load promises nothing, the next one does.  At most
one content is wanted of a load, and when the device starts out idle.
`Bootstrap` uses its devices in this way: a length or a missing file.  `wanted`,
the content asked for, is computed by `SfsDisk` and `CdromDisc` from the disk
alone, as what its links lead to (`Chain`, `Pages`, `Continued`), sets of
objects that a path may stand for (`Meant`) and their bytes; none of the
drivers' order of search is in it.  `Sound` says for which disk and path this
content is unambiguous and all there.  A byte is known by its sector and its place
in it, so bytes that come from the wrong place, twice or out of order show.

### Sfs
`Create`, `CreateFails` are `sfs_create()`.  `SearchContainer`, `SearchEnds` are
`sfs_find()`: one container per step, and the object found becomes the directory
of the next element.  `NextExtent`, `SearchLeaf`, `SearchBranch`, `SearchStrays`,
`CopyBlock`, `ExtentEnds`, `FileEnds` are `sfs_loadfile()` with `get_bnode()`, one
page or block per step.  `buffer` is the block whose bytes are in memory: a block
that cannot be read leaves it alone and the code goes on with it.  When the search
runs past the first node (the 16-bit index wraps) the extent is any of `Strays`.
The checksum is computed and compared with nothing but zero; `zero` is the only
thing the model keeps of it.

### Cdrom
`Read`, `ReadFails` are `cdrom_read()` of something in one sector, with
`sector_in_buf` and `tmpbuf`.  `ReadVolume`, `ReadRoot`, `RockRidgeContinues`,
`RockRidgeFound`, `NoRockRidge`, `CreateFails` are `cdrom_create()`.  `Load` begins
a load; `Skipped`, `ReadDirent`, `NmContinues`, `NmFound`, `NoNm`, `IsoName`,
`NextElement`, `Missing` are `fs_cdrom_find_file()`, one read of the disc per
step; `Compare` is the test of the name and where the walk goes.  The operators
`Scan...` are the ways out of `iterate_entries()`.  `ReadWhole`, `ReadRest`,
`LoadBreaks`, `LoadEnds` copy the file.  A sector that is not on the disc never
reads; a good one fails up to `MaxFails` times and may scribble into the buffer.
Padding shorter than a record's fixed part is read on into the next sector
(`ReadOn`); the padding of the last cell of a sector may be that short or not, and
it is no fault if the disc has no next sector (`ReadOnFails`): the file is said to
be missing then, and it is (`NothingBehind`).
`fault` and `suspect` are history: a read failed, or the cache gave bytes of
another sector, in this load or when the handle was made.

### Rdb
`FindPass`, `FindTake`, `FindNone` are `get_rdb()`; `WalkAstray`, `WalkEnd`,
`WalkAgain`, `WalkPass`, `WalkTake` are the branches of `get_partition_info()` with
the loop of `RdbPartitionTable_init()`.  The list is read again for each slot.  A
block outside the disk's domain can never be read; any other fails to be read now
and then, `MaxFails` times in all (`ReadFails`, counted by `fails`), which leaves a
slot empty in front of filled ones.  `p` is the variable of that name: `WalkAgain`
reads a block with a bad checksum again and leaves `p` pointing to it, so if the
next read of it fails the slot is filled with that block, whatever partition it
was to be (`rdb.c:108` and `119`).  Sizes are not cut to 32 bits; the disks' are
small.

### Installer
One action per block written, so that a kill may come between any two.
`Examined` is the `do ... while` of `next_free_block()`: the bound counts only
after a block that is not free.  The bound, `nblocks`, is a difference modulo
`Word`, so it is large when `Hi` lies below `Lo`.  `WriteRdb` follows whatever happened, as in
`main()`.  `Crash` and `Rerun` start the program again on the disk as it is.
A kill means that writes up to some point are on the disk and later ones are
not; a power failure that reorders writes in the drive is not modelled.  The last
`st_size % 4` bytes of the file, which `slb_size` drops, are not modelled either.
`BootArea` has no blocks: it says which start of the installer wrote what the
firmware reads, none or one.  `Writers` tells it, by the first block of the list;
`NeverMixed` makes that true of the others.  `Erase` and an `InstallChunk` may be
its `OldGone` and `NewSeen`, the end of a run is its `Refuse`, `GiveUp` or
`Succeed`, and any other step is a stutter.

## 3. Runs

| Run | Instance | Shows |
|---|---|---|
| `display` | window of 3, menus of 0-6 entries, defaults -2..3, every key class, both consoles | type correctness, window on the page, selection visible, countdown boots the default, autoboot; the screen implements `MenuCursor`: never another entry than the selected one |
| `timeout` | the real 11 rows, 10-14 entries, defaults 0..15, screen | **violated**: a default entry two rows below the first page is not booted |
| `parser` | both readers on all texts of up to 5 of 8 lines of either dialect, and on bodies of up to 3 of 15 directives between two titles | each field is the one its own block gives last, the list is the file's blocks, one owner, nothing lost but cut titles, settings, the reader returns |
| `parser_tail` | texts of up to 4 lines | **violated**: 0 returned with entries linked |
| `boot` | 4 media, up to 2 partitions of 3 kinds in any slots, 15 reader results with root lines for partitions -1, 0, 1, 2 and 256 (counted from 0) and for the second disk, 4 image kinds | kernel from the device the root line names or the menu came from, ext2 partition current, default entries have a device, the boot ends |
| `elf` | words of 8 bits, base 64, code at +128; kernels of two sections (16 kinds each) with 8 lists of relocations and modules of 17 kinds; three modules | no hunk over another, all in the range the kernel is told of, the bss list, code ranges, every pointer leads where its symbol was loaded |
| `table` | disks of 5 blocks with every list of 3 partitions, table of 4, up to two failing reads | slot k is partition k and the rest empty, but for one slot at most for each failed read, and what such a slot may hold; termination |
| `installer` | reserved range of 5 blocks in a disk of 10, every old list of up to 2 blocks, files of 0, 1 and 3 chunks, 3 runs | never two bootloaders mixed, what is reported installed is, nothing else damaged, every run ends; implements `BootArea`: an old bootloader goes before the new one can be read and never comes back |
| `installer_range` | the same, one run | **violated**: blocks behind the reserved range are written |
| `installer_space` | the same with the range's end taken | **violated**: the list leads to a block that is no boot block |
| `sfs` | blocks of 2 bytes; three containers with chains that end, go on or run in a circle and damaged blocks; files of 0-6 bytes in two extents of up to 2 blocks, under one page or a branch of two with keys right and too large; 5 paths | implements `LoadFile` on sound disks; never beyond the object's size on any; every load of a sound disk ends |
| `cdrom` | sectors of 3 cells, two loads of 4 paths with one handle, one good read that fails; plain discs (the file at a sector's end, beginning or in a directory, of 0-7 cells) and Rock Ridge discs (names and the mark in the record, continued once or twice, in circles, missing) and odd ones | the cache holds what it says; each load implements `LoadFile` whatever went before; never beyond the file's size; every load of a sound disc ends |

Why the bounds are enough.  The window logic depends on the difference of
`selected` and `first` and on whether the menu is shorter than, as long as, or
longer than the window: three rows and seven lengths cover every case, and the
theorems hold for all.  A reader keeps nothing of a text but the entry under
construction, so two entries with anything between and behind them (5 lines) show
every interaction.  Two sections and two files show
every pair of hunks, and a third file a third; half words of 4 bits carry as those
of 16 do.  Three cells to a sector give files that end before, at
and behind a sector's end and records at its beginning and end; two loads are one
that leaves the cache in any state and one that meets it; a second continuation is
the first that can lead back.  Two extents with another file's between them are
the least that an error in order or place can show in, and a tree of two levels
the least with a branch.  Two partitions are enough for an entry of one to be
stamped, opened or shadowed by the other.  Two failing reads are a slot that is
lost and one behind or before it, or the two halves of the case where `p` is left
behind in one slot and a hole is made in another.  Three runs of the installer are a kill,
a second kill on what it left, and a run that ends.  A run that ends in an
error exits and is not restarted by itself, hence `CHECK_DEADLOCK FALSE`
everywhere: the programs do stop.

Fairness.  `FairSpec` asks only that the program, once it can take a step, takes
one: it is the only thing running on the machine.  The user (`PressKey`) and the
restart of the installer (`Rerun`, `Crash`) are not fair; the number of restarts
is bounded by `MaxRuns`, so that `Ends` says that the last run ends.
`Cdrom`'s fairness leaves out the wait for the next `Load`, which is its caller's
to make.  `Returns` of `Sfs` and `Cdrom` speak of sound disks: a circle is followed
for ever by the code and by the models.
`Bootstrap` makes the choice of an entry or `Leave` part of the fair
program, so `BootEnds` presumes somebody at the keyboard or a countdown.
The `timeout`, `parser_tail` and installer
violations are of safety properties and need no fairness.

## 4. Findings

Each is a violation run; `PROJECT.json` quotes the lines.

1. `timeout`: `display()` scrolls one row per call and is called once before the
   countdown, so a `default` beyond the 12th entry makes the countdown end at
   U-Boot's prompt (`menu.c:672-676`).
2. `parser_tail`: a menu file whose last entry is incomplete is reported as not
   found if no other file has one (`menu.c:570`).
3. `installer_range`: boot blocks written outside the reserved range
   (`parthenope-install.c:121`).
4. `installer_space`: a truncated boot list is made current after the old one was
   erased (`parthenope-install.c:187`).

Also met, possible in the models, and not contradicted by anything the
repository says: after a `title` line with trailing blanks, a comment or a CR the
entry is lost (`NothingLost` excludes exactly these); `testboot_aos` enters an
image of another kind when an earlier handler gave up; a file missing on a CD
counts as loaded; the letter of the serial menu's 26th entry is `z`, which leaves
(`menu.c:737`); the disk number of `root ide D:P` is ignored and P is counted in a
byte, so that the entry of "ide 1:1" is loaded from the first disk and that of
"ide 0:257" from its first partition (`rdb.c:174`; `KernelFromWanted` leaves out
exactly these); a read of the partition list that fails once makes a hole in the
table, and `magic_load()` finds no menu behind it (`menu.c:622`), or puts a partition
with a bad checksum into a slot; `default` counts
over the lists of all partitions together; blocks of a killed installer are never
free again; a partition block with a bad checksum stops the program for ever;
`rdb.c:124-125` makes a partition's size one less than the number of its blocks.

Of the drivers: SFS refuses a good block whose checksum comes out as zero and
takes any other (`sfs.c:85` and `139`), loads a directory as if it were a file, copies
the block before once more for one it cannot read, and looks at the same container
for ever when the next cannot be read.  A CD's read error in a file is not
reported (`cdrom.c:455`), after a failed read the cache may give another sector's
bytes for one it already had, a hidden directory counts as a file, and what
follows a CE entry in the same area is not looked at.  `elements` of
`fs_cdrom_find_file()` has a fixed length the path is not held to; an
alignment of 0 puts a hunk at address 0 (`elf.c:82`); the line reader's
buffer has no terminator (`menu.c:95`).

## 5. Proofs

All theorems are of `Spec`, from the named assumptions on the constants alone.

| Theorem | States | Argument |
|---|---|---|
| `MenuDisplayProofs!TypeCorrect`, `WindowStaysOnPage`, `SelectionIsVisible` | types, `WindowOnPage`, `SelectionVisible` | one inductive invariant `IInv`: the window's two ends fit the list, and the selection is at most one row outside the window when `Draw` comes, because a key moves it by one.  Without that distance neither property is inductive: a window two rows away would not catch up |
| `CountdownBootsDefault` | `TimeoutBootsDefault` when every default is at most `Rows` | during a countdown the entry shown is the selection, which is the default.  The bound on the defaults is the one finding 1 shows to be needed |
| `ScreenIsCursor` | `MenuDisplay` implements `MenuCursor` on the screen, for every default | each action is a step of the cursor or a stutter; Enter needs the invariant that the entry shown is the selection or none |
| `MenuParserProofs!TypeCorrect`, `EntriesHaveOneOwner` | types, `OneOwner` | the entry under construction has a title line behind all those linked or freed: `at` grows, so no entry is met again.  This order is the strengthening |
| `MenuParserProofs!MenuHoldsBlocks`, `BlocksAreLinked`, `SettingsAreOutside` | `MenuIsBlocks`, `NothingLost`, `SettingsOutsideBlocks`, for every text and both dialects | `TextInv` relates each variable to the lines dealt with so far (`Passed`): an open entry is what the lines behind its title say (`OpenInv`), a dropped one has a bad line or no kernel (`RejectInv`), every title passed is linked, at risk, no bootable block or the open entry (`TitlesInv`), between entries the block at hand is spoilt (`SpoiltInv`), the header is what the lines outside say (`SettingsInv`).  A whole block's meaning is then that of its lines up to the next title (`BlockEnd`).  None of the three is inductive: they say nothing of an entry half read |
| `BootstrapProofs!TypeCorrect` | types | each action; the table, the list and the handle are those of the constants |
| `BootstrapProofs!KernelIsFromWanted`, `Ext2IsCurrent`, `DefaultAlwaysHasDevice` | the three safety properties of `boot`, the first for root lines that name the first disk and a partition that a byte can count | the list holds entries that are fixed (explicit root, or stamped with their own partition) before every probe; with a booting device it holds unstamped entries of that device and the handle is still open.  The stamp of a later partition finds nothing left to stamp |
| `ElfLoaderProofs!TypeCorrect`, `NoHunkOverwritten`, `RangeEnclosesHunks` | types, `HunksApart`, `HunksEnclosed` | while everything fits, `ptr_rw` is at most `Base` and `ptr_ro` at least; a new hunk lies between its region's end and the free memory.  Rests on lemmas about rounding with `%` for any alignment; `HunksApart` alone is not inductive, it needs that the pointers bound all hunks |
| `ElfLoaderProofs!KernelFindsBss`, `DebuggerFindsModule`, `PointersLead` | `BssHanded`, `OneModuleEach`, `PointersMeet`, for every sequence of files | `Books`: every hunk is a section of its file and one per section, files and their read-only hunks come in order, `addr` has the hunks of the file being loaded, the tracker has the bss hunks however many, an element of `debug_info` reaches exactly from one code hunk to another of its file.  `Stored`: every relocation made is still in memory, right, whatever hunk was loaded since.  The arithmetic (both halves of an address with the carry of `@ha`, a branch's distance, its low bits) is in the lemmas `Congruent`, `HalvesMeet` and `BranchReaches` |
| `InstallerProofs!OneBootloader`, `WholeBootloader` | `NeverMixed`, `Installed`, after any number of kills | the list of the first RigidDiskBlock begins with a block of one run, and the links of that run's listed blocks lead to blocks of the same run (`Single`), though the disk may hold blocks of many; while a run installs, that run is the current one; erasing cuts the old list off at its head, so that a run killed while erasing leaves nothing to read (`HeadErased`), and a run has labelled no block before it installs (`Labels`).  `Progress`: the chunks written so far are linked in order and the last leads to the block of the next, which lies behind them all |
| `InstallerProofs!InstallsInOrder`, `ReadsOneWriter` | `AreaSpec`: `Installer` implements `BootArea`; `Writers` is the set of the runs that wrote any of the chunks read | each step is one of `BootArea` or a stutter.  By the invariants of the row above, what can be read while a run installs is nothing or that run's; so a new bootloader comes to be read only by the run's first chunk, when the old pointer happens to lead there, or by `WriteRdb`.  `Answering`: as long as the list in memory leads to no boot block, the disk's does not either, so giving up shows nothing new.  `Found`: the firmware reads from the first RigidDiskBlock, and no step makes another the first |
| `InstallerProofs!WritesStayNear`, `SearchesEnd` | beside the RigidDiskBlock and old boot blocks nothing is written `Bound` + `size` blocks from the beginning of the disk or further, which is how far finding 3 goes; every search of `next_free_block()` ends on the blocks of the model, for any `Lo` and `Hi` | the pointer is one block further than the bound for each chunk written, at most (`PointerNear`); the first of the blocks behind it that is free or at the bound is the one the search stops at, and `RoomAssumption` has one |
| `InstallerProofs!TypeCorrect`, `NothingElseIsWritten` | types, `NoCollateral` | the block about to be written is free and is not the RigidDiskBlock found; a chunk goes to the target found before it and the next target lies behind |
| `RdbProofs!TypeCorrect`, `TableHasNoHoles` | types, `NoHoles`: while no read fails no slot is filled behind an empty one, half way through the table too | with no failure the slots filled are the list itself, and what is listed behind the end of the list is nothing (`ListEnds`).  `NoHoles` alone says nothing of a walk half way |
| `RdbProofs!TableHoldsList` | `TableIsList` for any number of failing reads | `Walking`: the block looked at is the one the list leads to behind the partitions passed.  `Copied`: the slots filled are the list but for a set of slots (`Lost`) no larger than the reads that failed, and each of those is empty or holds a listed block with a bad checksum.  A step adds to `Lost` at most the slot being filled, and only if a read fails; that `p` is reset by every pass is what keeps blocks of other places out |
| `CdromProofs!TypeCorrect`, `CacheIsCoherent`, `BufferIsBounded` | types, `CacheCoherent`, `NeverBeyond` of `Cdrom` | two lemmas on `cdrom_read()`: a read that ends well leaves the buffer and its number together or is noted as a fault, one that fails without touching a good sector changes neither.  `Filling` says what the buffer holds between the whole sectors and the rest, with facts on division by the cells of a sector |
| `CdromProofs!KeepsPromise` | `LoadsFile` of `Cdrom`: each step is one of `LoadFile` or a stutter, for every disc sound for the path, every number of loads with one handle and every sector's size | `LoadInv`, about the loads that can be trusted only, so that nothing is assumed of those before.  `Made`: what the handle keeps is what the disc says.  `Walking`: the records behind (`Looking`) end where the walk is and none of them suits, the areas that do not lie ahead (`Scanning`) have no entry of the kind looked for, and what is in the buffer is the beginning of the file.  A skip to the next sector passes no record, because each begins where another ends (`SkipsNone`) |
| `SfsProofs!TypeCorrect`, `BufferIsBounded` | types, `NeverBeyond` of `Sfs` | the size is a number of the object found, the buffer is empty until then, and `ToCopy` is never more than what is left; that the nodes and objects taken exist rests on well-foundedness of the numbers |
| `SfsProofs!KeepsPromise` | `LoadsFile` of `Sfs`: each step is one of `LoadFile` or a stutter, for every sound disk and path and any block size | `LoadInv`.  `Searching`: the containers that do not lie ahead have no object for the element looked for.  `Awaited`, `Copying`: the content wanted is what is in the buffer followed by what the extents from `next` on spell.  The page searched has the extent looked for under it, and the node the search stops at is the only one that leads there (`LeafPlace`, `BranchPlace`, `KeyOnce`).  That `Reached` is closed under links (`ReachedClosed`) is the pigeonhole: a disk has no more steps than blocks.  What the extents from a block on spell (`Spelled`) is unique on a sound disk and as long as what was asked for |

That every component comes to its end is a liveness property, which TLAPS does not
prove here.  Its safety half is proved: a measure in the natural numbers that every
step of the program brings down.

| Theorem | States | Argument |
|---|---|---|
| `MenuDisplayProofs!OnlyKeysProlong` | every step of the menu that changes anything lowers `Left`, unless it reads a key | polls of the countdown left, then the turn of the key loop; a negative delay has none left on the screen and changes nothing on the serial line |
| `MenuParserProofs!ReadersAreShort` | every turn of a reader lowers `Left`: at most four for a line, and one | a title pushed back is read again in a state from which it cannot be pushed back once more; `Depth` is how many turns a state may still take at the same line |
| `BootstrapProofs!BootGoesOn` | every step lowers (`Rank`, `Togo`) | phases in order, in each the partitions to look at or the modules to load |
| `RdbProofs!TableIsSoonFull` | every step that changes anything lowers `Left`, (`Limit`+1)(`Limit`+2) at first | `part` counts down though the list may run in a circle; the slot grows; a bad checksum sets `p` once for each slot |
| `InstallerProofs!StartsAreShort` | every step of a run lowers `Left`, `Blocks` + `size` + 6 at first | a block erased is no boot block any more, so the disk's boot blocks bound the loop, wherever the list leads |
| `ElfLoaderProofs!LoadingGoesOn` | every step lowers (`FilesAhead`, `Stage`, `SectionsAhead`, `RelocsAhead`), whatever the files hold | an index is raised by each step inside a pass, and it is at most one beyond its table (`TypeOK`); a pass is followed by a later one of the same file, or by the next file |
| `SfsProofs!LoadsAreShort` | on a sound disk every step lowers `Left`, at most n(B+1) + B(2B+4) + 2 for n elements and B blocks | what lies ahead of a container, a page or an extent (`Reached`) is a set of blocks that loses one at each link; that the extent looked for is in the tree, and that its successor can be had while it is copied, is `RestInv` |
| `CdromProofs!LoadsGoOn` | while nothing fails, on a disc sound for the path, every step lowers (`Elements`, `Places`, `Stage`, `AreasAhead`) | the walk goes on to the next element or to a later place, as records have a length; of a sound area the sectors ahead (`Continued`) lose the one just read at each continuation (`FewerAhead`) |

Assumptions on the constants beyond their types: a branch counts in fours and its
range of 2 * `Reach` divides `Word` (`ReachAssumption`; 2^26 and 2^32 in the code);
blocks found on the installer's disk at first are of none of its runs
(`OldAssumption`, which is what `run` means); an SFS disk has finitely many blocks
(`DiskAssumption`), and so does a disc of `Cdrom` (`FiniteAssumption`).  `OneModuleEach` presumes files whose
code is read-only and whose tables and relocations do not claim to be code (`PlainCode`), and
`PointersMeet` files whose relocations each have a field of their own inside a
section, and neither that section nor a symbol's holds relocations itself
(`WellFormed`), as compilers write them; the run has files of both kinds.

How recursive definitions are met.  The theorems of the library that do
induction take an operator as a parameter and cannot be used here.  Induction
over a set can: the least element of a set of numbers that are no instance of
the claim (`WFMin`, `NatLessThanWellFounded`).  It shows that a recursive function
exists, hence that it satisfies its equation, and what its values are
(`InstallerProofs`, `RdbProofs`, `ElfLoaderProofs`, `SfsProofs`, `CdromProofs`).

Only model-checked: `Autoboot`, `Returns`, `BootEnds`, `Ends` (liveness under
fairness, which TLAPS does not prove here, nor ENABLED).  What is missing to them
beside the measures above is that a step can always be taken; every other property
of the passing runs is a theorem.  No module uses RECURSIVE operators.

## 6. Not modelled

U-Boot itself, beyond what its callers see; allocation failure (the program does
not check `malloc` in most places and U-Boot's heap is large); the layout of the
screen and all messages; the argument vectors of `bootm`, the kernel tags, the
board information; `clear_bss`, `flush_cache`, `set_progress`; the contents of
files; `menu_free`, `RdbPartitionTable_getbyname`, `RdbPartitionTable_dump`, which
nobody calls.  Linux is started even when its initrd or dtb could not be read;
that is one outcome of `Linux` and its contents are not looked at.

ext2 and tftp: mount, open, read and close of one `load_file()` follow each other
with no return between them and no state left behind but U-Boot's current
partition, which `Bootstrap` has; what they read is in U-Boot.  CD: `susp_skip` is
taken as 0, a record, its name and its area lie in one sector, an area is not
empty when the disc is one of Rock Ridge's, and several whole sectors are read all
or not at all.  A root directory that begins with no record makes the length of its
system use area negative, which is undefined from there on (`cdrom.c:538-545`): the
model stops there (`CreateFails`).  ELF: the field of a relocation is one cell of
`mem`, whatever its width, so fields that overlap in part and fields across the
end of a section do not show.  SFS: an object container ends with an empty object.

`context.c` and its headers are one-line calls through U-Boot's table of
functions, with no state but the pointer set once; the calls that matter are the
inputs of the actions that make them.  `support.c` is string and memory functions
and two list operations with no state of their own; where what they do matters
(case folding in names, `strtol` of what is no number, appending to a list) it is
in the action that calls them.  Build files and the linker script have no
behaviour at run time.

## 7. Plan

Done: `MenuDisplay`/`MenuCursor`, `MenuParser`, `Bootstrap`, `Installer`, `Rdb`,
`ElfLoader`, `Sfs` and `Cdrom` with the promise `LoadFile` both implement, their
runs, and the theorems above.  Next, in this order:

1. An abstract `PartitionTable` that `Rdb` implements and `Bootstrap` uses; an
   abstract boot (menu, device, kernel) that `Bootstrap` implements.
2. `load_file()` of `Bootstrap`'s devices as an instance of `LoadFile`, with the
   ext2 protocol as a third implementation.
