------------------------------ MODULE Bootstrap ------------------------------
(***************************************************************************)
(* The boot itself: bootstrap() of src/src/parthenope.c with menu_load(),  *)
(* dev_load() and magic_load() of src/src/menu.c and the drivers' create   *)
(* and load functions as far as their callers see them.  It composes       *)
(*   - the partition table, with any of its Limit slots filled: one is     *)
(*     empty behind the end of the list and where a block was not read,    *)
(*   - a menu reader, as any result [entries, ret] of ReaderResults (what  *)
(*     MenuParser yields, 0 with entries linked included),                 *)
(*   - the menu on the screen, as any entry or none (MenuCursor),          *)
(*   - U-Boot: bootm and an AmigaOS kernel may come back or not.           *)
(*                                                                         *)
(* A device handle is a record [type, part].  The ext2 code of U-Boot has  *)
(* ONE current partition for all ext2 handles, `blkdev', which             *)
(* ext2fs_set_blk_dev_full() sets and every mount reads.                   *)
(***************************************************************************)
EXTENDS Integers, Sequences

CONSTANTS
  Limit,          \* RDB_LOCATION_LIMIT, 16 in the code
  Media,          \* the device types U-Boot may have booted from
  ReaderResults,  \* what reading one menu file may link and return
  Images          \* what a kernel file may hold

ASSUME TableAssumption == Limit \in 1 .. 255
ASSUME MediaAssumption == Media \subseteq {"disk", "net", "cd", "unknown"}
ASSUME ImageAssumption ==
  Images \subseteq {"standalone", "linux", "elf", "raw"}

NoDev == [type |-> "none", part |-> 0]
Devices == {NoDev, [type |-> "tftp", part |-> 0], [type |-> "cdrom", part |-> 0]}
             \cup [type : {"ext2", "sfs"}, part : 0 .. (Limit - 1)]

\* A root line as the menu reader leaves it, "default" if there was none.
Roots == [type : {"default", "ide", "tftp", "cdrom"}, num : Int, part : Int]

\* An entry of one menu file.
FileEntry == [root : Roots, other : BOOLEAN, modules : Nat]

ASSUME ReaderAssumption ==
  \A r \in ReaderResults :
    r.ret \in Nat /\ r.entries \in Seq(FileEntry)

VARIABLES
  medium,   \* the type of the device U-Boot booted from
  fs,       \* the file system on each partition of the table
  pc,
  boot,     \* the device handle in use: bootstrap()'s, magic_load()'s `dev'
  blkdev,   \* U-Boot's current ext2 partition, -1 before the first
  i,        \* magic_load()'s partition
  menu,     \* the entries linked; root changes with the stamps, `wrote' is
            \* the root its file gave and `home' the device of that file
  n,        \* what the readers returned, summed
  entry,    \* the entry chosen
  image,    \* what the kernel buffer holds
  from,     \* the device the kernel came from
  loaded,   \* modules loaded for the current handler
  outcome

config == <<medium, fs>>
vars == <<config, pc, boot, blkdev, i, menu, n, entry, image, from, loaded,
          outcome>>

NoEntry == [root |-> [type |-> "default", num |-> 0, part |-> 0],
            other |-> FALSE, modules |-> 0,
            wrote |-> [type |-> "default", num |-> 0, part |-> 0],
            home |-> NoDev]

Init ==
  /\ medium \in Media
  /\ \E parts \in SUBSET (0 .. (Limit - 1)) :
       fs \in [parts -> {"ext2", "sfs", "foreign"}]
  /\ pc = "start" /\ boot = NoDev /\ blkdev = -1 /\ i = 0
  /\ menu = <<>> /\ n = 0
  /\ entry = NoEntry /\ image = "nothing" /\ from = NoDev /\ loaded = 0
  /\ outcome = "running"

-----------------------------------------------------------------------------
(* Devices.                                                                *)

\* Opening a partition: ext2_create() makes it U-Boot's current partition
\* before it looks at it, sfs_create() is tried when that finds no ext2.
\* Reading the superblock may fail for either.
OpenPartition(p) ==
  /\ blkdev' = p
  /\ boot' \in {NoDev} \cup
       (IF fs[p] = "foreign" THEN {} ELSE {[type |-> fs[p], part |-> p]})

\* cdrom_create() finds a drive and a file system, or does not.
OpenCdrom == boot' \in {NoDev, [type |-> "cdrom", part |-> 0]}
OpenTftp  == boot' = [type |-> "tftp", part |-> 0]

\* RdbPartitionTable_get() takes its numbers as bytes and knows one disk.
InTable(p) == p % 256 \in DOMAIN fs

-----------------------------------------------------------------------------
(* Finding the menus.                                                      *)

\* get_booting_device()
Start ==
  /\ pc = "start"
  /\ CASE medium = "net" -> OpenTftp
       [] medium = "cd"  -> OpenCdrom
       [] OTHER -> boot' = NoDev
  /\ pc' = IF boot' = NoDev THEN "magic" ELSE "dev_load"
  /\ UNCHANGED <<config, blkdev, i, menu, n, entry, image, from, loaded, outcome>>

\* The entries of one file as they are linked.
AsLinked(es) ==
  [k \in DOMAIN es |->
     [root |-> es[k].root, other |-> es[k].other, modules |-> es[k].modules,
      wrote |-> es[k].root, home |-> boot]]

\* dev_load(): one of the three files is there and is read, or none is.
FileRead(r) == menu' = menu \o AsLinked(r.entries) /\ n' = n + r.ret
NoFile == UNCHANGED <<menu, n>>

DevLoad ==
  /\ pc = "dev_load"
  /\ NoFile \/ \E r \in ReaderResults : FileRead(r)
  /\ pc' = "loaded"
  /\ UNCHANGED <<config, boot, blkdev, i, entry, image, from, loaded, outcome>>

\* magic_load(): the next partition, which is skipped when no file system is
\* recognised on it; the first empty slot ends the search.
Probe ==
  /\ pc = "magic" /\ i < Limit /\ InTable(i)
  /\ OpenPartition(i)
  /\ IF boot' = NoDev THEN i' = i + 1 /\ UNCHANGED pc
                      ELSE pc' = "magic_dev_load" /\ UNCHANGED i
  /\ UNCHANGED <<config, menu, n, entry, image, from, loaded, outcome>>

ProbedAll ==
  /\ pc = "magic" /\ (i = Limit \/ ~InTable(i))
  /\ pc' = "loaded"
  /\ UNCHANGED <<config, boot, blkdev, i, menu, n, entry, image, from, loaded,
                 outcome>>

\* Slips: explicit roots stamped too, and partition 0 taken for `no partition'.
StampedAll(es) ==
  [k \in DOMAIN es |->
     [es[k] EXCEPT !.root = [type |-> "ide", num |-> 0, part |-> i]]]
StampedNotFirst(es) ==
  [k \in DOMAIN es |->
     IF es[k].root.type = "default" /\ i # 0
     THEN [es[k] EXCEPT !.root = [type |-> "ide", num |-> 0, part |-> i]]
     ELSE es[k]]

\* The stamp: the entries that name no device get this partition.
Stamped(es) ==
  [k \in DOMAIN es |->
     IF es[k].root.type = "default"
     THEN [es[k] EXCEPT !.root = [type |-> "ide", num |-> 0, part |-> i]]
     ELSE es[k]]

MagicDevLoad ==
  /\ pc = "magic_dev_load"
  /\ \/ menu' = Stamped(menu) /\ UNCHANGED n
     \/ \E r \in ReaderResults :
          menu' = Stamped(menu \o AsLinked(r.entries)) /\ n' = n + r.ret
  /\ boot' = NoDev            \* destroyed
  /\ i' = i + 1
  /\ pc' = "magic"
  /\ UNCHANGED <<config, blkdev, entry, image, from, loaded, outcome>>

\* menu_load()'s test: no menu at all unless some reader returned non-zero.
\* magic_load() had handles of its own, bootstrap()'s is then still NULL.
MenuLoaded ==
  /\ pc = "loaded"
  /\ pc' = IF n = 0 THEN "exit" ELSE "display"
  /\ UNCHANGED <<config, boot, blkdev, i, menu, n, entry, image, from, loaded,
                 outcome>>

-----------------------------------------------------------------------------
(* Choosing, and opening the entry's device.                               *)

Done(what) == pc' = "done" /\ outcome' = what

Choose ==
  /\ pc = "display"
  /\ \E k \in DOMAIN menu :
       /\ entry' = menu[k]
       /\ IF menu[k].other THEN Done("bootu")
                           ELSE pc' = "open" /\ UNCHANGED outcome
  /\ UNCHANGED <<config, boot, blkdev, i, menu, n, image, from, loaded>>

\* No key but the one that leaves, or an empty menu.
Leave ==
  /\ pc = "display"
  /\ pc' = "exit"
  /\ UNCHANGED <<config, boot, blkdev, i, menu, n, entry, image, from, loaded,
                 outcome>>

\* Slip: a handle made again without telling U-Boot.
OpenStale ==
  /\ pc = "open"
  /\ boot' = CASE entry.root.type = "ide" /\ InTable(entry.root.part) ->
                    [type |-> fs[entry.root.part % 256],
                     part |-> entry.root.part % 256]
               [] OTHER -> boot
  /\ pc' = IF boot' = NoDev THEN "exit" ELSE "kernel"
  /\ UNCHANGED <<config, blkdev, i, menu, n, entry, image, from, loaded, outcome>>

Open ==
  /\ pc = "open"
  /\ CASE entry.root.type = "ide" /\ InTable(entry.root.part) ->
            OpenPartition(entry.root.part % 256)
       [] entry.root.type = "ide" /\ ~InTable(entry.root.part) ->
            boot' = NoDev /\ UNCHANGED blkdev
       [] entry.root.type = "tftp"  -> OpenTftp /\ UNCHANGED blkdev
       [] entry.root.type = "cdrom" -> OpenCdrom /\ UNCHANGED blkdev
       [] entry.root.type = "default" -> UNCHANGED <<boot, blkdev>>
  /\ pc' = IF boot' = NoDev THEN "exit" ELSE "kernel"
  /\ UNCHANGED <<config, i, menu, n, entry, image, from, loaded, outcome>>

-----------------------------------------------------------------------------
(* Loading the kernel and trying the handlers in order.                    *)

\* A negative length ends the program at once.
KernelMissing ==
  /\ pc = "kernel" /\ boot.type # "cdrom"
  /\ Done("returned")
  /\ UNCHANGED <<config, boot, blkdev, i, menu, n, entry, image, from, loaded>>

\* A CD answers 0 for a file it does not have, and the buffer stays as it
\* came from the allocator.
KernelLoaded ==
  /\ pc = "kernel"
  /\ image' \in Images \cup (IF boot.type = "cdrom" THEN {"garbage"} ELSE {})
  /\ from' = boot
  /\ pc' = "standalone"
  /\ UNCHANGED <<config, boot, blkdev, i, menu, n, entry, loaded, outcome>>

\* A handler that does not know the image returns, and so does one whose
\* bootm gave up; the next handler gets the same buffer.
HandlerTries(name, next) ==
  /\ pc = name
  /\ \/ image = name /\ Done("bootm")
     \/ pc' = next /\ UNCHANGED outcome
  /\ UNCHANGED <<config, boot, blkdev, i, menu, n, entry, image, from>>

Standalone == HandlerTries("standalone", "linux") /\ UNCHANGED loaded
Linux      == HandlerTries("linux", "aros") /\ loaded' = 0

\* Slip: one module too many.
LoadModulePast(handler) ==
  /\ pc = handler /\ loaded <= entry.modules
  /\ loaded' = loaded + 1
  /\ UNCHANGED <<config, pc, boot, blkdev, i, menu, n, entry, image, from,
                 outcome>>

\* A module is loaded, or its device or load_elf_file() fails.
LoadModule(handler) ==
  /\ pc = handler /\ loaded < entry.modules
  /\ loaded' = loaded + 1
  /\ UNCHANGED <<config, pc, boot, blkdev, i, menu, n, entry, image, from,
                 outcome>>

ArosModule == image = "elf" /\ LoadModule("aros")

\* Not an ELF file, or anything on the way failed.
ArosFails ==
  /\ pc = "aros"
  /\ pc' = "aos" /\ loaded' = 0
  /\ UNCHANGED <<config, boot, blkdev, i, menu, n, entry, image, from, outcome>>

ArosJumps ==
  /\ pc = "aros" /\ image = "elf" /\ loaded = entry.modules
  /\ Done("aros")
  /\ UNCHANGED <<config, boot, blkdev, i, menu, n, entry, image, from, loaded>>

AosModule == LoadModule("aos")

\* Slip: an AmigaOS module that fails is tried again.
AosRetries ==
  /\ pc = "aos" /\ loaded < entry.modules
  /\ boot.type # "cdrom"
  /\ loaded' = 0
  /\ UNCHANGED <<config, pc, boot, blkdev, i, menu, n, entry, image, from,
                 outcome>>

AosFails ==
  /\ pc = "aos" /\ loaded < entry.modules
  /\ boot.type # "cdrom"
  /\ pc' = "free"
  /\ UNCHANGED <<config, boot, blkdev, i, menu, n, entry, image, from, loaded,
                 outcome>>

\* The kernel is entered whatever it is, and may come back.
AosJumps ==
  /\ pc = "aos" /\ loaded = entry.modules
  /\ Done("aos") \/ (pc' = "free" /\ UNCHANGED outcome)
  /\ UNCHANGED <<config, boot, blkdev, i, menu, n, entry, image, from, loaded>>

Free ==
  /\ pc = "free"
  /\ boot' = NoDev
  /\ pc' = "exit"
  /\ UNCHANGED <<config, blkdev, i, menu, n, entry, image, from, loaded, outcome>>

\* exit: a key, and back to U-Boot.
Exit ==
  /\ pc = "exit"
  /\ Done("prompt")
  /\ UNCHANGED <<config, boot, blkdev, i, menu, n, entry, image, from, loaded>>

Next ==
  \/ Start \/ DevLoad \/ Probe \/ ProbedAll \/ MagicDevLoad \/ MenuLoaded
  \/ Choose \/ Leave \/ Open \/ KernelMissing \/ KernelLoaded
  \/ Standalone \/ Linux \/ ArosModule \/ ArosFails \/ ArosJumps
  \/ AosModule \/ AosFails \/ AosJumps \/ Free \/ Exit

Spec     == Init /\ [][Next]_vars
FairSpec == Spec /\ WF_vars(Next)

-----------------------------------------------------------------------------
(* Properties.                                                             *)

LinkedEntry ==
  [root : Roots, other : BOOLEAN, modules : Nat, wrote : Roots, home : Devices]

TypeOK ==
  /\ medium \in Media
  /\ DOMAIN fs \subseteq 0 .. (Limit - 1)
  /\ \A p \in DOMAIN fs : fs[p] \in {"ext2", "sfs", "foreign"}
  /\ pc \in {"start", "dev_load", "magic", "magic_dev_load", "loaded",
             "display", "open", "kernel", "standalone", "linux", "aros",
             "aos", "free", "exit", "done"}
  /\ boot \in Devices /\ from \in Devices
  /\ blkdev \in {-1} \cup DOMAIN fs /\ i \in 0 .. Limit
  /\ menu \in Seq(LinkedEntry) /\ entry \in LinkedEntry
  /\ n \in Nat /\ loaded \in 0 .. entry.modules
  /\ image \in Images \cup {"nothing", "garbage"}
  /\ outcome \in {"running", "bootu", "bootm", "aros", "aos", "returned", "prompt"}

\* A root line that is not cut on its way: RdbPartitionTable_get() takes the
\* partition as a byte, "ide 0:0" (-1) to "ide 0:256" (255), and knows the first
\* disk only.  Of others, "ide 0:257" is loaded from partition 0 and "ide 1:1"
\* from the first disk: KernelFromWanted says nothing of them.
Uncut(root) == root.type = "ide" => root.num = 0 /\ root.part \in -1 .. 255

\* Where an entry's files are: on the device its root line names, or, without
\* one, on the device its menu file was read from.  There is only the first
\* disk, with the partitions of the table.
Wanted(e) ==
  CASE e.wrote.type = "default" -> e.home
    [] e.wrote.type = "ide" ->
         IF e.wrote.num = 0 /\ e.wrote.part \in DOMAIN fs
         THEN [type |-> fs[e.wrote.part], part |-> e.wrote.part] ELSE NoDev
    [] OTHER -> [type |-> e.wrote.type, part |-> 0]

\* The kernel comes from where the entry's files are, although the device of
\* its menu file was closed long before and every later partition's menu put
\* the stamp of its own partition on the list.  One that names a partition that
\* is not there comes from nowhere: nothing is loaded.
KernelFromWanted ==
  (from # NoDev /\ Uncut(entry.wrote)) => from = Wanted(entry)

\* Whenever an ext2 handle is about to be used, U-Boot's one current ext2
\* partition is the handle's.
Ext2Current == boot.type = "ext2" => blkdev = boot.part

\* An entry without a root line is never opened without a device: either the
\* booting device is still there or the entry carries the stamp.
DefaultHasDevice ==
  (pc = "open" /\ entry.wrote.type = "default") =>
    (entry.root.type = "default" => boot # NoDev)

\* With somebody to choose an entry, and whatever fails, the boot comes to an
\* end: a kernel runs, or the user is told.
BootEnds == <>(pc = "done")
=============================================================================
