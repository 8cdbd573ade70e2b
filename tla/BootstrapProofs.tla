--------------------------- MODULE BootstrapProofs ---------------------------
(***************************************************************************)
(* Theorems about Bootstrap, for every table, menu file and medium.        *)
(***************************************************************************)
EXTENDS Bootstrap, TLAPS

\* The file systems the program knows, by partition.
OnDisk == {[type |-> fs[p], part |-> p] : p \in {q \in DOMAIN fs : fs[q] # "foreign"}}

\* Entries whose effective root says where their files are.
Fixed ==
  {e \in LinkedEntry :
     IF e.wrote.type = "default"
     THEN e.home \in OnDisk
          /\ e.root = [type |-> "ide", num |-> 0, part |-> e.home.part]
     ELSE e.root = e.wrote}

\* Entries as linked from the menu file of device d.
Unstamped(d) ==
  {e \in LinkedEntry : e.root = e.wrote /\ e.home = d}

\* The table and U-Boot's current partition.
DiskInv ==
  /\ DOMAIN fs \subseteq 0 .. (Limit - 1)
  /\ \A p \in DOMAIN fs : fs[p] \in {"ext2", "sfs", "foreign"}
  /\ i \in 0 .. Limit
  /\ Ext2Current
  /\ boot \in Devices

\* What the list holds, phase by phase.
MenuInv ==
  /\ pc \in {"start", "dev_load"} => menu = <<>>
  /\ pc = "dev_load" => boot # NoDev
  /\ pc \in {"magic", "magic_dev_load"} => menu \in Seq(Fixed)
  /\ pc = "magic_dev_load" => boot \in OnDisk /\ boot.part = i
  /\ pc \in {"loaded", "display"} =>
       menu \in Seq(Fixed) \/ (boot # NoDev /\ menu \in Seq(Unstamped(boot)))

\* The entry chosen and the device of its kernel.
EntryInv ==
  /\ pc = "open" => entry \in Fixed \/ (boot # NoDev /\ entry \in Unstamped(boot))
  /\ pc = "kernel" /\ Uncut(entry.wrote) => boot = Wanted(entry)
  /\ pc \in {"start", "dev_load", "magic", "magic_dev_load", "loaded",
             "display", "open", "kernel"} => from = NoDev
  /\ KernelFromWanted

IInv == DiskInv /\ MenuInv /\ EntryInv

-----------------------------------------------------------------------------

\* A stamped or unstamped list is a list of such entries.
LEMMA LinkedEntries ==
  ASSUME NEW r \in ReaderResults, DiskInv
  PROVE  AsLinked(r.entries) \in Seq(Unstamped(boot))
  <1>1. r.entries \in Seq(FileEntry)
    BY ReaderAssumption
  <1> DEFINE es == r.entries
             A(k) == [root |-> es[k].root, other |-> es[k].other,
                      modules |-> es[k].modules, wrote |-> es[k].root,
                      home |-> boot]
  <1>2. \A k \in 1 .. Len(es) : A(k) \in Unstamped(boot)
    <2> SUFFICES ASSUME NEW k \in 1 .. Len(es) PROVE A(k) \in Unstamped(boot)
      OBVIOUS
    <2>1. es[k] \in FileEntry
      BY <1>1
    <2>2. /\ es[k].root \in Roots /\ es[k].other \in BOOLEAN
          /\ es[k].modules \in Nat
      BY <2>1 DEF FileEntry
    <2>3. boot \in Devices
      BY DEF DiskInv
    <2>4. A(k) \in LinkedEntry
      BY <2>2, <2>3 DEF LinkedEntry
    <2>5. QED
      BY <2>4 DEF Unstamped
  <1>3. AsLinked(es) = [k \in 1 .. Len(es) |-> A(k)]
    BY <1>1 DEF AsLinked
  <1>4. Len(es) \in Nat
    BY <1>1
  <1> HIDE DEF A, es
  <1>5. QED
    BY <1>2, <1>3, <1>4 DEF es

\* Stamping keeps fixed entries and fixes the ones of the device at hand.
LEMMA StampFixes ==
  ASSUME DiskInv, boot \in OnDisk, boot.part = i,
         NEW es \in Seq(Fixed \cup Unstamped(boot))
  PROVE  Stamped(es) \in Seq(Fixed)
  <1> DEFINE A(k) == IF es[k].root.type = "default"
                     THEN [es[k] EXCEPT !.root = [type |-> "ide", num |-> 0, part |-> i]]
                     ELSE es[k]
  <1>1. \A k \in 1 .. Len(es) : A(k) \in Fixed
    <2> SUFFICES ASSUME NEW k \in 1 .. Len(es) PROVE A(k) \in Fixed
      OBVIOUS
    <2> DEFINE e == es[k]
    <2>1. e \in Fixed \/ e \in Unstamped(boot)
      OBVIOUS
    <2> HIDE DEF e
    <2>2. CASE e \in Fixed
      <3>1. e.root.type # "default"
        BY <2>2 DEF Fixed
      <3>2. QED
        BY <2>2, <3>1 DEF e
    <2>3. CASE e \in Unstamped(boot) /\ e.root.type # "default"
      BY <2>3 DEF Unstamped, Fixed, e
    <2>4. CASE e \in Unstamped(boot) /\ e.root.type = "default"
      <3> DEFINE f == [e EXCEPT !.root = [type |-> "ide", num |-> 0, part |-> i]]
      <3>1. e \in LinkedEntry /\ e.home = boot /\ e.wrote.type = "default"
        BY <2>4 DEF Unstamped
      <3>2. [type |-> "ide", num |-> 0, part |-> i] \in Roots
        BY DEF DiskInv, Roots
      <3>3. /\ f \in LinkedEntry /\ f.home = boot /\ f.wrote = e.wrote
            /\ f.root = [type |-> "ide", num |-> 0, part |-> i]
        BY <3>1, <3>2 DEF LinkedEntry
      <3> HIDE DEF f
      <3>4. f \in Fixed
        BY <3>1, <3>3 DEF Fixed
      <3>5. QED
        BY <2>4, <3>4 DEF e, f
    <2>5. QED
      BY <2>1, <2>2, <2>3, <2>4
  <1>2. Stamped(es) = [k \in 1 .. Len(es) |-> A(k)]
    BY DEF Stamped
  <1>3. Len(es) \in Nat
    OBVIOUS
  <1> HIDE DEF A
  <1>4. QED
    BY <1>1, <1>2, <1>3

\* Lists of fixed and of fresh entries, one after the other.
LEMMA Concatenated ==
  ASSUME NEW X, NEW Y, NEW s \in Seq(X), NEW t \in Seq(Y)
  PROVE  s \o t \in Seq(X \cup Y) /\ s \in Seq(X \cup Y)
  <1>1. s \in Seq(X \cup Y) /\ t \in Seq(X \cup Y)
    OBVIOUS
  <1>2. QED
    BY <1>1

-----------------------------------------------------------------------------

\* Init establishes the inductive invariant.
LEMMA InitIInv == Init => IInv
  <1> SUFFICES ASSUME Init PROVE IInv
    OBVIOUS
  <1>1. DiskInv
    BY TableAssumption DEF Init, DiskInv, Ext2Current, NoDev, Devices
  <1>2. MenuInv /\ EntryInv
    BY DEF Init, MenuInv, EntryInv, KernelFromWanted, NoDev
  <1>3. QED
    BY <1>1, <1>2 DEF IInv

\* The sets of entries depend on the disk only.
LEMMA SameDisk ==
  ASSUME UNCHANGED fs
  PROVE  /\ OnDisk' = OnDisk /\ Fixed' = Fixed
         /\ \A d : Unstamped(d)' = Unstamped(d)
         /\ \A e : Wanted(e)' = Wanted(e)
  BY DEF OnDisk, Fixed, Unstamped, Wanted, LinkedEntry, Devices, NoDev

\* Opening a partition keeps U-Boot's current partition and the handle
\* together.
LEMMA OpenKeeps ==
  ASSUME DiskInv, NEW p \in DOMAIN fs, OpenPartition(p)
  PROVE  /\ boot' \in Devices /\ (boot'.type = "ext2" => blkdev' = boot'.part)
         /\ boot' # NoDev =>
              /\ boot' = [type |-> fs[p], part |-> p]
              /\ boot' \in OnDisk /\ boot'.part = p
  BY DEF DiskInv, OpenPartition, Devices, NoDev, OnDisk

\* Looking for the menus: the booting device, and every partition in turn.
LEMMA FindInv ==
  ASSUME IInv, Start \/ DevLoad \/ Probe \/ ProbedAll \/ MagicDevLoad \/ MenuLoaded
  PROVE  IInv'
  <1>0. DiskInv /\ MenuInv /\ EntryInv
    BY DEF IInv
  <1>1. /\ UNCHANGED <<fs, entry, image, from>> /\ OnDisk' = OnDisk /\ Fixed' = Fixed
        /\ \A d : Unstamped(d)' = Unstamped(d)
        /\ \A e : Wanted(e)' = Wanted(e)
    <2>1. UNCHANGED <<fs, entry, image, from>>
      BY DEF Start, DevLoad, Probe, ProbedAll, MagicDevLoad, MenuLoaded, config
    <2>2. QED
      BY <2>1, SameDisk
  <1>2. EntryInv'
    BY <1>0, <1>1 DEF EntryInv, KernelFromWanted, Start, DevLoad, Probe,
       ProbedAll, MagicDevLoad, MenuLoaded
  <1>3. CASE Start
    <2>1. /\ menu = <<>> /\ menu' = <<>> /\ i' = i /\ blkdev' = blkdev
          /\ boot' \in {NoDev, [type |-> "tftp", part |-> 0],
                        [type |-> "cdrom", part |-> 0]}
          /\ pc' = IF boot' = NoDev THEN "magic" ELSE "dev_load"
      BY <1>0, <1>3 DEF Start, MenuInv, OpenTftp, OpenCdrom
    <2>2. DiskInv'
      BY <1>0, <1>1, <2>1 DEF DiskInv, Ext2Current, Devices, NoDev
    <2>3. MenuInv'
      BY <2>1, <1>1 DEF MenuInv
    <2>4. QED
      BY <1>2, <2>2, <2>3 DEF IInv
  <1>4. CASE DevLoad
    <2>1. /\ menu = <<>> /\ boot # NoDev /\ UNCHANGED <<i, blkdev, boot>>
          /\ pc' = "loaded"
      BY <1>0, <1>4 DEF DevLoad, MenuInv
    <2>2. menu' \in Seq(Unstamped(boot))
      <3>1. CASE NoFile
        BY <2>1, <3>1 DEF NoFile
      <3>2. CASE \E r \in ReaderResults : FileRead(r)
        <4>1. PICK r \in ReaderResults : FileRead(r)
          BY <3>2
        <4>2. AsLinked(r.entries) \in Seq(Unstamped(boot))
          BY <1>0, LinkedEntries
        <4>3. menu' = <<>> \o AsLinked(r.entries)
          BY <2>1, <4>1 DEF FileRead
        <4>4. QED
          BY <4>2, <4>3
      <3>3. QED
        BY <1>4, <3>1, <3>2 DEF DevLoad
    <2>3. DiskInv'
      BY <1>0, <1>1, <2>1 DEF DiskInv, Ext2Current
    <2>4. MenuInv'
      BY <1>1, <2>1, <2>2 DEF MenuInv
    <2>5. QED
      BY <1>2, <2>3, <2>4 DEF IInv
  <1>5. CASE Probe
    <2>1. /\ pc = "magic" /\ i < Limit /\ i % 256 \in DOMAIN fs /\ OpenPartition(i)
          /\ IF boot' = NoDev THEN i' = i + 1 /\ UNCHANGED pc
                              ELSE pc' = "magic_dev_load" /\ UNCHANGED i
          /\ menu' = menu
      BY <1>5 DEF Probe, InTable
    <2>2. i \in DOMAIN fs
      <3>1. i \in 0 .. 255
        BY <1>0, <2>1, TableAssumption DEF DiskInv
      <3>2. i % 256 = i
        BY <3>1
      <3>3. QED
        BY <2>1, <3>2
    <2>3. DiskInv'
      BY <1>0, <1>1, <2>1, <2>2, OpenKeeps, TableAssumption DEF DiskInv, Ext2Current
    <2>4. MenuInv'
      BY <1>0, <1>1, <2>1, <2>2, OpenKeeps DEF MenuInv
    <2>5. QED
      BY <1>2, <2>3, <2>4 DEF IInv
  <1>6. CASE ProbedAll \/ MenuLoaded
    <2>1. /\ UNCHANGED <<boot, blkdev, i, menu>>
          /\ \/ pc = "magic" /\ pc' = "loaded"
             \/ pc = "loaded" /\ pc' \in {"exit", "display"}
      BY <1>6 DEF ProbedAll, MenuLoaded
    <2>2. DiskInv' /\ MenuInv'
      BY <1>0, <1>1, <2>1 DEF DiskInv, Ext2Current, MenuInv
    <2>3. QED
      BY <1>2, <2>2 DEF IInv
  <1>7. CASE MagicDevLoad
    <2>1. /\ pc = "magic_dev_load" /\ pc' = "magic" /\ boot' = NoDev
          /\ i' = i + 1 /\ blkdev' = blkdev
          /\ menu \in Seq(Fixed) /\ boot \in OnDisk /\ boot.part = i
      BY <1>0, <1>7 DEF MagicDevLoad, MenuInv
    <2>2. menu' \in Seq(Fixed)
      <3>1. CASE menu' = Stamped(menu)
        <4>1. menu \in Seq(Fixed \cup Unstamped(boot))
          BY <2>1
        <4>2. QED
          BY <1>0, <2>1, <3>1, <4>1, StampFixes
      <3>2. CASE \E r \in ReaderResults : menu' = Stamped(menu \o AsLinked(r.entries))
        <4>1. PICK r \in ReaderResults : menu' = Stamped(menu \o AsLinked(r.entries))
          BY <3>2
        <4>2. AsLinked(r.entries) \in Seq(Unstamped(boot))
          BY <1>0, LinkedEntries
        <4>3. menu \o AsLinked(r.entries) \in Seq(Fixed \cup Unstamped(boot))
          BY <2>1, <4>2, Concatenated
        <4>4. QED
          BY <1>0, <2>1, <4>1, <4>3, StampFixes
      <3>3. QED
        BY <1>7, <3>1, <3>2 DEF MagicDevLoad
    <2>3. i < Limit
      BY <1>0, <2>1, TableAssumption DEF DiskInv, OnDisk
    <2>4. DiskInv'
      BY <1>0, <1>1, <2>1, <2>3, TableAssumption DEF DiskInv, Ext2Current, NoDev, Devices
    <2>5. MenuInv'
      BY <1>1, <2>1, <2>2 DEF MenuInv
    <2>6. QED
      BY <1>2, <2>4, <2>5 DEF IInv
  <1>8. QED
    BY <1>3, <1>4, <1>5, <1>6, <1>7

\* Choosing an entry of the list, or none.
LEMMA ChooseInv ==
  ASSUME IInv, Choose \/ Leave
  PROVE  IInv'
  <1>0. /\ DiskInv /\ MenuInv /\ EntryInv /\ pc = "display" /\ from = NoDev
        /\ UNCHANGED <<fs, boot, blkdev, i, menu, from>>
        /\ pc' \in {"done", "open", "exit"}
    BY DEF IInv, Choose, Leave, Done, config, EntryInv
  <1>1. /\ OnDisk' = OnDisk /\ Fixed' = Fixed
        /\ \A d : Unstamped(d)' = Unstamped(d)
        /\ \A e : Wanted(e)' = Wanted(e)
    BY <1>0, SameDisk
  <1>2. DiskInv' /\ MenuInv'
    BY <1>0, <1>1 DEF DiskInv, Ext2Current, MenuInv
  <1>3. pc' = "open" =>
          entry' \in Fixed \/ (boot # NoDev /\ entry' \in Unstamped(boot))
    <2> SUFFICES ASSUME pc' = "open"
                 PROVE  entry' \in Fixed \/ (boot # NoDev /\ entry' \in Unstamped(boot))
      OBVIOUS
    <2>1. PICK k \in DOMAIN menu : entry' = menu[k]
      BY DEF Choose, Leave
    <2>2. CASE menu \in Seq(Fixed)
      BY <2>1, <2>2
    <2>3. CASE boot # NoDev /\ menu \in Seq(Unstamped(boot))
      BY <2>1, <2>3
    <2>4. QED
      BY <1>0, <2>2, <2>3 DEF MenuInv
  <1>4. EntryInv'
    BY <1>0, <1>1, <1>3 DEF EntryInv, KernelFromWanted
  <1>5. QED
    BY <1>2, <1>4 DEF IInv

\* Opening the entry's device gives the device its files are on, or none.
LEMMA OpenInv ==
  ASSUME IInv, Open
  PROVE  IInv'
  <1>0. /\ DiskInv /\ MenuInv /\ EntryInv /\ pc = "open" /\ from = NoDev
        /\ UNCHANGED <<fs, i, menu, entry, from>>
        /\ pc' = IF boot' = NoDev THEN "exit" ELSE "kernel"
        /\ entry \in Fixed \/ (boot # NoDev /\ entry \in Unstamped(boot))
    BY DEF IInv, Open, config, EntryInv
  <1>1. /\ OnDisk' = OnDisk /\ Fixed' = Fixed
        /\ \A d : Unstamped(d)' = Unstamped(d)
        /\ \A e : Wanted(e)' = Wanted(e)
    BY <1>0, SameDisk
  <1>2. entry.root.type \in {"default", "ide", "tftp", "cdrom"}
    <2>1. entry \in LinkedEntry
      BY <1>0 DEF Fixed, Unstamped
    <2>2. entry.root \in Roots
      BY <2>1 DEF LinkedEntry
    <2>3. QED
      BY <2>2 DEF Roots
  <1>3. /\ boot' \in Devices
        /\ boot'.type = "ext2" => blkdev' = boot'.part
        /\ boot' # NoDev /\ Uncut(entry.wrote) => boot' = Wanted(entry)
    <2>1. CASE entry.root.type = "ide" /\ InTable(entry.root.part)
      <3> DEFINE p == entry.root.part % 256
      <3>1. p \in DOMAIN fs /\ OpenPartition(p)
        BY <2>1 DEF Open, InTable
      <3>2. boot' # NoDev => boot' = [type |-> fs[p], part |-> p]
        BY <1>0, <3>1, OpenKeeps
      <3>3. Uncut(entry.wrote) => Wanted(entry) = [type |-> fs[p], part |-> p]
        <4>1. CASE entry.wrote.type = "default"
          <5>1. entry \in Fixed
            BY <1>0, <2>1, <4>1 DEF Unstamped
          <5>2. PICK q \in DOMAIN fs : entry.home = [type |-> fs[q], part |-> q]
            BY <4>1, <5>1 DEF Fixed, OnDisk
          <5>3. entry.root.part = q
            BY <4>1, <5>1, <5>2 DEF Fixed
          <5>4. q \in 0 .. 254
            BY <1>0, TableAssumption DEF DiskInv
          <5>5. p = q
            BY <5>3, <5>4
          <5>6. QED
            BY <4>1, <5>2, <5>5 DEF Wanted
        <4>2. CASE entry.wrote.type # "default"
          <5>1. entry.root = entry.wrote
            BY <1>0, <4>2 DEF Fixed, Unstamped
          <5>2. PICK q : q = entry.wrote.part
            OBVIOUS
          <5>3. ASSUME Uncut(entry.wrote) PROVE p = q /\ entry.wrote.num = 0
            <6>1. entry.wrote.num = 0 /\ q \in -1 .. 255
              BY <2>1, <5>1, <5>2, <5>3 DEF Uncut
            <6>2. q % 256 \in 0 .. 254
              BY <1>0, <3>1, <5>1, <5>2, TableAssumption DEF DiskInv
            <6>3. q \in -1 .. 255
              BY <6>1
            <6>4. q \in 0 .. 255
              BY ONLY <6>2, <6>3
            <6>5. q % 256 = q
              BY ONLY <6>4
            <6>6. QED
              BY <5>1, <5>2, <6>1, <6>5
          <5>4. QED
            BY <2>1, <3>1, <5>1, <5>2, <5>3 DEF Wanted
        <4>3. QED
          BY <4>1, <4>2
      <3> HIDE DEF p
      <3>4. QED
        BY <1>0, <3>1, <3>2, <3>3, OpenKeeps
    <2>2. CASE entry.root.type = "ide" /\ ~InTable(entry.root.part)
      BY <2>2 DEF Open, Devices, NoDev
    <2>3. CASE entry.root.type \in {"tftp", "cdrom"}
      <3>1. entry.root = entry.wrote
        BY <1>0, <2>3 DEF Fixed, Unstamped
      <3>2. boot' \in {NoDev, [type |-> entry.root.type, part |-> 0]}
        BY <2>3 DEF Open, OpenTftp, OpenCdrom
      <3>3. QED
        BY <2>3, <3>1, <3>2 DEF Wanted, Devices, NoDev
    <2>4. CASE entry.root.type = "default"
      <3>1. entry \in Unstamped(boot)
        BY <1>0, <2>4 DEF Fixed
      <3>2. entry.home = boot /\ entry.wrote.type = "default"
        BY <2>4, <3>1 DEF Unstamped
      <3>3. UNCHANGED <<boot, blkdev>>
        BY <2>4 DEF Open
      <3>4. QED
        BY <1>0, <3>2, <3>3 DEF Wanted, DiskInv, Ext2Current
    <2>5. QED
      BY <1>2, <2>1, <2>2, <2>3, <2>4
  <1>4. DiskInv'
    BY <1>0, <1>3 DEF DiskInv, Ext2Current
  <1>5. MenuInv' /\ EntryInv'
    BY <1>0, <1>1, <1>3 DEF MenuInv, EntryInv, KernelFromWanted
  <1>6. QED
    BY <1>4, <1>5 DEF IInv

\* Loading the kernel and running the handlers.
LEMMA RunInv ==
  ASSUME IInv,
         \/ KernelMissing \/ KernelLoaded \/ Standalone \/ Linux
         \/ ArosModule \/ ArosFails \/ ArosJumps
         \/ AosModule \/ AosFails \/ AosJumps \/ Free \/ Exit
  PROVE  IInv'
  <1>0. /\ DiskInv /\ MenuInv /\ EntryInv
        /\ UNCHANGED <<fs, i, menu, entry, blkdev>>
        /\ boot' \in {boot, NoDev}
        /\ pc' \in {"standalone", "linux", "aros", "aos", "free", "exit", "done"}
        /\ \/ from' = from
           \/ pc = "kernel" /\ from' = boot
    BY DEF IInv, KernelMissing, KernelLoaded, Standalone, Linux, HandlerTries,
       ArosModule, ArosFails, ArosJumps, AosModule, AosFails, AosJumps,
       LoadModule, Free, Exit, Done, config
  <1>1. \A e : Wanted(e)' = Wanted(e)
    BY <1>0, SameDisk
  <1>2. DiskInv'
    BY <1>0 DEF DiskInv, Ext2Current, Devices, NoDev
  <1>3. MenuInv'
    BY <1>0 DEF MenuInv
  <1>4. EntryInv'
    BY <1>0, <1>1 DEF EntryInv, KernelFromWanted
  <1>5. QED
    BY <1>2, <1>3, <1>4 DEF IInv

\* The invariant is inductive.
LEMMA NextIInv == IInv /\ [Next]_vars => IInv'
  <1> SUFFICES ASSUME IInv, [Next]_vars PROVE IInv'
    OBVIOUS
  <1>1. CASE Start \/ DevLoad \/ Probe \/ ProbedAll \/ MagicDevLoad \/ MenuLoaded
    BY <1>1, FindInv
  <1>2. CASE Choose \/ Leave
    BY <1>2, ChooseInv
  <1>3. CASE Open
    BY <1>3, OpenInv
  <1>4. CASE \/ KernelMissing \/ KernelLoaded \/ Standalone \/ Linux
             \/ ArosModule \/ ArosFails \/ ArosJumps
             \/ AosModule \/ AosFails \/ AosJumps \/ Free \/ Exit
    BY <1>4, RunInv
  <1>5. CASE UNCHANGED vars
    <2>1. UNCHANGED <<fs, pc, boot, blkdev, i, menu, entry, from>>
      BY <1>5 DEF vars, config
    <2>2. /\ OnDisk' = OnDisk /\ Fixed' = Fixed
          /\ \A d : Unstamped(d)' = Unstamped(d)
          /\ \A e : Wanted(e)' = Wanted(e)
      BY <2>1, SameDisk
    <2>3. QED
      BY <2>1, <2>2 DEF IInv, DiskInv, Ext2Current, MenuInv, EntryInv,
         KernelFromWanted
  <1>6. QED
    BY <1>1, <1>2, <1>3, <1>4, <1>5 DEF Next

\* Every reachable state satisfies the inductive invariant.
LEMMA Inductive == Spec => []IInv
  <1>1. QED
    BY InitIInv, NextIInv, PTL DEF Spec

\* For every number of partitions, file systems, menu files and failures: the
\* kernel is loaded from the device its entry's root line names or, without
\* one, from the device its menu file was read from.
THEOREM KernelIsFromWanted == Spec => []KernelFromWanted
  <1>1. IInv => KernelFromWanted
    BY DEF IInv, EntryInv
  <1>2. QED
    BY <1>1, Inductive, PTL

\* An ext2 handle is only ever used while U-Boot's current partition is its
\* own.
THEOREM Ext2IsCurrent == Spec => []Ext2Current
  <1>1. IInv => Ext2Current
    BY DEF IInv, DiskInv
  <1>2. QED
    BY <1>1, Inductive, PTL

\* An entry without a root line is opened with a device or a stamp.
THEOREM DefaultAlwaysHasDevice == Spec => []DefaultHasDevice
  <1>1. IInv => DefaultHasDevice
    BY DEF IInv, EntryInv, DefaultHasDevice, Fixed
  <1>2. QED
    BY <1>1, Inductive, PTL
-----------------------------------------------------------------------------

\* No module is loaded before the handlers that load modules are tried: the
\* entry is chosen while the count is 0, so it never exceeds the entry's.
NothingYet ==
  pc \in {"start", "dev_load", "magic", "magic_dev_load", "loaded", "display",
          "open", "kernel", "standalone"} => loaded = 0

TypeInv == TypeOK /\ NothingYet

\* The phases in which the list may still grow.
Listing ==
  {"start", "dev_load", "magic", "magic_dev_load", "loaded", "display"}

\* What the phases say of the list makes it a list of entries.
LEMMA MenuTyped == IInv /\ pc \in Listing => menu \in Seq(LinkedEntry)
  <1> SUFFICES ASSUME IInv, pc \in Listing PROVE menu \in Seq(LinkedEntry)
    OBVIOUS
  <1>1. /\ \A s \in Seq(Fixed) : s \in Seq(LinkedEntry)
        /\ \A s \in Seq(Unstamped(boot)) : s \in Seq(LinkedEntry)
    <2>1. Fixed \subseteq LinkedEntry /\ Unstamped(boot) \subseteq LinkedEntry
      BY DEF Fixed, Unstamped
    <2>2. QED
      BY <2>1
  <1>2. \/ menu = <<>> \/ menu \in Seq(Fixed) \/ menu \in Seq(Unstamped(boot))
    BY DEF IInv, MenuInv, Listing
  <1>3. <<>> \in Seq(LinkedEntry)
    OBVIOUS
  <1>4. QED
    BY <1>1, <1>2, <1>3

\* Init has the right types.
LEMMA InitTypeInv == Init => TypeInv
  <1> SUFFICES ASSUME Init PROVE TypeInv
    OBVIOUS
  <1>1. NoEntry \in LinkedEntry /\ NoEntry.modules = 0
    BY DEF NoEntry, LinkedEntry, Roots, Devices, NoDev
  <1>2. /\ DOMAIN fs \subseteq 0 .. (Limit - 1)
        /\ \A p \in DOMAIN fs : fs[p] \in {"ext2", "sfs", "foreign"}
    BY TableAssumption DEF Init
  <1>3. QED
    BY <1>1, <1>2, TableAssumption DEF Init, TypeInv, TypeOK, NothingYet, Devices, NoDev

\* The steps that build the list keep the types.
LEMMA FindTypeInv ==
  ASSUME TypeInv, IInv, IInv',
         Start \/ DevLoad \/ Probe \/ ProbedAll \/ MagicDevLoad \/ MenuLoaded
  PROVE  TypeInv'
  <1>1. /\ UNCHANGED <<medium, fs, entry, image, from, loaded, outcome>>
        /\ pc \in Listing /\ pc' \in Listing \cup {"exit"}
    BY DEF Start, DevLoad, Probe, ProbedAll, MagicDevLoad, MenuLoaded, config, Listing
  <1>2. menu' \in Seq(LinkedEntry)
    <2>1. CASE pc' \in Listing
      <3>1. (IInv /\ pc \in Listing => menu \in Seq(LinkedEntry))'
        BY MenuTyped, PTL
      <3>2. Seq(LinkedEntry)' = Seq(LinkedEntry) /\ Listing' = Listing
        BY DEF LinkedEntry, Roots, Devices, NoDev, Listing
      <3>3. QED
        BY <2>1, <3>1, <3>2
    <2>2. CASE pc' \notin Listing
      <3>1. menu' = menu
        BY <2>2 DEF Start, DevLoad, Probe, ProbedAll, MagicDevLoad, MenuLoaded, Listing
      <3>2. QED
        BY <3>1 DEF TypeInv, TypeOK
    <2>3. QED
      BY <2>1, <2>2
  <1>3. n' \in Nat
    <2>1. \/ n' = n \/ \E r \in ReaderResults : n' = n + r.ret
      BY DEF Start, DevLoad, Probe, ProbedAll, MagicDevLoad, MenuLoaded, NoFile, FileRead
    <2>2. QED
      BY <2>1, ReaderAssumption DEF TypeInv, TypeOK
  <1>4. blkdev' \in {-1} \cup DOMAIN fs
    <2>1. CASE Probe
      <3>1. i \in 0 .. 255 /\ i % 256 \in DOMAIN fs /\ blkdev' = i
        BY <2>1, TableAssumption DEF Probe, InTable, OpenPartition, TypeInv, TypeOK
      <3>2. i % 256 = i
        BY <3>1
      <3>3. QED
        BY <3>1, <3>2
    <2>2. CASE ~Probe
      BY <2>2 DEF Start, DevLoad, ProbedAll, MagicDevLoad, MenuLoaded, TypeInv, TypeOK
    <2>3. QED
      BY <2>1, <2>2
  <1>5. boot' \in Devices /\ i' \in 0 .. Limit
    BY DEF IInv, DiskInv
  <1>6. NothingYet' /\ pc' \in Listing \cup {"exit"}
    BY <1>1 DEF TypeInv, NothingYet, Listing
  <1>7. QED
    BY <1>1, <1>2, <1>3, <1>4, <1>5, <1>6 DEF TypeInv, TypeOK, Listing

\* Choosing an entry and opening its device keep the types.
LEMMA OpenTypeInv ==
  ASSUME TypeInv, IInv, IInv', Choose \/ Leave \/ Open
  PROVE  TypeInv'
  <1>1. /\ UNCHANGED <<medium, fs, i, menu, n, image, from, loaded>>
        /\ pc \in {"display", "open"} /\ pc' \in {"open", "kernel", "exit", "done"}
        /\ outcome' \in {outcome, "bootu"}
    BY DEF Choose, Leave, Open, Done, config
  <1>2. loaded = 0 /\ loaded' = 0
    BY <1>1 DEF TypeInv, NothingYet
  <1>3. entry' \in LinkedEntry
    <2>1. entry' = entry \/ \E k \in DOMAIN menu : entry' = menu[k]
      BY DEF Choose, Leave, Open
    <2>2. menu \in Seq(LinkedEntry) /\ entry \in LinkedEntry
      BY DEF TypeInv, TypeOK
    <2>3. QED
      BY <2>1, <2>2
  <1>4. entry'.modules \in Nat
    BY <1>3 DEF LinkedEntry
  <1>5. blkdev' \in {-1} \cup DOMAIN fs
    <2>1. CASE Open
      <3>1. \/ blkdev' = blkdev
            \/ InTable(entry.root.part) /\ blkdev' = entry.root.part % 256
        <4>1. entry.root.type \in {"default", "ide", "tftp", "cdrom"}
          BY DEF TypeInv, TypeOK, LinkedEntry, Roots
        <4>2. QED
          BY <2>1, <4>1 DEF Open, OpenPartition
      <3>2. QED
        BY <3>1 DEF InTable, TypeInv, TypeOK
    <2>2. CASE Choose \/ Leave
      BY <2>2 DEF Choose, Leave, TypeInv, TypeOK
    <2>3. QED
      BY <2>1, <2>2
  <1>6. boot' \in Devices
    BY DEF IInv, DiskInv
  <1>7. QED
    BY <1>1, <1>2, <1>3, <1>4, <1>5, <1>6 DEF TypeInv, TypeOK, NothingYet

\* Loading and the handlers keep the types.
LEMMA RunTypeInv ==
  ASSUME TypeInv, IInv, IInv',
         \/ KernelMissing \/ KernelLoaded \/ Standalone \/ Linux
         \/ ArosModule \/ ArosFails \/ ArosJumps
         \/ AosModule \/ AosFails \/ AosJumps \/ Free \/ Exit
  PROVE  TypeInv'
  <1>1. /\ UNCHANGED <<medium, fs, i, menu, n, entry, blkdev>>
        /\ pc' \in {"standalone", "linux", "aros", "aos", "free", "exit", "done"}
        /\ from' \in {from, boot}
        /\ image' \in Images \cup {image, "garbage"}
        /\ outcome' \in {outcome, "returned", "bootm", "aros", "aos", "prompt"}
    BY DEF KernelMissing, KernelLoaded, Standalone, Linux, HandlerTries,
       ArosModule, ArosFails, ArosJumps, AosModule, AosFails, AosJumps,
       LoadModule, Free, Exit, Done, config
  <1>2. entry.modules \in Nat
    BY DEF TypeInv, TypeOK, LinkedEntry
  <1>3. /\ loaded' \in 0 .. entry.modules
        /\ pc' = "standalone" => loaded' = 0
    BY <1>2 DEF TypeInv, TypeOK, NothingYet, KernelMissing, KernelLoaded,
       Standalone, Linux, HandlerTries, ArosModule, ArosFails, ArosJumps,
       AosModule, AosFails, AosJumps, LoadModule, Free, Exit, Done
  <1>4. boot' \in Devices /\ boot \in Devices
    BY DEF IInv, DiskInv
  <1>5. QED
    BY <1>1, <1>3, <1>4 DEF TypeInv, TypeOK, NothingYet

\* Every step keeps the types.
LEMMA NextTypeInv == TypeInv /\ IInv /\ IInv' /\ [Next]_vars => TypeInv'
  <1> SUFFICES ASSUME TypeInv, IInv, IInv', [Next]_vars PROVE TypeInv'
    OBVIOUS
  <1>1. CASE Start \/ DevLoad \/ Probe \/ ProbedAll \/ MagicDevLoad \/ MenuLoaded
    BY <1>1, FindTypeInv
  <1>2. CASE Choose \/ Leave \/ Open
    BY <1>2, OpenTypeInv
  <1>3. CASE \/ KernelMissing \/ KernelLoaded \/ Standalone \/ Linux
             \/ ArosModule \/ ArosFails \/ ArosJumps
             \/ AosModule \/ AosFails \/ AosJumps \/ Free \/ Exit
    BY <1>3, RunTypeInv
  <1>4. CASE UNCHANGED vars
    BY <1>4 DEF vars, config, TypeInv, TypeOK, NothingYet
  <1>5. QED
    BY <1>1, <1>2, <1>3, <1>4 DEF Next

\* Every variable keeps its type: U-Boot is only ever told of partitions of
\* the table, every entry linked, stamped or chosen is well formed, and no
\* handler loads more modules than the entry has.
THEOREM TypeCorrect == Spec => []TypeOK
  <1>1. TypeInv => TypeOK
    BY DEF TypeInv
  <1>2. QED
    BY <1>1, InitTypeInv, NextTypeInv, Inductive, PTL DEF Spec

-----------------------------------------------------------------------------
(* How far the boot has come.                                              *)

\* The phases, in the order bootstrap() passes them.
Rank ==
  CASE pc = "start" -> 13
    [] pc = "dev_load" -> 12
    [] pc \in {"magic", "magic_dev_load"} -> 11
    [] pc = "loaded" -> 10
    [] pc = "display" -> 9
    [] pc = "open" -> 8
    [] pc = "kernel" -> 7
    [] pc = "standalone" -> 6
    [] pc = "linux" -> 5
    [] pc = "aros" -> 4
    [] pc = "aos" -> 3
    [] pc = "free" -> 2
    [] pc = "exit" -> 1
    [] pc = "done" -> 0

\* Within one: partitions to be looked at, modules to be loaded.
Togo ==
  CASE pc = "magic" -> 2 * (Limit - i) + 1
    [] pc = "magic_dev_load" -> 2 * (Limit - i)
    [] pc \in {"aros", "aos"} -> entry.modules - loaded
    [] OTHER -> 0

\* No step leaves the boot where it was, and none takes it back: whatever is on
\* the partitions and in the menu files, whichever entry is chosen, whatever
\* fails and whichever handler gives up, it goes through its phases in order,
\* each partition and each module once.
THEOREM BootGoesOn ==
  Spec => /\ [](Rank \in Nat /\ Togo \in Nat)
          /\ [][Rank' < Rank \/ (Rank' = Rank /\ Togo' < Togo)]_vars
  <1>1. ASSUME TypeOK PROVE Rank \in Nat /\ Togo \in Nat
    <2>1. /\ pc \in {"start", "dev_load", "magic", "magic_dev_load", "loaded",
                     "display", "open", "kernel", "standalone", "linux", "aros",
                     "aos", "free", "exit", "done"}
          /\ i \in 0 .. Limit /\ loaded \in 0 .. entry.modules /\ entry \in LinkedEntry
          /\ Limit \in Nat
      BY <1>1, TableAssumption DEF TypeOK
    <2>2. entry.modules \in Nat
      BY <2>1 DEF LinkedEntry
    <2>3. 2 * (Limit - i) \in Nat /\ entry.modules - loaded \in Nat
      BY <2>1, <2>2
    <2>4. Rank \in Nat
      BY <2>1 DEF Rank
    <2>5. Togo \in Nat
      BY <2>1, <2>3 DEF Togo
    <2>6. QED
      BY <2>4, <2>5
  <1>2. ASSUME TypeOK, Next PROVE Rank' < Rank \/ (Rank' = Rank /\ Togo' < Togo)
    <2>1. CASE Probe \/ MagicDevLoad
      <3>1. i \in Nat /\ Limit \in Nat
        BY <1>2, TableAssumption DEF TypeOK
      <3>2. \/ pc = "magic" /\ pc' = "magic" /\ i' = i + 1
            \/ pc = "magic" /\ pc' = "magic_dev_load" /\ i' = i
            \/ pc = "magic_dev_load" /\ pc' = "magic" /\ i' = i + 1
        BY <2>1 DEF Probe, MagicDevLoad
      <3>3. Rank' = Rank
        BY <3>2 DEF Rank
      <3>4. Togo' < Togo
        BY <3>1, <3>2 DEF Togo
      <3>5. QED
        BY <3>3, <3>4
    <2>2. CASE ArosModule \/ AosModule
      <3>1. /\ loaded \in Nat /\ entry.modules \in Nat
        BY <1>2 DEF TypeOK, LinkedEntry
      <3>2. /\ pc \in {"aros", "aos"} /\ pc' = pc
            /\ loaded' = loaded + 1 /\ entry' = entry
        BY <2>2 DEF ArosModule, AosModule, LoadModule
      <3>3. Rank' = Rank
        BY <3>2 DEF Rank
      <3>4. Togo = entry.modules - loaded /\ Togo' = entry.modules - (loaded + 1)
        BY <3>2 DEF Togo
      <3>5. QED
        BY <3>1, <3>3, <3>4
    <2>3. CASE Start \/ DevLoad \/ ProbedAll \/ MenuLoaded \/ Choose \/ Leave \/ Open
      <3>1. \/ pc = "start" /\ pc' \in {"magic", "dev_load"}
            \/ pc \in {"dev_load", "magic"} /\ pc' = "loaded"
            \/ pc = "loaded" /\ pc' \in {"exit", "display"}
            \/ pc = "display" /\ pc' \in {"done", "open", "exit"}
            \/ pc = "open" /\ pc' \in {"exit", "kernel"}
        BY <2>3 DEF Start, DevLoad, ProbedAll, MenuLoaded, Choose, Leave, Open, Done
      <3>2. QED
        BY <3>1 DEF Rank
    <2>4. CASE \/ KernelMissing \/ KernelLoaded \/ Standalone \/ Linux \/ ArosFails
               \/ ArosJumps \/ AosFails \/ AosJumps \/ Free \/ Exit
      <3>1. \/ pc = "kernel" /\ pc' \in {"done", "standalone"}
            \/ pc = "standalone" /\ pc' \in {"done", "linux"}
            \/ pc = "linux" /\ pc' \in {"done", "aros"}
            \/ pc = "aros" /\ pc' \in {"done", "aos"}
            \/ pc = "aos" /\ pc' \in {"done", "free"}
            \/ pc = "free" /\ pc' = "exit"
            \/ pc = "exit" /\ pc' = "done"
        BY <2>4 DEF KernelMissing, KernelLoaded, Standalone, Linux, HandlerTries,
           ArosFails, ArosJumps, AosFails, AosJumps, Free, Exit, Done
      <3>2. QED
        BY <3>1 DEF Rank
    <2>5. QED
      BY <1>2, <2>1, <2>2, <2>3, <2>4 DEF Next
  <1>3. TypeOK /\ [Next]_vars => [Rank' < Rank \/ (Rank' = Rank /\ Togo' < Togo)]_vars
    BY <1>2
  <1>4. QED
    BY <1>1, <1>3, TypeCorrect, PTL DEF Spec
=============================================================================
