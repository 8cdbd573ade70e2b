----------------------------- MODULE ElfLoader -----------------------------
(***************************************************************************)
(* The ELF loader (src/src/elf.c: load_elf_file, load_hunk, relocate) and  *)
(* the loop of testboot_aros() that loads the kernel and its modules with  *)
(* it.                                                                     *)
(*                                                                         *)
(* Memory grows from Base both ways: read-only hunks upwards (ptr_ro),     *)
(* writable ones downwards (ptr_rw).  Code runs at its address plus Virt.  *)
(* Addresses are words modulo Word.  `hunks' and `fits' are history: the   *)
(* hunks placed so far, and whether all of them fitted between address 0   *)
(* and the end of the virtual addresses; nothing in the code looks.        *)
(*                                                                         *)
(* A section carries its type, its flags, its size and alignment; one of   *)
(* type "rela" carries the number of the section it changes and its        *)
(* relocations, each with the symbol it names.  "table" stands for symbol  *)
(* and string tables.  `mem' maps each address relocated to what is stored *)
(* in the field there.  Debug symbols are left out of debug_info.          *)
(***************************************************************************)
EXTENDS Integers, Sequences, FiniteSetsExt

CONSTANTS
  Boots,   \* the sequences of files considered, the kernel's first
  Half,    \* 2^16
  Reach,   \* 2^25, how far a relative branch goes
  Base,    \* KERNEL_PHYS_BASE
  Virt,    \* KERNEL_VIRT_BASE - KERNEL_PHYS_BASE as a word
  Buffer,  \* where the file read lies
  MaxBss   \* MAX_BSS_SECTIONS

Word == Half * Half

Symbol ==
  [kind : {"section", "undef", "common", "abs", "sysbase"},
   section : Nat, value : Nat]
Reloc ==
  [type : {"addr32", "lo", "ha", "rel24", "rel32", "none", "unknown"},
   sym : Symbol, offset : Nat, addend : Int]
Section ==
  [type : {"progbits", "nobits", "table", "rela"}, alloc : BOOLEAN,
   write : BOOLEAN, exec : BOOLEAN, size : Nat, align : Nat \ {0},
   info : Nat, relocs : Seq(Reloc)]
File == [good : BOOLEAN, sh : Seq(Section)]

ASSUME WordAssumption == Half \in Nat \ {0} /\ Reach \in Nat \ {0}
\* A branch counts in fours, and its range wraps where words do.
ASSUME ReachAssumption == ((2 * Reach) % 4) = 0 /\ (Word % (2 * Reach)) = 0
ASSUME PlaceAssumption ==
  /\ Virt \in 1 .. (Word - 1)
  /\ Base \in 1 .. (Word - Virt - 1)
  /\ Buffer \in 1 .. (Word - 1)
ASSUME BootAssumption == Boots \subseteq Seq(File) /\ <<>> \notin Boots
ASSUME BssAssumption == MaxBss \in Nat

VARIABLES
  files,       \* what the menu entry names
  k,           \* the file being loaded
  pc,
  i, j,        \* the section, and its relocation, looked at next
  addr,        \* the addr fields of the section headers of file k
  ptr_ro,
  ptr_rw,
  tracker,     \* the bss sections, for the kernel
  mem,
  debug_info,
  hunks,
  fits

place == <<ptr_ro, ptr_rw, tracker, hunks, fits>>
vars  == <<files, k, pc, i, j, addr, place, mem, debug_info>>

sh == files[k].sh

Init ==
  /\ files \in Boots
  /\ k = 1 /\ pc = "header" /\ i = 1 /\ j = 1
  /\ addr = <<>>
  /\ ptr_ro = Base /\ ptr_rw = Base
  /\ tracker = <<>> /\ mem = <<>> /\ debug_info = <<>>
  /\ hunks = <<>> /\ fits = TRUE

\* check_header(); relocatable files have no addresses yet.
CheckHeader ==
  /\ pc = "header"
  /\ pc' = IF files[k].good THEN "hunks" ELSE "failed"
  /\ i' = 1 /\ addr' = [x \in DOMAIN sh |-> 0]
  /\ UNCHANGED <<files, k, j, place, mem, debug_info>>

-----------------------------------------------------------------------------
(* load_hunk().                                                            *)

\* Slip: empty sections loaded like others.
EmptyNever(s) == FALSE

Empty(s) == s.size = 0

\* & ~(align - 1), for an alignment that is a power of two.
Rounded(x, align) == x - (x % align)

\* Slips: the place rounded up; the room for the alignment forgotten.
RwPlaceUp(s) == Rounded((ptr_rw - s.size + s.align - 1) % Word, s.align)
RoPlaceDown(s) == Rounded(ptr_ro, s.align)

\* Where load_hunk() places a writable section and a read-only one.
RwPlace(s) == Rounded((ptr_rw - s.size - s.align + 1) % Word, s.align)

RoPlace(s) == Rounded((ptr_ro + s.align - 1) % Word, s.align)

\* Address 0 does not count: in a header it means `not loaded'.
Fits(s) ==
  IF s.write THEN ptr_rw - s.size - s.align + 1 >= 0 /\ RwPlace(s) > 0
  ELSE ptr_ro + s.align - 1 + s.size < Word - Virt

Virtual(x) == (x + Virt) % Word

\* Slip: the kernel told where its bss was loaded, not where it runs.
TrackedPhysical(s, at) ==
  IF s.type = "nobits"
  THEN Append(tracker, [addr |-> at, length |-> s.size]) ELSE tracker

Tracked(s, at) ==
  IF s.type = "nobits"
  THEN Append(tracker, [addr |-> Virtual(at), length |-> s.size]) ELSE tracker

LoadHunk ==
  /\ pc = "hunks" /\ i \in DOMAIN sh
  /\ sh[i].type # "table" /\ sh[i].alloc /\ ~Empty(sh[i])
  /\ LET s  == sh[i]
         at == IF s.write THEN RwPlace(s) ELSE RoPlace(s)
     IN  /\ ptr_rw' = IF s.write THEN at ELSE ptr_rw
         /\ ptr_ro' = IF s.write THEN ptr_ro ELSE (at + s.size) % Word
         /\ addr' = [addr EXCEPT ![i] = at]
         /\ tracker' = Tracked(s, at)
         /\ mem' = [x \in DOMAIN mem \ (at .. (at + s.size - 1)) |-> mem[x]]
         /\ hunks' = Append(hunks,
              [file |-> k, sec |-> i, addr |-> at, size |-> s.size,
               align |-> s.align, write |-> s.write, exec |-> s.exec,
               bss |-> s.type = "nobits"])
         /\ fits' = (fits /\ Fits(s))
  /\ i' = i + 1
  /\ UNCHANGED <<files, k, pc, j, debug_info>>

\* Tables are used where the file lies; the rest is not for memory.
PassSection ==
  /\ pc = "hunks" /\ i \in DOMAIN sh
  /\ sh[i].type = "table" \/ ~sh[i].alloc \/ Empty(sh[i])
  /\ addr' = IF sh[i].type = "table" THEN [addr EXCEPT ![i] = Buffer] ELSE addr
  /\ i' = i + 1
  /\ UNCHANGED <<files, k, pc, j, place, mem, debug_info>>

InMemory(s) == s.type = "rela" /\ s.info \in DOMAIN sh /\ addr[s.info] # 0

\* Relocations of a section with an address are used where the file lies.
Reached(x) ==
  IF x \in DOMAIN sh /\ InMemory(sh[x]) THEN [addr EXCEPT ![x] = Buffer] ELSE addr

HunksLoaded ==
  /\ pc = "hunks" /\ i \notin DOMAIN sh
  /\ pc' = "relocs" /\ i' = 1 /\ j' = 1
  /\ addr' = Reached(1)
  /\ UNCHANGED <<files, k, place, mem, debug_info>>

-----------------------------------------------------------------------------
(* relocate().                                                             *)

Relocating ==
  /\ pc = "relocs" /\ i \in DOMAIN sh
  /\ InMemory(sh[i]) /\ j \in DOMAIN sh[i].relocs

Unresolved(r) == r.sym.kind \in {"undef", "common"} \/ r.type = "unknown"

\* Absolute symbols are shifted like others, SysBase alone is not.
Value(sym) ==
  CASE sym.kind = "sysbase" -> 4
    [] sym.kind = "abs"     -> sym.value
    [] OTHER                -> addr[sym.section] + sym.value
Shift(sym) == IF sym.kind = "sysbase" THEN 0 ELSE Virt

Carry(x) == IF (x % Half) >= Half \div 2 THEN 1 ELSE 0

\* Slip: the plain high half.
HighHalfPlain(x) == x \div Half

\* R_PPC_ADDR16_HA: makes up for the sign of the low half.
HighHalf(x) == (x \div Half + Carry(x)) % Half

\* What is stored in the field at address p; relative ones are not shifted.
Field(r, p) ==
  LET x == (Value(r.sym) + r.addend + Shift(r.sym)) % Word
      d == (Value(r.sym) + r.addend - p) % Word
  IN  CASE r.type = "addr32" -> x
        [] r.type = "lo"     -> x % Half
        [] r.type = "ha"     -> HighHalf(x)
        [] r.type = "rel32"  -> d
        [] r.type = "rel24"  -> Rounded(d % (2 * Reach), 4)

Relocate ==
  /\ Relocating /\ ~Unresolved(sh[i].relocs[j])
  /\ LET r == sh[i].relocs[j]
         p == (addr[sh[i].info] + r.offset) % Word
     IN  mem' = IF r.type = "none" THEN mem
                ELSE [x \in DOMAIN mem \cup {p} |->
                        IF x = p THEN Field(r, p) ELSE mem[x]]
  /\ j' = j + 1
  /\ UNCHANGED <<files, k, pc, i, addr, place, debug_info>>

RelocateFails ==
  /\ Relocating /\ Unresolved(sh[i].relocs[j])
  /\ pc' = "failed"
  /\ UNCHANGED <<files, k, i, j, addr, place, mem, debug_info>>

Relocated ==
  /\ pc = "relocs" /\ i \in DOMAIN sh
  /\ ~InMemory(sh[i]) \/ j \notin DOMAIN sh[i].relocs
  /\ i' = i + 1 /\ j' = 1
  /\ addr' = Reached(i + 1)
  /\ UNCHANGED <<files, k, pc, place, mem, debug_info>>

-----------------------------------------------------------------------------
(* The list of modules for the debugger, and the next file.                *)

\* Slip: data counted too.
CodeAndData == {x \in DOMAIN sh : sh[x].alloc /\ addr[x] # 0}

Code == {x \in DOMAIN sh : sh[x].alloc /\ sh[x].exec /\ addr[x] # 0}

\* Memory for the list's element may be lacking.
Register ==
  /\ pc = "relocs" /\ i \notin DOMAIN sh
  /\ \/ debug_info' =
          <<[file |-> k,
             lowest |-> Min({Word - 1} \cup {Virtual(addr[x]) : x \in Code}),
             highest |-> Max({0} \cup
               {(Virtual(addr[x]) + sh[x].size) % Word : x \in Code})]>>
          \o debug_info
     \/ UNCHANGED debug_info
  /\ pc' = "next"
  /\ UNCHANGED <<files, k, i, j, addr, place, mem>>

NextModule ==
  /\ pc = "next" /\ k < Len(files)
  /\ k' = k + 1 /\ pc' = "header"
  /\ UNCHANGED <<files, i, j, addr, place, mem, debug_info>>

ModuleMissing ==
  /\ pc = "next" /\ k < Len(files)
  /\ pc' = "failed"
  /\ UNCHANGED <<files, k, i, j, addr, place, mem, debug_info>>

\* The kernel is entered at Base and told of ptr_rw, ptr_ro and the tracker.
Jump ==
  /\ pc = "next" /\ k = Len(files)
  /\ pc' = "jumped"
  /\ UNCHANGED <<files, k, i, j, addr, place, mem, debug_info>>

Next ==
  \/ CheckHeader \/ LoadHunk \/ PassSection \/ HunksLoaded
  \/ Relocate \/ RelocateFails \/ Relocated
  \/ Register \/ NextModule \/ ModuleMissing \/ Jump

Spec == Init /\ [][Next]_vars

-----------------------------------------------------------------------------
(* Properties.                                                             *)

Hunk ==
  [file : Nat, sec : Nat, addr : Int, size : Nat \ {0}, align : Nat \ {0},
   write : BOOLEAN, exec : BOOLEAN, bss : BOOLEAN]

TypeOK ==
  /\ k \in DOMAIN files
  /\ pc \in {"header", "hunks", "relocs", "next", "failed", "jumped"}
  /\ i \in Nat /\ j \in Nat
  /\ pc \in {"hunks", "relocs"} => i <= Len(sh) + 1
  /\ pc # "header" => addr \in [DOMAIN sh -> 0 .. (Word - 1)]
  /\ ptr_ro \in 0 .. (Word - 1) /\ ptr_rw \in 0 .. (Word - 1)
  /\ hunks \in Seq(Hunk) /\ fits \in BOOLEAN

Apart(g, h) == g.addr + g.size <= h.addr \/ h.addr + h.size <= g.addr

\* No hunk of any file lies over another, whatever their sizes, alignments,
\* order and number, as long as all fitted: loading one never overwrites
\* what was loaded and relocated before.
HunksApart ==
  fits => \A x, y \in DOMAIN hunks : x # y => Apart(hunks[x], hunks[y])

\* KernelLowest and KernelHighest enclose every hunk: nothing the kernel
\* allocates outside of them destroys a module.  Read-only hunks lie from
\* Base on, in the protected area, and writable ones below it.
HunksEnclosed ==
  fits => \A x \in DOMAIN hunks :
    LET h == hunks[x]
    IN  IF h.write THEN ptr_rw <= h.addr /\ h.addr + h.size <= Base
        ELSE Base <= h.addr /\ h.addr + h.size <= ptr_ro

\* The list walked by the kernel, which ends at the first address 0, names
\* the bss sections of all files, each once and in order, where they run, as
\* long as they are fewer than the places of the tracker: the x-th of the
\* list is hunk number of[x].
BssHanded ==
  (fits /\ Len(tracker) < MaxBss) =>
    \E of \in [DOMAIN tracker -> DOMAIN hunks] :
      /\ \A x, y \in DOMAIN tracker : x < y => of[x] < of[y]
      /\ {of[x] : x \in DOMAIN tracker} = {n \in DOMAIN hunks : hunks[n].bss}
      /\ \A x \in DOMAIN tracker :
           tracker[x] = [addr |-> hunks[of[x]].addr + Virt,
                         length |-> hunks[of[x]].size]

\* Code is read-only, and no table or relocations of a file claim to be code.
PlainCode ==
  \A f \in DOMAIN files : \A x \in DOMAIN files[f].sh :
    files[f].sh[x].exec => files[f].sh[x].type \notin {"table", "rela"}
                             /\ ~files[f].sh[x].write

\* A code address belongs to the module it was loaded from and to no other.
OneModuleEach ==
  (fits /\ PlainCode) =>
    \A x \in DOMAIN hunks, m \in DOMAIN debug_info :
      LET h == hunks[x]  d == debug_info[m]
      IN  h.exec =>
            IF h.file = d.file
            THEN d.lowest <= h.addr + Virt
                   /\ h.addr + h.size + Virt <= d.highest
            ELSE d.highest <= h.addr + Virt
                   \/ h.addr + h.size + Virt <= d.lowest

\* The hunk of a section of a file, a set of one or none.
HunkOf(f, s) ==
  {hunks[x] : x \in {y \in DOMAIN hunks : hunks[y].file = f /\ hunks[y].sec = s}}

\* The value of n as a signed number below m.
Signed(n, m) == IF n >= m \div 2 THEN n - m ELSE n

\* The addresses, each with the relocation, of the fields of file f whose
\* symbol is SysBase or in a section that was loaded, and where each symbol
\* is when the program runs.
Fields(f) ==
  UNION {{<<h.addr + s.relocs[n].offset, s.relocs[n]>> :
            n \in DOMAIN s.relocs, h \in HunkOf(f, s.info)} :
         s \in {files[f].sh[x] : x \in {y \in DOMAIN files[f].sh :
                                          files[f].sh[y].type = "rela"}}}
Meant(f, r) ==
  IF r.sym.kind = "sysbase" THEN {4 + r.addend}
  ELSE IF r.sym.kind = "section"
  THEN {h.addr + Virt + r.sym.value + r.addend : h \in HunkOf(f, r.sym.section)}
  ELSE {}

\* Every relocation of a file changes a field of its own, inside a section
\* that is no table and holds no relocations, nor does its symbol's.
WellFormed(file) ==
  LET Relas == {y \in DOMAIN file.sh :
                  file.sh[y].type = "rela" /\ file.sh[y].info \in DOMAIN file.sh}
      Target(y) == file.sh[file.sh[y].info]
  IN  /\ \A y \in Relas :
           /\ Target(y).type \notin {"table", "rela"}
           /\ \A n \in DOMAIN file.sh[y].relocs :
                LET r == file.sh[y].relocs[n]
                IN  /\ ~Empty(Target(y)) => r.offset < Target(y).size
                    /\ r.sym.kind = "section" /\ r.sym.section \in DOMAIN file.sh =>
                         file.sh[r.sym.section].type # "rela"
      /\ \A y, z \in Relas :
           \A n \in DOMAIN file.sh[y].relocs, m \in DOMAIN file.sh[z].relocs :
             LET r == file.sh[y].relocs[n]  q == file.sh[z].relocs[m]
             IN  (file.sh[y].info = file.sh[z].info /\ r.offset = q.offset
                    /\ r.type # "none" /\ q.type # "none") => y = z /\ n = m

\* When the kernel starts, every pointer, every pair of high and low halves
\* and every branch that can reach leads where its symbol was loaded: the
\* load of later files moved or overwrote none.  (A symbol of an empty
\* section has no such place.)
PointersMeet ==
  (pc = "jumped" /\ fits /\ \A f \in DOMAIN files : WellFormed(files[f])) =>
    \A f \in DOMAIN files : \A x \in Fields(f) :
      LET p == x[1]  r == x[2]
      IN  \A a \in Meant(f, r) :
            /\ r.type = "addr32" => mem[p] = a % Word
            /\ (r.type = "rel32" /\ r.sym.kind = "section") =>
                 ((p + Virt + mem[p] - a) % Word) = 0
            /\ (r.type = "rel24" /\ r.sym.kind = "section"
                  /\ a - p - Virt \in -Reach .. (Reach - 1)
                  /\ ((a - p - Virt) % 4) = 0)
                 => p + Virt + Signed(mem[p], 2 * Reach) = a
            /\ r.type = "ha" => \A y \in Fields(f) :
                 (y[2].type = "lo" /\ y[2].sym = r.sym /\ y[2].addend = r.addend)
                   => ((mem[p] * Half + Signed(mem[y[1]], Half) - a) % Word) = 0
=============================================================================
