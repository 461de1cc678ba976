------------------------------- MODULE Tables -------------------------------
(***************************************************************************)
(* The tables the CPU is given at boot: page tables (boot.asm, paging.c),  *)
(* segment descriptors (boot.asm, gdt.c, tss.c) and gates (idt.c).  An     *)
(* address is the number of its 4-KiB page in a page table, and its four   *)
(* 16-bit words, the lowest first, in a descriptor.                        *)
(***************************************************************************)
EXTENDS Integers

-----------------------------------------------------------------------------
(* Page tables *)

OneGiB == 262144
TwoMiB == 512
Page == 0 .. 4 * OneGiB - 1  \* those of the first 4 GiB

Index == 0 .. 511
Large(base) == [present |-> TRUE, base |-> base]
NotPresent == [present |-> FALSE, base |-> 0]

\* page_table_l3 of boot.asm: four pages of 1 GiB; the registers have 32 bits.
page_table_l3 ==
  [i \in Index |-> IF i < 4 THEN Large((i * OneGiB) % 1048576) ELSE NotPresent]

\* Variant: every directory begins at 0.
PdBase_Same(j, i) == i * TwoMiB

PdBase(j, i) == (j * 512 + i) * TwoMiB

\* pdpt with the directories pd0 .. pd3 of paging_init behind it.
pd == [j \in 0 .. 3 |-> [i \in Index |-> Large(PdBase(j, i))]]

Unmapped == -1

\* What the CPU makes of a page: the tables of boot.asm have large pages at
\* level 3, those of paging.c at level 2.
Translate(cr3, page) ==
  LET gib == page \div OneGiB
      l3 == page_table_l3[gib % 512]
      l2 == pd[gib % 4][(page \div TwoMiB) % 512]
  IN  IF cr3 = "page_table_l4" /\ gib < 512 /\ l3.present THEN l3.base + (page % OneGiB)
      ELSE IF cr3 = "pml4" /\ gib < 4 /\ l2.present THEN l2.base + (page % TwoMiB)
      ELSE Unmapped

-----------------------------------------------------------------------------
(* Segment descriptors *)

GDT_FLAG_GRANULARITY == 8
GDT_FLAG_LONGMODE == 2
GDT_ACCESS_PRESENT == 128
GDT_ACCESS_RING3 == 96
GDT_ACCESS_CODE == 24
GDT_ACCESS_DATA == 16
GDT_ACCESS_RW == 2

\* gdt_set_entry of a segment at 0, as all are.
gdt_set_entry(limit, access, flags) ==
  [limit_low |-> limit % 65536, base_low |-> 0, base_mid |-> 0, access |-> access,
   flags_limit |-> (((limit \div 65536) % 16) + flags * 16) % 256, base_high |-> 0]

NullEntry == gdt_set_entry(0, 0, 0)

\* tmp_gdt of boot.asm: null and 0x00AF9A000000FFFF.
tmp_gdt == [i \in 0 .. 1 |-> IF i = 0 THEN NullEntry ELSE gdt_set_entry(1048575, 154, 10)]

\* What gdt_init writes: code and data of the kernel, data and code of a user.
KernelGdt ==
  LET rw == GDT_ACCESS_PRESENT + GDT_ACCESS_RW
      user == rw + GDT_ACCESS_RING3
      long == GDT_FLAG_GRANULARITY + GDT_FLAG_LONGMODE
      entries == <<NullEntry,
                   gdt_set_entry(0, rw + GDT_ACCESS_CODE, long),
                   gdt_set_entry(0, rw + GDT_ACCESS_DATA, GDT_FLAG_GRANULARITY),
                   gdt_set_entry(0, user + GDT_ACCESS_DATA, GDT_FLAG_GRANULARITY),
                   gdt_set_entry(0, user + GDT_ACCESS_CODE, long),
                   NullEntry, NullEntry>>
  IN  [i \in 0 .. 6 |-> entries[i + 1]]

\* gdt_set_tss_entry: the two slots of the descriptor.
TssLow(base, limit) ==
  [limit_low |-> limit % 65536, base_low |-> base[1], base_mid |-> base[2] % 256,
   access |-> 137, flags_limit |-> (limit \div 65536) % 16, base_high |-> base[2] \div 256]
TssHigh(base) ==
  [limit_low |-> base[3], base_low |-> base[4], base_mid |-> 0,
   access |-> 0, flags_limit |-> 0, base_high |-> 0]

TssLimit == 103  \* sizeof(tss_entry) - 1

\* The CPU marks the descriptor that ltr loads as busy.
Busy(entry) == [entry EXCEPT !.access = @ + 2]

-----------------------------------------------------------------------------
(* Gates *)

GateFlags(vector) == IF vector = 128 THEN 238 ELSE 142

idt_set_gate(stub, flags) ==
  [offset_low |-> stub[1], selector |-> 8, ist |-> 0, type_attr |-> flags,
   offset_mid |-> stub[2], offset_high |-> <<stub[3], stub[4]>>]

-----------------------------------------------------------------------------
(* What the CPU reads in an entry *)

Bit(byte, weight) == (byte \div weight) % 2 = 1
Dpl(access) == (access \div 32) % 4

\* A segment of 64-bit code, one of data that may be written, a TSS in use.
IsCode(e, dpl) ==
  /\ Bit(e.access, 128) /\ Bit(e.access, 16) /\ Bit(e.access, 8) /\ Dpl(e.access) = dpl
  /\ Bit(e.flags_limit, 32) /\ ~Bit(e.flags_limit, 64)
IsData(e, dpl) ==
  /\ Bit(e.access, 128) /\ Bit(e.access, 16) /\ ~Bit(e.access, 8) /\ Dpl(e.access) = dpl
  /\ Bit(e.access, 2) /\ ~Bit(e.flags_limit, 32)
IsTss(e) == Bit(e.access, 128) /\ e.access % 32 = 11

LimitOf(e) == e.limit_low + 65536 * (e.flags_limit % 16)
BaseOf(e, high) == <<e.base_low, e.base_mid + 256 * e.base_high, high.limit_low, high.base_low>>

\* An interrupt gate, which programs may use when its dpl is 3.
IsGate(g, stub, dpl) ==
  /\ Bit(g.type_attr, 128) /\ g.type_attr % 32 = 14 /\ Dpl(g.type_attr) = dpl
  /\ g.ist = 0
  /\ <<g.offset_low, g.offset_mid, g.offset_high[1], g.offset_high[2]>> = stub
=============================================================================
