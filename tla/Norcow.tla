------------------------------- MODULE Norcow -------------------------------
(***************************************************************************)
(* The flash key-value log of the storage library, storage/norcow.c, with  *)
(* power losses between any two flash writes.                              *)
(*                                                                         *)
(* A sector is an array of cells: a magic, a version, then items, each a   *)
(* prefix (key and length) followed by data cells.  A cell of data is a    *)
(* set of bits; a write can only clear bits, an erase sets them all.  A    *)
(* cell stands for what one flash write writes, so the padding of items to *)
(* words is left out.                                                      *)
(*                                                                         *)
(* An operation of norcow.c is an operator on a machine: the flash, the    *)
(* static variables, and the set of flash images it went through.  If the  *)
(* power fails, one of these images is what the next boot finds.  An erase *)
(* is taken to be one indivisible write.                                   *)
(*                                                                         *)
(* The definitions marked Faulty are not part of the specification.  Each  *)
(* is the definition that follows with a mistake built in, and shows that  *)
(* a property notices the mistake.                                         *)
(***************************************************************************)
EXTENDS Naturals, Sequences, FiniteSets, SequencesExt

CONSTANTS Keys,        \* the keys in use, neither NORCOW_KEY_FREE nor _DELETED
          Bits,        \* the bits of a cell of data
          Values,      \* the values that are stored: sequences of sets of bits
          Size,        \* NORCOW_SECTOR_SIZE, in cells
          Legacy,      \* images of a sector written by an older firmware
          MaxLosses    \* bound on the number of power losses

ASSUME ValuesAssumption == \A v \in Values : v \in Seq(SUBSET Bits)

ASSUME SizeAssumption == Size \in Nat /\ Size > 2

VARIABLES flash,    \* the cells of each sector
          ram,      \* the static variables of norcow.c
          mode,     \* "off", "upgrade" (in storage_upgrade), "on"
          fault,    \* an ensure() on a flash write has failed
          losses    \* number of power losses so far

vars == <<flash, ram, mode, fault, losses>>

NORCOW_VERSION == 3

Sectors == 0 .. 1

Other(s) == (s + 1) % 2

-----------------------------------------------------------------------------
(***************************************************************************)
(* Cells.  A data cell with all bits set is a blank one.                   *)
(***************************************************************************)
NORCOW_KEY_DELETED == "deleted"

Blank == [type |-> "blank"]
Magic == [type |-> "magic"]
MagicV0 == [type |-> "magic v0"]
Version(v) == [type |-> "version", version |-> v]
Prefix(k, l) == [type |-> "prefix", key |-> k, len |-> l]
Data(b) == IF b = Bits THEN Blank ELSE [type |-> "data", bits |-> b]

Contents(c) == IF c = Blank THEN Bits ELSE c.bits

\* flash_write_byte and flash_write_word refuse to turn a zero into a one.
Writable(old, new) ==
  \/ old = Blank \/ old = new
  \/ old.type = "prefix" /\ new = Prefix(NORCOW_KEY_DELETED, old.len)
  \/ old.type = "data" /\ new.type = "data" /\ new.bits \subseteq old.bits

ErasedSector == [o \in 0 .. Size - 1 |-> Blank]

-----------------------------------------------------------------------------
(***************************************************************************)
(* Reading a sector c.                                                     *)
(***************************************************************************)

\* find_start_offset.  A version that was not written reads as 0.
HasMagic(c) == c[0] \in {Magic, MagicV0}
StartOffset(c) == IF c[0] = Magic THEN 2 ELSE 1
VersionOf(c) == IF c[0] = Magic /\ c[1] # Blank THEN c[1].version ELSE 0

ReadItem(c, o) == o < Size /\ c[o].type = "prefix" /\ o + 1 + c[o].len <= Size

NextOffset(c, o) == o + 1 + c[o].len

\* The offsets of all items, in order.
Items(c) ==
  LET from[o \in 0 .. Size] ==
        IF ReadItem(c, o) THEN <<o>> \o from[NextOffset(c, o)] ELSE <<>>
  IN IF HasMagic(c) THEN from[StartOffset(c)] ELSE <<>>

FindFreeOffset(c) ==
  LET items == Items(c)
  IN IF items = <<>> THEN StartOffset(c) ELSE NextOffset(c, Last(items))

\* find_item: the last item with the key, as a set of at most one offset.
FindItem(c, k) ==
  LET items == Items(c)
      last == SelectLastInSeq(items, LAMBDA o : c[o].key = k)
  IN IF last = 0 THEN {} ELSE {items[last]}

ValueAt(c, o) == [i \in 1 .. c[o].len |-> Contents(c[o + i])]

\* norcow_get, as a set of at most one value.
Get(c, k) == {ValueAt(c, o) : o \in FindItem(c, k)}

\* Faulty: the keys of newer items are not compared.
GetNewest(c, version) ==
  SelectSeq(Items(c), LAMBDA o :
    c[o].key # NORCOW_KEY_DELETED /\ (version = 0 => o = Last(Items(c))))

\* What a caller of norcow_get_next sees: the items that are not deleted, and in
\* version 0 only the last one of each key.
GetAll(c, version) ==
  SelectSeq(Items(c), LAMBDA o :
    /\ c[o].key # NORCOW_KEY_DELETED
    /\ version = 0 => o \in FindItem(c, c[o].key))

-----------------------------------------------------------------------------
(***************************************************************************)
(* Writing.                                                                *)
(***************************************************************************)
Machine == [flash |-> flash, ram |-> ram, past |-> {flash}, fault |-> fault, ok |-> TRUE]

Put(m, s, o, c) ==
  [m EXCEPT !.flash[s][o] = c,
            !.past = @ \cup {[m.flash EXCEPT ![s][o] = c]},
            !.fault = @ \/ ~Writable(m.flash[s][o], c)]

PutAll(m, s, o, cells) ==
  FoldLeftDomain(LAMBDA a, i : Put(a, s, o + i - 1, cells[i]), m, cells)

EraseSector(m, s, set_magic) ==
  LET e == [m EXCEPT !.flash[s] = ErasedSector,
                     !.past = @ \cup {[m.flash EXCEPT ![s] = ErasedSector]}]
  IN IF set_magic THEN PutAll(e, s, 0, <<Magic, Version(NORCOW_VERSION)>>) ELSE e

\* write_item at the free offset of the write sector.  The prefix is written
\* first.  NULL as a value leaves the data blank.
WriteItem(m, k, v) ==
  LET free == m.ram.free_offset
  IN IF free + 1 + Len(v) > Size
       THEN [m EXCEPT !.ok = FALSE]
       ELSE [PutAll(m, m.ram.write_sector, free,
                    <<Prefix(k, Len(v))>> \o [i \in DOMAIN v |-> Data(v[i])])
               EXCEPT !.ram.free_offset = free + 1 + Len(v), !.ok = TRUE]

\* Faulty: the bits are not looked at.
UpdateBlindly(m, s, o, v) ==
  [PutAll(m, s, o + 1, [i \in DOMAIN v |-> Data(v[i])]) EXCEPT !.ok = TRUE]

\* norcow_set_ex tries to write the new value over the old one, cell by cell, up
\* to the first cell that would need a zero to become a one.
UpdateInPlace(m, s, o, v) ==
  LET old == ValueAt(m.flash[s], o)
      bad == {i \in DOMAIN v : ~(v[i] \subseteq old[i])}
      upto == IF bad = {} THEN Len(v) ELSE (CHOOSE i \in bad : \A j \in bad : i <= j) - 1
  IN [PutAll(m, s, o + 1, [i \in 1 .. upto |-> Data(v[i])]) EXCEPT !.ok = (bad = {})]

\* Faulty: the data is overwritten, but the item is not marked.
DeleteData(m, s, o) == PutAll(m, s, o + 1, [i \in 1 .. m.flash[s][o].len |-> Data({})])

\* Mark the item as deleted, then overwrite its data with zeros.
DeleteItem(m, s, o) ==
  LET len == m.flash[s][o].len
  IN PutAll(m, s, o, <<Prefix(NORCOW_KEY_DELETED, len)>> \o [i \in 1 .. len |-> Data({})])

\* A copy that does not fit is an ensure() that fails.
CopyItem(m, item) ==
  LET w == WriteItem(m, item.key, item.value) IN [w EXCEPT !.fault = @ \/ ~w.ok]

Item(c, o) == [key |-> c[o].key, value |-> ValueAt(c, o)]

\* Faulty: the pointer to the value does not move on with the items.
SameValueItems(c) ==
  LET live == SelectSeq(Items(c), LAMBDA o : c[o].key # NORCOW_KEY_DELETED)
  IN [i \in DOMAIN live |->
        [key |-> c[live[i]].key,
         value |-> [j \in 1 .. c[live[i]].len |-> Contents(c[live[1] + 1])]]]

\* What compaction copies: all items but the deleted ones.
LiveItems(c) ==
  LET live == SelectSeq(Items(c), LAMBDA o : c[o].key # NORCOW_KEY_DELETED)
  IN [i \in DOMAIN live |-> Item(c, live[i])]

\* Faulty: the old sector is not erased.
SwitchOnly(m) ==
  [m EXCEPT !.ram.active_sector = m.ram.write_sector, !.ram.active_version = NORCOW_VERSION]

\* The end of compact, and norcow_upgrade_finish.
SwitchSector(m) ==
  [EraseSector(m, m.ram.active_sector, FALSE)
     EXCEPT !.ram.active_sector = m.ram.write_sector,
            !.ram.active_version = NORCOW_VERSION]

\* compact: copy what is live into the other sector, then erase the old sector.
Compact(m) ==
  LET c == m.flash[m.ram.active_sector]
      w == Other(m.ram.active_sector)
      empty == [EraseSector(m, w, TRUE)
                  EXCEPT !.ram.write_sector = w, !.ram.free_offset = 2]
      copied == FoldLeft(CopyItem, empty, LiveItems(c))
  IN IF ~HasMagic(c) THEN m
     ELSE [SwitchSector(copied) EXCEPT !.ram.free_offset = FindFreeOffset(copied.flash[w])]

\* Faulty: the prefix is not counted.
NeedsCompactionShort(m, v) == m.ram.free_offset + Len(v) > Size

NeedsCompaction(m, v) == m.ram.free_offset + 1 + Len(v) > Size

\* norcow_set_ex.  With NULL, the value v only gives the length and is blank.
SetEx(m, k, v, null) ==
  LET s == m.ram.write_sector
      found == FindItem(m.flash[s], k)
      o == CHOOSE o \in found : TRUE
      updated == IF found # {} /\ ~null /\ m.flash[s][o].len = Len(v)
                   THEN UpdateInPlace(m, s, o, v) ELSE [m EXCEPT !.ok = FALSE]
      deleted == IF found # {} THEN DeleteItem(updated, s, o) ELSE updated
      spacious == IF NeedsCompaction(deleted, v) THEN Compact(deleted) ELSE deleted
  IN IF updated.ok THEN updated ELSE WriteItem(spacious, k, v)

\* Faulty: the keys of the items are not compared.
DeleteEvery(m, k) ==
  FoldLeft(LAMBDA a, o : DeleteItem(a, m.ram.write_sector, o),
           m, Items(m.flash[m.ram.write_sector]))

Delete(m, k) ==
  LET s == m.ram.write_sector
  IN IF FindItem(m.flash[s], k) = {} THEN m
     ELSE DeleteItem(m, s, CHOOSE o \in FindItem(m.flash[s], k) : TRUE)

\* Faulty: the last cell is not written.
UpdateShort(m, k, i, data) ==
  LET s == m.ram.write_sector
  IN PutAll(m, s, (CHOOSE o \in FindItem(m.flash[s], k) : TRUE) + i,
            [j \in 1 .. Len(data) - 1 |-> Data(data[j])])

\* norcow_update_word and norcow_update_bytes.
Update(m, k, i, data) ==
  LET s == m.ram.write_sector
  IN PutAll(m, s, (CHOOSE o \in FindItem(m.flash[s], k) : TRUE) + i,
            [j \in DOMAIN data |-> Data(data[j])])

Wipe(m) ==
  LET s == m.ram.active_sector
  IN [EraseSector(EraseSector(m, s, TRUE), Other(s), FALSE)
        EXCEPT !.ram.active_version = NORCOW_VERSION, !.ram.write_sector = s,
               !.ram.free_offset = 2]

-----------------------------------------------------------------------------
(***************************************************************************)
(* norcow_init.                                                            *)
(***************************************************************************)

\* The sectors with a magic and the highest version; of two, the later one.
Candidates(f) == {s \in Sectors : HasMagic(f[s])}

\* Faulty: of two sectors of the same version, the earlier one.
EarlierSector(f) ==
  IF Candidates(f) = {} THEN 0
  ELSE CHOOSE s \in Candidates(f) : \A z \in Candidates(f) :
         \/ VersionOf(f[z]) < VersionOf(f[s])
         \/ VersionOf(f[z]) = VersionOf(f[s]) /\ s <= z

ActiveSector(f) ==
  IF Candidates(f) = {} THEN 0
  ELSE CHOOSE s \in Candidates(f) : \A z \in Candidates(f) :
         \/ VersionOf(f[z]) < VersionOf(f[s])
         \/ VersionOf(f[z]) = VersionOf(f[s]) /\ z <= s

FoundVersion(f) ==
  IF Candidates(f) = {} THEN NORCOW_VERSION ELSE VersionOf(f[ActiveSector(f)])

\* norcow_active_version is left at the version of the last sector with a magic,
\* which is not always the active one.
LastVersion(f) ==
  IF HasMagic(f[1]) THEN VersionOf(f[1]) ELSE IF HasMagic(f[0]) THEN VersionOf(f[0]) ELSE 0

NorcowInit(m) ==
  LET s == ActiveSector(m.flash)
      found == [m EXCEPT !.ram.active_sector = s, !.ram.write_sector = s,
                         !.ram.active_version = LastVersion(m.flash),
                         !.ram.free_offset = FindFreeOffset(m.flash[s])]
  IN IF Candidates(m.flash) = {} \/ FoundVersion(m.flash) > NORCOW_VERSION
       THEN Wipe(found)
     ELSE IF FoundVersion(m.flash) < NORCOW_VERSION
       THEN [EraseSector(found, Other(s), TRUE)
               EXCEPT !.ram.write_sector = Other(s), !.ram.free_offset = 2]
     ELSE found

\* storage_upgrade copies all entries to the write sector (it gives up when one
\* does not fit), and norcow_upgrade_finish makes it the active one.
CopyEntry(m, item) ==
  LET w == SetEx(m, item.key, item.value, FALSE) IN [w EXCEPT !.fault = @ \/ ~w.ok]

StorageUpgrade(m) ==
  LET c == m.flash[m.ram.active_sector]
      entries == GetAll(c, m.ram.active_version)
  IN SwitchSector(FoldLeft(CopyEntry, m, [i \in DOMAIN entries |-> Item(c, entries[i])]))

-----------------------------------------------------------------------------
(***************************************************************************)
(* The behaviours.  An operation runs to its end, or the power fails after *)
(* one of its flash writes and the contents of the RAM are lost.           *)
(***************************************************************************)
Unpowered == [active_sector |-> 0, write_sector |-> 0, active_version |-> 0, free_offset |-> 0]

Init ==
  /\ \E s \in Sectors, c \in {ErasedSector} \cup Legacy :
       flash = [z \in Sectors |-> IF z = s THEN c ELSE ErasedSector]
  /\ ram = Unpowered
  /\ mode = "off"
  /\ fault = FALSE
  /\ losses = 0

Completes(m, next) ==
  /\ flash' = m.flash
  /\ ram' = m.ram
  /\ fault' = m.fault
  /\ mode' = next
  /\ UNCHANGED losses

PowerLoss(m) ==
  /\ losses < MaxLosses
  /\ flash' \in m.past
  /\ ram' = Unpowered
  /\ mode' = "off"
  /\ losses' = losses + 1
  /\ UNCHANGED fault

Runs(m, next) == Completes(m, next) \/ PowerLoss(m)

Boot ==
  /\ mode = "off"
  /\ Runs(NorcowInit(Machine),
          IF FoundVersion(flash) < NORCOW_VERSION THEN "upgrade" ELSE "on")

Upgrade ==
  /\ mode = "upgrade"
  /\ Runs(StorageUpgrade(Machine), "on")

DoSet(k, v) ==
  /\ mode = "on"
  /\ Runs(SetEx(Machine, k, v, FALSE), "on")

\* norcow_set with NULL: allocate the item; norcow_update_bytes will fill it.
DoAllocate(k, v) ==
  /\ mode = "on"
  /\ Runs(SetEx(Machine, k, [i \in DOMAIN v |-> Bits], TRUE), "on")

\* The callers update blank data, or clear bits of a log or a counter.
DoUpdate(k, v) ==
  /\ mode = "on"
  /\ \E old \in Get(flash[ram.write_sector], k) :
       /\ Len(old) = Len(v)
       /\ \E i \in DOMAIN v :
            /\ \A j \in i .. Len(v) : v[j] \subseteq old[j]
            /\ Runs(Update(Machine, k, i, SubSeq(v, i, Len(v))), "on")

DoDelete(k) ==
  /\ mode = "on"
  /\ Runs(Delete(Machine, k), "on")

DoWipe ==
  /\ mode = "on"
  /\ Runs(Wipe(Machine), "on")

Next ==
  \/ Boot \/ Upgrade \/ DoWipe
  \/ \E k \in Keys : DoDelete(k)
  \/ \E k \in Keys, v \in Values : DoSet(k, v) \/ DoAllocate(k, v) \/ DoUpdate(k, v)

Spec == Init /\ [][Next]_vars

\* Entries are only written as a whole, as set_pin writes EDEK and PVC.
SetNext ==
  \/ Boot \/ Upgrade \/ DoWipe
  \/ \E k \in Keys : DoDelete(k) \/ \E v \in Values : DoSet(k, v)

SetSpec == Init /\ [][SetNext]_vars

-----------------------------------------------------------------------------
\* The sector that is read from, or that the next boot will read from.
Current == flash[IF mode = "off" THEN ActiveSector(flash) ELSE ram.active_sector]

\* What norcow_get finds, for every key.
Store == [k \in Keys |-> Get(Current, k)]

(***************************************************************************)
(* No ensure() fails: whatever a power loss left behind, no later write    *)
(* turns a zero into a one, and compaction and upgrade always find room.   *)
(***************************************************************************)
NoFault == ~fault

(***************************************************************************)
(* "These should be equal except when storage version upgrade or           *)
(* compaction is in progress": reading and writing sector agree between    *)
(* operations, and a boot at that point would choose the same sector,      *)
(* also when a power loss has left a second sector with a magic.           *)
(***************************************************************************)
SectorsAgree ==
  mode = "on" =>
    /\ ram.write_sector = ram.active_sector
    /\ ActiveSector(flash) = ram.active_sector
    /\ FoundVersion(flash) = NORCOW_VERSION

(***************************************************************************)
(* norcow_set_ex deletes the old item before it writes the new one, so     *)
(* that a power loss between them never leaves two items of a key.         *)
(***************************************************************************)
OneItemPerKey ==
  LET items == Items(Current)
  IN mode = "on" => \A i, j \in DOMAIN items :
       Current[items[i]].key = Current[items[j]].key /\ Current[items[i]].key \in Keys => i = j

(***************************************************************************)
(* norcow_active_version may be the version of the other sector after an   *)
(* interrupted compaction.  norcow_get_next reads it and must still list   *)
(* the same entries.                                                       *)
(***************************************************************************)
StaleVersionHarmless ==
  mode = "on" => GetAll(Current, ram.active_version) = GetAll(Current, NORCOW_VERSION)

(***************************************************************************)
(* docs/storage/index.md on storing EDEK and PVC: "This operation should   *)
(* be atomic, i.e. either both values should be stored or neither."  They  *)
(* are one entry, and after a power loss an entry is whole or absent.      *)
(***************************************************************************)
StoredWholeOrNot ==
  mode = "on" => \A k \in Keys : Get(Current, k) \subseteq Values

-----------------------------------------------------------------------------
(***************************************************************************)
(* What a step may do to the entries, complete or interrupted.             *)
(***************************************************************************)

\* A step that erases nothing in sector s.
NotErased(s) == \A o \in 0 .. Size - 1 : Writable(flash[s][o], flash'[s][o])

OtherUntouched == flash'[Other(ram.active_sector)] = flash[Other(ram.active_sector)]

\* All entries but one are, before and after the step, related by Kept.
AllButOne(Kept(_, _)) ==
  \A before \in {Current}, after \in {Current'} :
    \E k \in Keys : \A z \in Keys \ {k} : Kept(Get(before, z), Get(after, z))

Same(before, after) == before = after

\* What is left of a value v when its writing is interrupted.
Torn(w, v) == Len(w) = Len(v) /\ \A i \in DOMAIN v : w[i] = v[i] \/ w[i] = Bits

NoneOrTorn(before, after) == \A w \in after : \E v \in before : Torn(w, v)

(***************************************************************************)
(* A step that stays within the active sector, complete or interrupted,    *)
(* changes the entry of one key only.                                      *)
(***************************************************************************)
OneKeyAtATime ==
  [][mode = "on" /\ OtherUntouched /\ NotErased(ram.active_sector) => AllButOne(Same)]_vars

(***************************************************************************)
(* When the power fails in a set, entries of the other keys may be missing *)
(* or torn (compaction from the first sector to the second is not atomic), *)
(* but they are never mixed up or invented.  A wipe is left out: it erases *)
(* the active sector first, and if an earlier power loss had left an old   *)
(* copy in the other sector, norcow_init then finds that copy.             *)
(***************************************************************************)
NothingInvented ==
  [][mode = "on" /\ mode' = "off" /\ ~(OtherUntouched /\ ~NotErased(ram.active_sector))
       => AllButOne(NoneOrTorn)]_vars

(***************************************************************************)
(* Compaction from the second sector to the first is atomic: until the old *)
(* sector is erased, norcow_init prefers it, so that a power loss changes  *)
(* one entry only, the one that was being set.                             *)
(***************************************************************************)
DownwardCompactionAtomic ==
  [][mode = "on" /\ mode' = "off" /\ ram.active_sector = 1 /\ NotErased(1)
       => AllButOne(Same)]_vars

-----------------------------------------------------------------------------
(***************************************************************************)
(* While the power stays on, norcow implements the key-value store: each   *)
(* operation has its effect on its own key, and compaction, the upgrade of *)
(* an old sector and the version-0 format cannot be noticed.               *)
(***************************************************************************)
KV == INSTANCE KVStore WITH store <- Store, Blank <- Bits, Capacity <- Size - 2

ImplementsKVStore == KV!Spec

(***************************************************************************)
(* norcow_set succeeds if and only if the entry fits beside the live       *)
(* entries of the other keys: whatever was deleted, overwritten or updated *)
(* halfway before, compaction gets all of its space back, and a success is *)
(* a value that can be read.                                               *)
(***************************************************************************)
SetSucceedsIfItFits ==
  mode = "on" => \A k \in Keys, v \in Values : \A m \in {SetEx(Machine, k, v, FALSE)} :
    /\ m.ok <=> KV!Fits(k, v)
    /\ m.ok => Get(m.flash[m.ram.active_sector], k) = {v}

=============================================================================
