------------------------------ MODULE Bootsect ------------------------------
(* The boot sector, boot/bootsect.asm: it loads setup, setup32 and the kernel   *)
(* from a 1.44 MB floppy disk, as many sectors at a time as the track, the      *)
(* segment and the part allow. Nothing is scaled: the numbers are the code's.   *)
EXTENDS Integers

VARIABLES
  pc,             \* where the code is, named by its labels
  part,           \* which of load_setup, load_setup32, load_kernel is running
  es, bx,         \* where the next sectors go; 16 bits each
  total, readed,  \* sectors of the part, or of the kernel's segment; those read
  read_per_time,  \* sectors of one read
  sector, track, head,
  logic_sector,   \* the next sector on the disk, from 0
  memory          \* the sector of the disk in each 512 bytes of memory

loadVars == <<pc, part, es, bx, total, readed, read_per_time, sector, track, head,
              logic_sector, memory>>
counts == <<total, readed>>
disk == <<sector, track, head, logic_sector>>

SectorsPerTrack == 18
Tracks == 80
Empty == -1
Slots == 0 .. 1151    \* up to 0x90000

\* The BIOS has put the boot sector at 0x7C00.
LoadInit ==
  /\ pc = "start" /\ part = "load_setup"
  /\ es = 0 /\ bx = 0
  /\ total = 10 /\ readed = 0 /\ read_per_time = 0
  /\ sector = 2 /\ track = 0 /\ head = 0 /\ logic_sector = 1
  /\ memory = [s \in Slots |-> IF s = 62 THEN 0 ELSE Empty]

-----------------------------------------------------------------------------
(* The BIOS: int 0x13, function 2 *)

Slot == (es * 16 + bx) \div 512
ChsSector == (track * 2 + head) * SectorsPerTrack + sector - 1

\* What the drive can do in one call: sectors of one track of one side, put where
\* they do not cross a border of 64 KB.
Allowed ==
  /\ track < Tracks /\ sector >= 1
  /\ sector + read_per_time - 1 <= SectorsPerTrack
  /\ read_per_time > 0 => Slot \div 128 = (Slot + read_per_time - 1) \div 128

\* The call succeeds, or it fails and the boot sector stops with a message, always
\* the one about setup.
read_track ==
  /\ pc = "read_track"
  /\ \/ /\ Allowed
        /\ memory' = [s \in Slots |-> IF s \in Slot .. Slot + read_per_time - 1
                                      THEN ChsSector + s - Slot ELSE memory[s]]
        /\ pc' = "update_orthl"
     \/ /\ pc' = "load_setup_failed"
        /\ UNCHANGED memory
  /\ UNCHANGED <<part, es, bx, counts, read_per_time, disk>>

-----------------------------------------------------------------------------
(* Loading *)

\* Faulty variant: the disk has one side.
update_orthl_one_sided ==
  /\ pc = "update_orthl"
  /\ bx' = (bx + read_per_time * 512) % 65536
  /\ readed' = (readed \div 256) * 256 + ((readed + read_per_time) % 256)
  /\ logic_sector' = logic_sector + read_per_time
  /\ IF logic_sector' % SectorsPerTrack = 0
     THEN track' = track + 1
     ELSE UNCHANGED track
  /\ pc' = IF part = "load_setup" THEN "load_setup32" ELSE "go"
  /\ UNCHANGED <<part, es, total, read_per_time, sector, head, memory>>
\* The count is added in 8 bits. The side, and with it the track, change when the
\* end of a track has been read.
update_orthl ==
  /\ pc = "update_orthl"
  /\ bx' = (bx + read_per_time * 512) % 65536
  /\ readed' = (readed \div 256) * 256 + ((readed + read_per_time) % 256)
  /\ logic_sector' = logic_sector + read_per_time
  /\ IF logic_sector' % SectorsPerTrack = 0
     THEN head' = 1 - head /\ track' = track + head
     ELSE UNCHANGED <<head, track>>
  /\ pc' = IF part = "load_setup" THEN "load_setup32" ELSE "go"
  /\ UNCHANGED <<part, es, total, read_per_time, sector, memory>>

\* The boot sector moves to 0x600; what it loads will take its old place.
start ==
  /\ pc = "start" /\ pc' = "load_setup"
  /\ memory' = [memory EXCEPT ![3] = memory[62]]
  /\ UNCHANGED <<part, es, bx, counts, read_per_time, disk>>

load_setup ==
  /\ pc = "load_setup"
  /\ es' = 128 /\ bx' = 0    \* 0x0080
  /\ read_per_time' = 10
  /\ track' = 0 /\ head' = 0 /\ sector' = 2
  /\ pc' = "read_track"
  /\ UNCHANGED <<part, counts, logic_sector, memory>>

load_setup32 ==
  /\ pc = "load_setup32"
  /\ es' = 1280 /\ bx' = 0   \* 0x0500
  /\ total' = 88 /\ readed' = 0
  /\ pc' = "go" /\ part' = "load_setup32"
  /\ UNCHANGED <<read_per_time, disk, memory>>

\* Faulty variant: whole rests of tracks, whatever is still wanted.
read_more_rest ==
  /\ pc = "go" /\ readed < total
  /\ read_per_time' = SectorsPerTrack - (logic_sector % SectorsPerTrack)
  /\ sector' = (logic_sector % SectorsPerTrack) + 1
  /\ pc' = "read_track"
  /\ UNCHANGED <<part, es, bx, counts, track, head, logic_sector, memory>>
\* The rest of the track, or what is still wanted if that is less.
read_more ==
  /\ pc = "go" /\ readed < total
  /\ LET rest == SectorsPerTrack - (logic_sector % SectorsPerTrack) IN
     read_per_time' = IF rest <= total - readed THEN rest ELSE total - readed
  /\ sector' = (logic_sector % SectorsPerTrack) + 1
  /\ pc' = "read_track"
  /\ UNCHANGED <<part, es, bx, counts, track, head, logic_sector, memory>>

\* A part, or a segment of the kernel, has been read; or more than that, which the
\* code takes for a failure.
complete ==
  /\ pc = "go" /\ readed >= total
  /\ pc' = CASE readed = total                           -> "load_kernel"
             [] readed > total /\ part = "load_setup32"  -> "load_setup_failed"
             [] readed > total /\ part = "load_kernel"   -> "load_kernel_failed"
  /\ part' = "load_kernel"
  /\ es' = IF part = "load_kernel" THEN es ELSE 0
  /\ UNCHANGED <<bx, counts, read_per_time, disk, memory>>

\* The kernel, 64 KB at a time, from 0x10000 up to 0x90000.
load_kernel ==
  /\ pc = "load_kernel"
  /\ IF es + 4096 >= 36864
     THEN /\ pc' = "setup"
          /\ UNCHANGED <<es, bx, counts>>
     ELSE /\ es' = es + 4096 /\ bx' = 0
          /\ total' = 128 /\ readed' = 0
          /\ pc' = "go"
  /\ UNCHANGED <<part, read_per_time, disk, memory>>

LoadFailed == pc \in {"load_setup_failed", "load_kernel_failed"}

Load ==
  \/ start \/ load_setup \/ load_setup32 \/ load_kernel
  \/ read_more \/ complete
  \/ read_track \/ update_orthl

-----------------------------------------------------------------------------
(* Properties *)

\* Every read is one the drive can do, and its cylinder, side and sector, which are
\* counted apart, are those of the sector that is due. Parts end with a read.
ReadsAllowed ==
  /\ pc = "read_track" => Allowed /\ read_per_time > 0 /\ ChsSector = logic_sector
  /\ pc = "go" => readed <= total

\* When setup is entered every part is where the next stage expects it, in the order
\* of the disk image (Makefile:38-43), and nothing else has been written to; and from
\* its move on the boot sector, which does all this, is never overwritten.
Parts == [s \in Slots |-> CASE s = 3          -> 0
                            [] s \in 4 .. 13   -> s - 3    \* setup at 0x800
                            [] s \in 40 .. 127 -> s - 29   \* setup32 at 0x5000
                            [] s >= 128        -> s - 29   \* kernel at 0x10000
                            [] OTHER           -> Empty]
LoadedWhole ==
  /\ pc # "start" => memory[3] = 0
  /\ pc = "setup" => memory = Parts
=============================================================================
