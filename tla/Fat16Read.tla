----------------------------- MODULE Fat16Read ------------------------------
(***************************************************************************)
(* Reading a file: fat16_read and the functions under it in fat16.c, down  *)
(* to the sectors diskSteamerRead fetches.  A file is a chain of clusters  *)
(* in the file allocation table; the byte at a disk position is modelled   *)
(* by the position itself, so the answer says where every byte came from.  *)
(*                                                                         *)
(* The recursions of fat16_read_internal_from_stream and diskSteamerRead   *)
(* are in tail position and are loops here.  The kernel does nothing else  *)
(* while it reads, and the disk always answers: disk_read_sector polls it  *)
(* without a limit and has no error of its own.                            *)
(***************************************************************************)
EXTENDS Integers, Sequences

CONSTANTS
  SECTOR_SIZE,            \* PEACHOS_SECTOR_SIZE, 512
  sectors_per_cluster,
  reserved_sectors,
  ending_sector_pos,      \* first sector after the root directory
  MaxCluster,             \* clusters are numbered from 2 to this
  MaxChain,               \* clusters of the longest file
  INT_LIMIT,              \* an int of the code is below this, 2^31
  Words,                  \* what 16 bits outside the FAT may hold
  Sizes, Counts           \* size and nmemb of the reads

ClusterSize == sectors_per_cluster * SECTOR_SIZE
Clusters == 2 .. MaxCluster
FAT_ENTRY_SIZE == 2
EIO == 2
END_OF_CHAIN == 65535     \* what a FAT16 volume holds for the last cluster

ASSUME ReadAssumption ==
  /\ SECTOR_SIZE \in Nat \ {0} /\ sectors_per_cluster \in Nat \ {0}
  /\ reserved_sectors \in Nat /\ ending_sector_pos \in Nat
  /\ sectors_per_cluster <= ending_sector_pos    \* 128 and 716 in boot.asm
  /\ MaxCluster \in 0 .. END_OF_CHAIN /\ MaxChain \in Nat /\ Words \subseteq 0 .. END_OF_CHAIN
  /\ Sizes \subseteq Nat \ {0} /\ Counts \subseteq Nat \ {0}
  /\ INT_LIMIT \in Nat \ {0}      \* the volume ends below it, 16 MB in the Makefile
  /\ (ending_sector_pos + (MaxCluster - 1) * sectors_per_cluster) * SECTOR_SIZE < INT_LIMIT

VARIABLES
  chain,      \* the clusters of the file, in order
  pc,
  req,        \* the arguments: offset, size, nmemb
  done,       \* i of fat16_read: the members read so far
  offset, total,  \* arguments of fat16_read_internal_from_stream
  i, cluster_to_use,      \* locals of fat16_get_cluster_for_offset
  pos, left,  \* the stream's position, and what diskSteamerRead has to read
  out,        \* the bytes delivered, each as the disk position it came from
  res         \* what fat16_read returned

vars == <<chain, pc, req, done, offset, total, i, cluster_to_use, pos, left, out, res>>

-----------------------------------------------------------------------------
(* The table on the disk (external): what the volume says follows a        *)
(* cluster.                                                                *)
FatEntry(c) ==
  IF \E k \in 1 .. Len(chain) - 1 : chain[k] = c
  THEN chain[(CHOOSE k \in 1 .. Len(chain) - 1 : chain[k] = c) + 1]
  ELSE IF Len(chain) > 0 /\ chain[Len(chain)] = c THEN END_OF_CHAIN ELSE 0
FatStart == reserved_sectors * SECTOR_SIZE

(* The 16 bits at a position of the disk.                                  *)
WordAt(p) ==
  IF \E c \in Clusters : p = FatStart + c * FAT_ENTRY_SIZE
  THEN {FatEntry((p - FatStart) \div FAT_ENTRY_SIZE)} ELSE Words

fat16_get_first_fat_sector == reserved_sectors + 1

(* Multiplied, where the source itself wonders whether to add.  A product  *)
(* that wraps lands outside the table of the model too.                    *)
fat16_get_fat_entry(cluster) ==
  WordAt((fat16_get_first_fat_sector * SECTOR_SIZE) * (cluster * FAT_ENTRY_SIZE))

fat16_cluster_to_sector(cluster) ==
  ending_sector_pos + (cluster - 2) * sectors_per_cluster

(* The value an int keeps.  Positions of the volume are below the limit,   *)
(* but not those of every 16-bit word the walk may take for a cluster.     *)
AsInt(x) == ((x + INT_LIMIT) % (2 * INT_LIMIT)) - INT_LIMIT

(* The entries fat16_get_cluster_for_offset takes for the end of the chain *)
(* or for a cluster it must not use.                                       *)
Refused == {4088, 4095, 4087, 4080, 65526, 0}

-----------------------------------------------------------------------------
ChainsOf(n) == {s \in [1 .. n -> Clusters] : \A j, k \in 1 .. n : j # k => s[j] # s[k]}
NoRequest == [offset |-> 0, size |-> 0, nmemb |-> 0]

Init ==
  /\ chain \in UNION {ChainsOf(n) : n \in 1 .. MaxChain}
  /\ pc = "idle" /\ req = NoRequest /\ done = 0
  /\ offset = 0 /\ total = 0 /\ i = 0 /\ cluster_to_use = 0
  /\ pos = 0 /\ left = 0 /\ out = << >> /\ res = 0

(* fat16_read of nmemb members of a size, from the descriptor's position.  *)
fat16_read(o, size, nmemb) ==
  /\ pc = "idle"
  /\ o + size * nmemb <= Len(chain) * ClusterSize
  /\ req' = [offset |-> o, size |-> size, nmemb |-> nmemb]
  /\ done' = 0 /\ offset' = o /\ total' = size
  /\ i' = 0 /\ cluster_to_use' = chain[1]
  /\ out' = << >> /\ res' = 0
  /\ pc' = "walk"
  /\ UNCHANGED <<chain, pos, left>>

(* Mutant: the loop variable of the walk does not advance.                 *)
WalkStalls ==
  /\ pc = "walk" /\ i < offset \div ClusterSize
  /\ \E entry \in fat16_get_fat_entry(cluster_to_use) :
       /\ entry \notin Refused
       /\ cluster_to_use' = entry
  /\ UNCHANGED <<chain, pc, req, done, offset, total, i, pos, left, out, res>>

(* fat16_get_cluster_for_offset: one cluster further ...                   *)
WalkNext ==
  /\ pc = "walk" /\ i < offset \div ClusterSize
  /\ \E entry \in fat16_get_fat_entry(cluster_to_use) :
       /\ entry \notin Refused
       /\ cluster_to_use' = entry
  /\ i' = i + 1
  /\ UNCHANGED <<chain, pc, req, done, offset, total, pos, left, out, res>>

(* Mutant: the error is not tested for and serves as a cluster.            *)
WalkErrorUsed ==
  /\ pc = "walk" /\ i < offset \div ClusterSize
  /\ \E entry \in fat16_get_fat_entry(cluster_to_use) : entry \in Refused
  /\ cluster_to_use' = -EIO /\ i' = offset \div ClusterSize
  /\ UNCHANGED <<chain, pc, req, done, offset, total, pos, left, out, res>>

(* ... or an entry that ends the read with -EIO.                           *)
WalkFails ==
  /\ pc = "walk" /\ i < offset \div ClusterSize
  /\ \E entry \in fat16_get_fat_entry(cluster_to_use) : entry \in Refused
  /\ res' = -EIO /\ pc' = "idle"
  /\ UNCHANGED <<chain, req, done, offset, total, i, cluster_to_use, pos, left, out>>

(* Mutant: the offset within the cluster is forgotten.                     *)
SeekClusterStart ==
  /\ pc = "walk" /\ i = offset \div ClusterSize
  /\ pos' = AsInt(fat16_cluster_to_sector(cluster_to_use) * SECTOR_SIZE)
  /\ left' = IF total > ClusterSize THEN ClusterSize ELSE total
  /\ pc' = "stream"
  /\ UNCHANGED <<chain, req, done, offset, total, i, cluster_to_use, out, res>>

(* The seek to the offset within the cluster.  What is read from there is  *)
(* at most a cluster long, but may begin anywhere in this one.             *)
Seek ==
  /\ pc = "walk" /\ i = offset \div ClusterSize
  /\ pos' = AsInt(fat16_cluster_to_sector(cluster_to_use) * SECTOR_SIZE + (offset % ClusterSize))
  /\ left' = IF total > ClusterSize THEN ClusterSize ELSE total
  /\ pc' = "stream"
  /\ UNCHANGED <<chain, req, done, offset, total, i, cluster_to_use, out, res>>

(* One sector of diskSteamerRead.  A read that ends on a sector boundary   *)
(* goes on to fetch the next sector and takes nothing from it.  The        *)
(* remainder of a negative position is negative, and the bytes then come   *)
(* from below the sector's buffer; they too are named by their position.   *)
Rem == IF pos >= 0 THEN pos % SECTOR_SIZE ELSE -((-pos) % SECTOR_SIZE)
overflow == Rem + left >= SECTOR_SIZE
FromSector(n) == [k \in 1 .. n |-> pos + k - 1]

StreamOverflow ==
  /\ pc = "stream" /\ overflow
  /\ LET n == SECTOR_SIZE - Rem
     IN  /\ out' = out \o FromSector(n)
         /\ pos' = AsInt(pos + n) /\ left' = left - n
  /\ UNCHANGED <<chain, pc, req, done, offset, total, i, cluster_to_use, res>>

StreamLast ==
  /\ pc = "stream" /\ ~overflow
  /\ out' = out \o FromSector(left)
  /\ pos' = AsInt(pos + left) /\ left' = 0
  /\ pc' = "more"
  /\ UNCHANGED <<chain, req, done, offset, total, i, cluster_to_use, res>>

Piece == IF total > ClusterSize THEN ClusterSize ELSE total

(* Mutant: the count of the bytes left over is off by one.                 *)
NextClusterShort ==
  /\ pc = "more" /\ total - Piece > 0
  /\ total' = total - Piece - 1 /\ offset' = offset + Piece
  /\ i' = 0 /\ cluster_to_use' = chain[1]
  /\ pc' = "walk"
  /\ UNCHANGED <<chain, req, done, pos, left, out, res>>

(* fat16_read_internal_from_stream calls itself for the rest ...           *)
NextCluster ==
  /\ pc = "more" /\ total - Piece > 0
  /\ total' = total - Piece /\ offset' = offset + Piece
  /\ i' = 0 /\ cluster_to_use' = chain[1]
  /\ pc' = "walk"
  /\ UNCHANGED <<chain, req, done, pos, left, out, res>>

(* ... and fat16_read goes on to the next member, or returns nmemb.        *)
NextMember ==
  /\ pc = "more" /\ total - Piece <= 0 /\ done + 1 < req.nmemb
  /\ done' = done + 1 /\ total' = req.size
  /\ offset' = req.offset + (done + 1) * req.size
  /\ i' = 0 /\ cluster_to_use' = chain[1]
  /\ pc' = "walk"
  /\ UNCHANGED <<chain, req, pos, left, out, res>>

ReadReturns ==
  /\ pc = "more" /\ total - Piece <= 0 /\ done + 1 = req.nmemb
  /\ res' = req.nmemb /\ pc' = "idle"
  /\ UNCHANGED <<chain, req, done, offset, total, i, cluster_to_use, pos, left, out>>

Step == \/ WalkNext \/ WalkFails \/ Seek \/ StreamOverflow \/ StreamLast
        \/ NextCluster \/ NextMember \/ ReadReturns

Next ==
  \/ \E o \in 0 .. MaxChain * ClusterSize, size \in Sizes, nmemb \in Counts :
       fat16_read(o, size, nmemb)
  \/ Step

(* The reading code runs until it returns.                                 *)
Spec == Init /\ [][Next]_vars /\ WF_vars(Step)

-----------------------------------------------------------------------------
(* Types of the arguments and of the locals.                               *)
TypeOK ==
  /\ pc \in {"idle", "walk", "stream", "more"}
  /\ req \in [offset : Nat, size : Nat, nmemb : Nat]
  /\ {done, offset, total, i, left} \subseteq Nat
  /\ pos \in -INT_LIMIT .. INT_LIMIT - 1
  /\ cluster_to_use \in 0 .. END_OF_CHAIN
  /\ out \in Seq(Int) /\ res \in {-EIO} \cup Nat

(* The disk position of byte b of the file.                                *)
FileByte(b) ==
  fat16_cluster_to_sector(chain[b \div ClusterSize + 1]) * SECTOR_SIZE + (b % ClusterSize)

Finished == pc = "idle" /\ res > 0
Delivered == [k \in 1 .. req.size * req.nmemb |-> FileByte(req.offset + k - 1)]

(* fat16_read that succeeds delivers exactly the bytes asked for, however  *)
(* they are cut into members, clusters and sectors.                        *)
ExactCount == Finished => res = req.nmemb /\ Len(out) = req.size * req.nmemb

(* A read within the first cluster of the file delivers its bytes, in      *)
(* order, across the sectors diskSteamerRead fetches.                      *)
FirstClusterRead ==
  Finished /\ req.offset + req.size * req.nmemb <= ClusterSize => out = Delivered

(* fat16.c says fat16_read_internal reads as many clusters as required:    *)
(* every read within the file then delivers its bytes.                     *)
ReadsFile == Finished => out = Delivered

(* Every read returns.                                                     *)
ReadReturnsEventually == pc # "idle" ~> pc = "idle"
=============================================================================
