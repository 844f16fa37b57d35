-------------------------- MODULE Fat16ReadProofs ---------------------------
(***************************************************************************)
(* fat16_read for every geometry of the volume, every file and every read. *)
(* The inductive invariant counts the bytes delivered so far against the   *)
(* members, clusters and sectors that are done, and says where the bytes   *)
(* of a read within the first cluster come from.                           *)
(***************************************************************************)
EXTENDS Fat16Read, SequenceTheorems, TLAPS

(* A file of the volume.                                                   *)
IsChain == \E n \in 1 .. MaxChain : chain \in [1 .. n -> Clusters]

(* The bytes delivered before the call of fat16_read_internal_from_stream  *)
(* that is under way.                                                      *)
Before == done * req.size + (req.size - total)

Running ==
  pc # "idle" =>
    /\ done < req.nmemb /\ total \in 1 .. req.size
    /\ offset = req.offset + Before
    /\ cluster_to_use \in 1 .. END_OF_CHAIN

Progress ==
  /\ pc = "walk" => Len(out) = Before
  /\ pc = "stream" => left <= Piece /\ Len(out) = Before + Piece - left
  /\ pc = "more" => Len(out) = Before + Piece

(* A read that stays in the first cluster, and where that begins.          *)
Near == req.offset + req.size * req.nmemb <= ClusterSize
Base == fat16_cluster_to_sector(chain[1]) * SECTOR_SIZE

InPlace ==
  Near =>
    /\ \A k \in 1 .. Len(out) : out[k] = Base + req.offset + k - 1
    /\ pc = "walk" => i = 0 /\ cluster_to_use = chain[1]
    /\ pc = "stream" => pos = Base + req.offset + Len(out)

RInv == IsChain /\ TypeOK /\ Running /\ Progress /\ ExactCount /\ InPlace

-----------------------------------------------------------------------------
(* Products of numbers of the volume.                                      *)
LEMMA Product == ASSUME NEW a \in Nat, NEW b \in Nat PROVE a * b \in Nat
OBVIOUS

LEMMA OneMore ==
  ASSUME NEW a \in Nat, NEW b \in Nat
  PROVE  (a + 1) * b = a * b + b /\ a * b \in Nat
OBVIOUS

LEMMA Factor ==
  ASSUME NEW a \in Nat, NEW b \in Nat, NEW c \in Nat, a + 1 <= c
  PROVE  a * b + b <= b * c /\ (a + 1 = c => a * b + b = b * c)
<1>1. c - (a + 1) \in Nat /\ c = (a + 1) + (c - (a + 1))
  OBVIOUS
<1>2. (c - (a + 1)) * b \in Nat
  BY <1>1, Product
<1>3. c * b = (a + 1) * b + (c - (a + 1)) * b
  BY <1>1
<1>4. QED
  BY <1>2, <1>3, OneMore

(* The two constants of the code with large values.                        *)
LEMMA Word == END_OF_CHAIN \in Nat /\ END_OF_CHAIN > 2
BY SMT DEF END_OF_CHAIN

LEMMA ZeroRefused == 0 \in Refused
BY SMT DEF Refused

LEMMA ClusterSizes ==
  /\ SECTOR_SIZE \in Nat \ {0} /\ sectors_per_cluster \in Nat \ {0}
  /\ ClusterSize \in Nat \ {0} /\ END_OF_CHAIN \in Nat
  /\ ending_sector_pos \in Nat /\ sectors_per_cluster <= ending_sector_pos
  /\ Clusters \subseteq 2 .. END_OF_CHAIN
<1>1. /\ SECTOR_SIZE \in Nat \ {0} /\ sectors_per_cluster \in Nat \ {0}
      /\ ending_sector_pos \in Nat /\ sectors_per_cluster <= ending_sector_pos
      /\ MaxCluster \in 0 .. END_OF_CHAIN
  BY ReadAssumption
<1>2. ClusterSize \in Nat /\ ClusterSize # 0
  BY <1>1 DEF ClusterSize
<1>3. Clusters \subseteq 2 .. END_OF_CHAIN
  BY <1>1, Word DEF Clusters
<1>4. QED
  BY <1>1, <1>2, <1>3, Word

(* Where a cluster lies.                                                   *)
LEMMA ClusterPlace ==
  ASSUME NEW c \in 1 .. END_OF_CHAIN
  PROVE  fat16_cluster_to_sector(c) * SECTOR_SIZE \in Nat
<1>1. fat16_cluster_to_sector(c) \in Nat
  <2>1. c - 1 \in Nat /\ (c - 1) * sectors_per_cluster \in Nat
    BY ClusterSizes
  <2>2. (c - 2) * sectors_per_cluster = (c - 1) * sectors_per_cluster - sectors_per_cluster
    BY ClusterSizes
  <2>3. QED
    BY <2>1, <2>2, ClusterSizes DEF fat16_cluster_to_sector
<1>2. QED
  BY <1>1, ClusterSizes, Product

(* What an int keeps of a number, and of one below its limit.              *)
LEMMA IntValue ==
  ASSUME NEW x \in Int
  PROVE  /\ AsInt(x) \in -INT_LIMIT .. INT_LIMIT - 1
         /\ x \in Nat /\ x < INT_LIMIT => AsInt(x) = x
<1>1. INT_LIMIT \in Nat \ {0}
  BY ReadAssumption
<1>2. ASSUME NEW b \in Int, NEW c \in Nat \ {0}
      PROVE  b % c \in 0 .. c - 1 /\ (b \in Nat /\ b < c => b % c = b)
  BY <1>2
<1> DEFINE m == (x + INT_LIMIT) % (2 * INT_LIMIT)
<1>3. m \in 0 .. 2 * INT_LIMIT - 1 /\ (x \in Nat /\ x < INT_LIMIT => m = x + INT_LIMIT)
  <2>1. x + INT_LIMIT \in Int /\ 2 * INT_LIMIT \in Nat \ {0}
    BY <1>1
  <2>2. /\ m \in 0 .. 2 * INT_LIMIT - 1
        /\ x + INT_LIMIT \in Nat /\ x + INT_LIMIT < 2 * INT_LIMIT => m = x + INT_LIMIT
    BY <1>2, <2>1
  <2> HIDE DEF m
  <2>3. QED
    BY <1>1, <2>2
<1> HIDE DEF m
<1>4. AsInt(x) = m - INT_LIMIT
  BY DEF AsInt, m
<1>5. QED
  BY <1>1, <1>3, <1>4

(* A cluster of the volume ends below the limit of an int.                 *)
LEMMA ClusterFits ==
  ASSUME NEW c \in Clusters
  PROVE  fat16_cluster_to_sector(c) * SECTOR_SIZE + ClusterSize < INT_LIMIT
<1> DEFINE s == sectors_per_cluster
           w == SECTOR_SIZE
           e == ending_sector_pos
<1>1. /\ s \in Nat /\ w \in Nat /\ e \in Nat /\ MaxCluster \in Nat /\ INT_LIMIT \in Nat
      /\ (e + (MaxCluster - 1) * s) * w < INT_LIMIT
  BY ReadAssumption, Word
<1>2. c \in Nat /\ c >= 2 /\ c <= MaxCluster
  BY <1>1 DEF Clusters
<1>3. fat16_cluster_to_sector(c) * SECTOR_SIZE + ClusterSize = (e + (c - 2) * s) * w + s * w
  BY DEF fat16_cluster_to_sector, ClusterSize
<1> HIDE DEF s, w, e
<1>4. (e + (c - 2) * s) * w + s * w = (e + (c - 1) * s) * w
  <2>1. (c - 1) * s = (c - 2) * s + s /\ (c - 2) * s \in Nat
    BY <1>1, <1>2
  <2>2. ASSUME NEW a \in Nat PROVE (e + a) * w + s * w = (e + (a + s)) * w
    BY <1>1
  <2>3. QED
    BY <2>1, <2>2
<1>5. (e + (c - 1) * s) * w <= (e + (MaxCluster - 1) * s) * w
  <2>1. ASSUME NEW a \in Nat, NEW b \in Nat, NEW d \in Nat, a <= b PROVE a * d <= b * d
    BY <2>1
  <2>2. c - 1 \in Nat /\ MaxCluster - 1 \in Nat /\ c - 1 <= MaxCluster - 1
    BY <1>1, <1>2
  <2>3. (c - 1) * s <= (MaxCluster - 1) * s /\ (c - 1) * s \in Nat /\ (MaxCluster - 1) * s \in Nat
    BY <1>1, <2>1, <2>2, Product
  <2>4. ASSUME NEW a \in Nat, NEW b \in Nat, a <= b PROVE (e + a) * w <= (e + b) * w
    <3>1. e + a \in Nat /\ e + b \in Nat /\ e + a <= e + b
      BY <1>1, <2>4
    <3>2. QED
      BY <1>1, <2>1, <3>1
  <2>5. QED
    BY <2>3, <2>4
<1>6. (e + (c - 1) * s) * w \in Nat /\ (e + (MaxCluster - 1) * s) * w \in Nat
  <2>1. (c - 1) * s \in Nat /\ (MaxCluster - 1) * s \in Nat
    BY <1>1, <1>2, Product
  <2>2. ASSUME NEW a \in Nat PROVE (e + a) * w \in Nat
    BY <1>1, Product
  <2>3. QED
    BY <2>1, <2>2
<1> DEFINE x == (e + (c - 1) * s) * w
           y == (e + (MaxCluster - 1) * s) * w
<1>7. x \in Nat /\ y \in Nat /\ x <= y /\ y < INT_LIMIT
  BY <1>1, <1>5, <1>6
<1> HIDE DEF x, y
<1>8. x < INT_LIMIT
  BY <1>1, <1>7
<1>9. QED
  BY <1>3, <1>4, <1>8 DEF x

LEMMA ChainFacts ==
  ASSUME IsChain
  PROVE  /\ Len(chain) \in Nat \ {0} /\ \A k \in 1 .. Len(chain) : chain[k] \in Clusters
         /\ chain[1] \in 1 .. END_OF_CHAIN
         /\ Base \in Nat /\ Base + ClusterSize < INT_LIMIT
<1>1. PICK n \in 1 .. MaxChain : chain \in [1 .. n -> Clusters]
  BY DEF IsChain
<1>2. n \in Nat \ {0} /\ Len(chain) = n /\ \A k \in 1 .. n : chain[k] \in Clusters
  BY <1>1, ReadAssumption
<1>3. chain[1] \in 1 .. END_OF_CHAIN
  <2>1. 1 \in 1 .. n
    BY <1>2
  <2>2. chain[1] \in 2 .. END_OF_CHAIN
    BY <1>2, <2>1, ClusterSizes
  <2>3. QED
    BY <2>2, Word
<1>4. Base + ClusterSize < INT_LIMIT
  <2>1. chain[1] \in Clusters
    BY <1>2
  <2>2. QED
    BY <2>1, ClusterFits DEF Base
<1>5. QED
  BY <1>2, <1>3, <1>4, ClusterPlace DEF Base

(* Whatever fat16_get_fat_entry reads is a 16-bit word.                    *)
LEMMA EntryIsWord ==
  ASSUME IsChain, NEW c, NEW entry \in fat16_get_fat_entry(c)
  PROVE  entry \in 0 .. END_OF_CHAIN
<1>1. ASSUME NEW d PROVE FatEntry(d) \in 0 .. END_OF_CHAIN
  <2>1. CASE \E k \in 1 .. Len(chain) - 1 : chain[k] = d
    <3> DEFINE m == CHOOSE k \in 1 .. Len(chain) - 1 : chain[k] = d
    <3>1. m \in 1 .. Len(chain) - 1
      BY <2>1
    <3> HIDE DEF m
    <3>2. m + 1 \in 1 .. Len(chain)
      BY <3>1, ChainFacts
    <3>3. chain[m + 1] \in 0 .. END_OF_CHAIN
      <4>1. chain[m + 1] \in Clusters
        BY <3>2, ChainFacts
      <4>2. chain[m + 1] \in 2 .. END_OF_CHAIN
        BY <4>1, ClusterSizes
      <4>3. QED
        BY <4>2, Word
    <3>4. FatEntry(d) = chain[m + 1]
      BY <2>1 DEF FatEntry, m
    <3>5. QED
      BY <3>3, <3>4
  <2>2. CASE ~ \E k \in 1 .. Len(chain) - 1 : chain[k] = d
    BY <2>2, ClusterSizes DEF FatEntry
  <2>3. QED
    BY <2>1, <2>2
<1>2. ASSUME NEW p, NEW w \in WordAt(p) PROVE w \in 0 .. END_OF_CHAIN
  BY <1>1, <1>2, ReadAssumption DEF WordAt
<1>3. QED
  BY <1>2 DEF fat16_get_fat_entry

(* What diskSteamerRead appends.                                           *)
LEMMA Appended ==
  ASSUME out \in Seq(Int), pos \in Int, NEW n \in Nat
  PROVE  /\ out \o FromSector(n) \in Seq(Int)
         /\ Len(out) \in Nat
         /\ Len(out \o FromSector(n)) = Len(out) + n
         /\ \A k \in 1 .. Len(out) : (out \o FromSector(n))[k] = out[k]
         /\ \A k \in Len(out) + 1 .. Len(out) + n :
              (out \o FromSector(n))[k] = pos + (k - Len(out)) - 1
<1> DEFINE s == FromSector(n)
<1>1. \A k \in 1 .. n : pos + k - 1 \in Int
  OBVIOUS
<1>2. s \in Seq(Int) /\ Len(s) = n /\ \A k \in 1 .. n : s[k] = pos + k - 1
  BY <1>1 DEF FromSector
<1>3. Len(out) \in Nat
  OBVIOUS
<1> HIDE DEF s
<1>4. /\ out \o s \in Seq(Int) /\ Len(out \o s) = Len(out) + Len(s)
      /\ \A k \in 1 .. Len(out) + Len(s) :
           (out \o s)[k] = IF k <= Len(out) THEN out[k] ELSE s[k - Len(out)]
  BY <1>2, ConcatProperties
<1>5. ASSUME NEW k \in Len(out) + 1 .. Len(out) + n
      PROVE  (out \o s)[k] = pos + (k - Len(out)) - 1
  <2>1. k - Len(out) \in 1 .. n /\ ~ (k <= Len(out)) /\ k \in 1 .. Len(out) + n
    BY <1>3
  <2>2. QED
    BY <1>2, <1>4, <2>1
<1>6. ASSUME NEW k \in 1 .. Len(out) PROVE (out \o s)[k] = out[k]
  <2>1. k \in 1 .. Len(out) + n /\ k <= Len(out)
    BY <1>3
  <2>2. QED
    BY <1>2, <1>4, <2>1
<1>7. QED
  BY <1>2, <1>3, <1>4, <1>5, <1>6 DEF s

(* Division by the size of a cluster, below it.                            *)
LEMMA WithinFirst ==
  ASSUME NEW b \in Nat, NEW c \in Nat \ {0}, b < c
  PROVE  b \div c = 0 /\ b % c = b
OBVIOUS

-----------------------------------------------------------------------------
LEMMA InitRInv == Init => RInv
<1> SUFFICES ASSUME Init PROVE RInv
  OBVIOUS
<1>1. IsChain
  BY DEF Init, ChainsOf, IsChain
<1>2. TypeOK
  BY Word, ReadAssumption DEF Init, TypeOK, NoRequest
<1>3. Running /\ Progress /\ ExactCount
  BY DEF Init, Running, Progress, ExactCount, Finished
<1>4. InPlace
  BY DEF Init, InPlace
<1>5. QED
  BY <1>1, <1>2, <1>3, <1>4 DEF RInv

(* What the invariant says of the numbers of a read.                       *)
LEMMA Numbers ==
  ASSUME RInv
  PROVE  /\ req.offset \in Nat /\ req.size \in Nat /\ req.nmemb \in Nat
         /\ done \in Nat /\ offset \in Nat /\ total \in Nat /\ i \in Nat /\ pos \in Int
         /\ left \in Nat /\ out \in Seq(Int) /\ Len(out) \in Nat
         /\ done * req.size \in Nat /\ req.size * req.nmemb \in Nat
         /\ pc # "idle" => Before \in Nat /\ Piece \in 1 .. total /\ Piece <= ClusterSize
<1>1. /\ req.offset \in Nat /\ req.size \in Nat /\ req.nmemb \in Nat
      /\ done \in Nat /\ offset \in Nat /\ total \in Nat /\ i \in Nat /\ pos \in Int
      /\ left \in Nat /\ out \in Seq(Int)
  BY ReadAssumption DEF RInv, TypeOK
<1>2. done * req.size \in Nat /\ req.size * req.nmemb \in Nat /\ Len(out) \in Nat
  BY <1>1, Product
<1>3. ASSUME pc # "idle" PROVE Before \in Nat /\ Piece \in 1 .. total /\ Piece <= ClusterSize
  <2>1. total \in 1 .. req.size
    BY <1>3 DEF RInv, Running
  <2>2. Before \in Nat
    BY <1>1, <1>2, <2>1 DEF Before
  <2>3. Piece \in 1 .. total /\ Piece <= ClusterSize
    BY <1>1, <2>1, ClusterSizes DEF Piece
  <2>4. QED
    BY <2>2, <2>3
<1>4. QED
  BY <1>1, <1>2, <1>3

(* A member fits what is left of the read.                                 *)
LEMMA Room ==
  ASSUME RInv, pc # "idle"
  PROVE  /\ Before + total <= req.size * req.nmemb
         /\ done + 1 = req.nmemb => Before + total = req.size * req.nmemb
         /\ Near => offset < ClusterSize /\ offset + total <= ClusterSize
<1> DEFINE s == req.size
           n == req.nmemb
           b == done * s
           w == s * n
<1>1. /\ done \in Nat /\ s \in Nat /\ n \in Nat /\ b \in Nat /\ w \in Nat /\ total \in 1 .. s
      /\ req.offset \in Nat /\ done + 1 <= n /\ offset = req.offset + Before
      /\ Before = b + (s - total)
  <2>1. /\ done \in Nat /\ s \in Nat /\ n \in Nat /\ b \in Nat /\ w \in Nat
        /\ req.offset \in Nat
    BY Numbers
  <2>2. done < n /\ total \in 1 .. s /\ offset = req.offset + Before
    BY DEF RInv, Running
  <2>3. Before = b + (s - total)
    BY DEF Before
  <2>4. done + 1 <= n
    BY <2>1, <2>2
  <2>5. QED
    BY <2>1, <2>2, <2>3, <2>4
<1>2. b + s <= w /\ (done + 1 = n => b + s = w)
  <2> HIDE DEF s, n
  <2>1. QED
    BY <1>1, Factor
<1>3. Near => req.offset + w <= ClusterSize
  BY DEF Near
<1> HIDE DEF s, n, b, w
<1>4. /\ Before + total <= w
      /\ done + 1 = n => Before + total = w
      /\ Near => offset < ClusterSize /\ offset + total <= ClusterSize
  BY <1>1, <1>2, <1>3, ClusterSizes
<1>5. QED
  BY <1>4 DEF s, n, w

LEMMA ReadInv ==
  ASSUME RInv, NEW o \in Nat, NEW size \in Nat \ {0}, NEW nmemb \in Nat \ {0},
         fat16_read(o, size, nmemb)
  PROVE  RInv'
<1>1. /\ IsChain /\ TypeOK /\ chain' = chain /\ pc' = "walk"
      /\ req' = [offset |-> o, size |-> size, nmemb |-> nmemb]
      /\ done' = 0 /\ offset' = o /\ total' = size /\ i' = 0
      /\ cluster_to_use' = chain[1] /\ out' = << >> /\ res' = 0 /\ pos' = pos /\ left' = left
  BY DEF RInv, fat16_read
<1>2. IsChain' /\ chain[1] \in 1 .. END_OF_CHAIN
  BY <1>1, ChainFacts DEF IsChain
<1>3. req'.offset = o /\ req'.size = size /\ req'.nmemb = nmemb
  BY <1>1
<1>4. TypeOK'
  <2>1. cluster_to_use' \in 0 .. END_OF_CHAIN
    BY <1>1, <1>2, Word
  <2>2. req' \in [offset : Nat, size : Nat, nmemb : Nat]
    BY <1>1
  <2>3. {done, offset, total, i, left}' \subseteq Nat
    BY <1>1 DEF TypeOK
  <2>4. /\ out' \in Seq(Int) /\ res' \in {-EIO} \cup Nat
        /\ pos' \in -INT_LIMIT .. INT_LIMIT - 1
    BY <1>1 DEF TypeOK
  <2>5. QED
    BY <1>1, <2>1, <2>2, <2>3, <2>4 DEF TypeOK
<1>5. Before' = 0
  BY <1>1, <1>3 DEF Before
<1>6. Running' /\ Progress'
  BY <1>1, <1>2, <1>3, <1>5 DEF Running, Progress
<1>7. ExactCount'
  BY <1>1 DEF ExactCount, Finished
<1>8. InPlace'
  BY <1>1 DEF InPlace
<1>9. QED
  BY <1>2, <1>4, <1>6, <1>7, <1>8 DEF RInv

(* One cluster further.                                                    *)
LEMMA WalkNextInv ==
  ASSUME RInv, WalkNext
  PROVE  RInv'
<1>1. /\ pc = "walk" /\ i < offset \div ClusterSize /\ i' = i + 1
      /\ UNCHANGED <<chain, pc, req, done, offset, total, pos, left, out, res>>
  BY DEF WalkNext
<1>2. PICK entry \in fat16_get_fat_entry(cluster_to_use) :
        entry \notin Refused /\ cluster_to_use' = entry
  BY DEF WalkNext
<1>3. entry \in 0 .. END_OF_CHAIN /\ entry # 0
  BY <1>2, EntryIsWord, ZeroRefused DEF RInv
<1>4. cluster_to_use' \in 1 .. END_OF_CHAIN
  BY <1>2, <1>3, Word
<1>5. IsChain' /\ TypeOK'
  <2>1. IsChain'
    BY <1>1 DEF RInv, IsChain
  <2>2. cluster_to_use' \in 0 .. END_OF_CHAIN /\ i' \in Nat
    <3>1. i' = i + 1 /\ i \in Nat
      BY Numbers DEF WalkNext
    <3>2. cluster_to_use' \in 0 .. END_OF_CHAIN
      BY <1>2, <1>3
    <3>3. QED
      BY <3>1, <3>2
  <2>3. TypeOK
    BY DEF RInv
  <2>4. {done, offset, total, i, left}' \subseteq Nat
    BY <1>1, <2>2, Numbers
  <2>5. TypeOK'
    BY <1>1, <2>2, <2>3, <2>4 DEF TypeOK
  <2>6. QED
    BY <2>1, <2>5
<1>6. Running' /\ Progress' /\ ExactCount'
  BY <1>1, <1>4 DEF RInv, Running, Progress, ExactCount, Finished, Before, Piece
<1>7. ~ Near
  <2>1. SUFFICES ASSUME Near PROVE FALSE
    OBVIOUS
  <2>2. offset < ClusterSize
    BY <1>1, <2>1, Room
  <2>3. offset \div ClusterSize = 0
    BY <2>2, Numbers, ClusterSizes, WithinFirst
  <2>4. QED
    BY <1>1, <2>3, Numbers
<1>8. Near' = Near
  BY <1>1 DEF Near
<1>9. QED
  BY <1>5, <1>6, <1>7, <1>8 DEF RInv, InPlace

LEMMA WalkFailsInv ==
  ASSUME RInv, WalkFails
  PROVE  RInv'
<1>1. /\ res' = -EIO /\ pc' = "idle"
      /\ UNCHANGED <<chain, req, done, offset, total, i, cluster_to_use, pos, left, out>>
  BY DEF WalkFails
<1>2. IsChain' /\ TypeOK'
  BY <1>1 DEF RInv, IsChain, TypeOK
<1>3. Running' /\ Progress'
  BY <1>1 DEF Running, Progress
<1>4. ExactCount'
  BY <1>1 DEF ExactCount, Finished, EIO
<1>5. InPlace'
  BY <1>1 DEF RInv, InPlace, Near, Base, fat16_cluster_to_sector
<1>6. QED
  BY <1>2, <1>3, <1>4, <1>5 DEF RInv

(* The seek: the bytes to come begin where the stream now stands.          *)
LEMMA SeekInv ==
  ASSUME RInv, Seek
  PROVE  RInv'
<1> DEFINE base == fat16_cluster_to_sector(cluster_to_use) * SECTOR_SIZE
<1>1. /\ pc = "walk" /\ pc' = "stream"
      /\ pos' = AsInt(base + (offset % ClusterSize)) /\ left' = Piece
      /\ UNCHANGED <<chain, req, done, offset, total, i, cluster_to_use, out, res>>
  BY DEF Seek, Piece
<1>2. base \in Nat
  BY <1>1, ClusterPlace DEF RInv, Running
<1> DEFINE rest == offset % ClusterSize
<1>3. rest \in Nat
  BY Numbers, ClusterSizes
<1>4. Piece \in 1 .. total /\ Piece' = Piece /\ Before' = Before /\ Before \in Nat
  BY <1>1, Numbers DEF Piece, Before
<1> HIDE DEF base, rest
<1>5. pos' \in -INT_LIMIT .. INT_LIMIT - 1 /\ left' \in Nat
  <2>1. pos' = AsInt(base + rest) /\ left' = Piece /\ total \in Nat /\ base + rest \in Int
    BY <1>1, <1>2, <1>3, Numbers DEF rest
  <2>2. QED
    BY <1>4, <2>1, IntValue
<1>6. IsChain' /\ TypeOK'
  BY <1>1, <1>5 DEF RInv, IsChain, TypeOK
<1>7. Running'
  BY <1>1, <1>4 DEF RInv, Running
<1>8. Progress'
  <2>1. Len(out) = Before
    BY <1>1 DEF RInv, Progress
  <2>2. QED
    BY <1>1, <1>4, <2>1, Numbers DEF Progress
<1>9. ExactCount'
  BY <1>1 DEF ExactCount, Finished
<1>10. InPlace'
  <2> SUFFICES ASSUME Near'
               PROVE  /\ \A k \in 1 .. Len(out') : out'[k] = Base' + req'.offset + k - 1
                      /\ pos' = Base' + req'.offset + Len(out')
    BY <1>1 DEF InPlace
  <2>1. Near /\ Base' = Base
    BY <1>1 DEF Near, Base, fat16_cluster_to_sector
  <2>2. /\ \A k \in 1 .. Len(out) : out[k] = Base + req.offset + k - 1
        /\ cluster_to_use = chain[1] /\ Len(out) = Before /\ offset = req.offset + Before
    BY <1>1, <2>1 DEF RInv, InPlace, Progress, Running
  <2>3. base = Base
    BY <2>2 DEF base, Base
  <2>4. rest = offset
    BY <1>1, <2>1, Room, Numbers, ClusterSizes, WithinFirst DEF rest
  <2>5. pos' = Base + req.offset + Len(out)
    <3>1. pos' = base + rest
      <4>1. pos' = AsInt(base + rest)
        BY <1>1 DEF rest
      <4>2. base + rest \in Nat /\ base + rest < INT_LIMIT
        <5>1. rest < ClusterSize
          BY <1>1, <2>1, <2>4, Room
        <5>2. base + ClusterSize < INT_LIMIT /\ ClusterSize \in Nat /\ INT_LIMIT \in Nat
          BY <2>3, ChainFacts, ClusterSizes, ReadAssumption DEF RInv
        <5>3. QED
          BY <1>2, <1>3, <5>1, <5>2
      <4>3. QED
        BY <4>1, <4>2, IntValue
    <3>2. req.offset \in Nat
      BY Numbers
    <3>3. pos' = Base + (req.offset + Before) /\ Base \in Nat /\ Before \in Nat
      BY <1>2, <1>4, <2>2, <2>3, <2>4, <3>1
    <3>4. pos' = Base + req.offset + Before
      BY <3>2, <3>3
    <3>5. QED
      BY <2>2, <3>4
  <2>6. QED
    BY <1>1, <2>1, <2>2, <2>5
<1>11. QED
  BY <1>6, <1>7, <1>8, <1>9, <1>10 DEF RInv

(* A piece of n bytes goes from the stream to the answer.                  *)
Extended(n) ==
  /\ out' \in Seq(Int) /\ Len(out) \in Nat /\ Len(out') = Len(out) + n
  /\ \A k \in 1 .. Len(out) : out'[k] = out[k]
  /\ \A k \in Len(out) + 1 .. Len(out) + n : out'[k] = pos + (k - Len(out)) - 1

LEMMA Streamed ==
  ASSUME RInv, pc = "stream", NEW n \in Nat, n <= left,
         Extended(n), pos' = AsInt(pos + n), left' = left - n,
         pc' = "stream" \/ (pc' = "more" /\ n = left),
         UNCHANGED <<chain, req, done, offset, total, i, cluster_to_use, res>>
  PROVE  RInv'
<1> DEFINE old == Len(out)
           new == Len(out')
           start == Base + req.offset
<1>1. /\ old \in Nat /\ new = old + n /\ left \in Nat /\ pos \in Int /\ out' \in Seq(Int)
      /\ start \in Nat
  <2>1. old \in Nat /\ new = old + n /\ out' \in Seq(Int)
    BY DEF Extended
  <2>2. left \in Nat /\ pos \in Int /\ req.offset \in Nat
    BY Numbers
  <2>3. Base \in Nat
    BY ChainFacts DEF RInv
  <2>4. QED
    BY <2>1, <2>2, <2>3
<1>2. /\ \A k \in 1 .. old : out'[k] = out[k]
      /\ \A k \in old + 1 .. old + n : out'[k] = pos + (k - old) - 1
  BY DEF Extended
<1>3. Piece \in 1 .. total /\ Piece' = Piece /\ Before' = Before /\ Before \in Nat /\ total \in Nat
  BY Numbers DEF Piece, Before
<1>4. left <= Piece /\ old = Before + Piece - left
  BY DEF RInv, Progress
<1>5. Near => /\ \A k \in 1 .. old : out[k] = start + k - 1
              /\ pos = start + old
  <2> HIDE DEF old
  <2>1. Near => /\ \A k \in 1 .. old : out[k] = Base + req.offset + k - 1
                /\ pos = Base + req.offset + old
    BY DEF RInv, InPlace, old
  <2>2. QED
    BY <2>1
<1> HIDE DEF old, new, start
<1>6. /\ pos' \in -INT_LIMIT .. INT_LIMIT - 1
      /\ left' \in Nat /\ left' <= Piece /\ new = Before + Piece - left'
      /\ (n = left => left' = 0)
  <2>1. Piece \in Nat
    BY <1>3
  <2>2. pos + n \in Int
    BY <1>1
  <2>3. pos' \in -INT_LIMIT .. INT_LIMIT - 1
    BY <2>2, IntValue
  <2>4. QED
    BY <1>1, <1>3, <1>4, <2>1, <2>3
<1>7. IsChain' /\ TypeOK'
  BY <1>1, <1>6 DEF RInv, IsChain, TypeOK
<1>8. Running'
  BY <1>3 DEF RInv, Running
<1>9. Progress'
  <2>1. pc' = "more" => new = Before + Piece
    <3>1. Piece \in Nat
      BY <1>3
    <3>2. QED
      BY <1>3, <1>6, <3>1
  <2>2. QED
    BY <1>3, <1>6, <2>1 DEF Progress, new
<1>10. ExactCount'
  BY DEF ExactCount, Finished
<1>11. Near' = Near /\ (Base + req.offset)' = start
  BY DEF Near, Base, fat16_cluster_to_sector, start
<1>12. ASSUME Near PROVE pos' = start + new /\ \A k \in 1 .. new : out'[k] = start + k - 1
  <2>1. pos = start + old /\ \A k \in 1 .. old : out[k] = start + k - 1
    BY <1>5, <1>12
  <2>2. pos' = start + new
    <3>1. pos + n = start + new /\ start + new \in Nat
      BY <1>1, <2>1
    <3>2. start + new < INT_LIMIT
      <4>1. req.offset + new <= ClusterSize
        <5>1. /\ offset + total <= ClusterSize /\ offset = req.offset + Before
              /\ req.offset \in Nat /\ offset \in Nat
          BY <1>12, Room, Numbers DEF RInv, Running
        <5>2. new <= Before + total
          <6>1. Piece \in Nat /\ Piece <= total
            BY <1>3
          <6>2. QED
            BY <1>3, <1>6, <6>1
        <5>3. ClusterSize \in Nat /\ new \in Nat /\ Before \in Nat /\ total \in Nat
          BY <1>1, <1>3, ClusterSizes
        <5>4. QED
          BY <5>1, <5>2, <5>3
      <4>2. /\ Base \in Nat /\ Base + ClusterSize < INT_LIMIT /\ ClusterSize \in Nat
            /\ INT_LIMIT \in Nat /\ req.offset \in Nat
        BY ChainFacts, ClusterSizes, ReadAssumption, Numbers DEF RInv
      <4>3. start = Base + req.offset
        BY DEF start
      <4>4. QED
        BY <1>1, <4>1, <4>2, <4>3
    <3>3. QED
      BY <3>1, <3>2, IntValue
  <2>3. ASSUME NEW k \in 1 .. new PROVE out'[k] = start + k - 1
    <3>1. CASE k <= old
      <4>1. k \in 1 .. old
        BY <1>1, <3>1
      <4>2. QED
        BY <1>2, <2>1, <4>1
    <3>2. CASE k > old
      <4>1. k \in old + 1 .. old + n /\ k \in Int
        BY <1>1, <3>2
      <4>2. out'[k] = pos + (k - old) - 1
        BY <1>2, <4>1
      <4>3. pos + (k - old) - 1 = start + k - 1
        BY <1>1, <2>1, <4>1
      <4>4. QED
        BY <4>2, <4>3
    <3>3. QED
      BY <1>1, <3>1, <3>2
  <2>4. QED
    BY <2>2, <2>3
<1>13. InPlace'
  BY <1>11, <1>12 DEF InPlace, new
<1>14. QED
  BY <1>7, <1>8, <1>9, <1>10, <1>13 DEF RInv

LEMMA StreamInv ==
  ASSUME RInv, StreamOverflow \/ StreamLast
  PROVE  RInv'
<1>1. CASE StreamOverflow
  <2> DEFINE r == Rem
             n == SECTOR_SIZE - r
  <2>1. r \in Int /\ r < SECTOR_SIZE /\ r + left >= SECTOR_SIZE
    <3>1. r \in Int /\ r < SECTOR_SIZE
      <4>1. pos \in Int /\ SECTOR_SIZE \in Nat \ {0}
        BY Numbers, ClusterSizes
      <4>2. ASSUME NEW b \in Int, NEW c \in Nat \ {0} PROVE b % c \in 0 .. c - 1
        BY <4>2
      <4>3. pos % SECTOR_SIZE \in 0 .. SECTOR_SIZE - 1 /\ (-pos) % SECTOR_SIZE \in 0 .. SECTOR_SIZE - 1
        BY <4>1, <4>2
      <4>4. QED
        BY <4>1, <4>3 DEF Rem
    <3>2. r + left >= SECTOR_SIZE
      BY <1>1 DEF StreamOverflow, overflow
    <3>3. QED
      BY <3>1, <3>2
  <2>2. n \in Nat /\ n <= left
    <3> HIDE DEF r
    <3>1. QED
      BY <2>1, Numbers, ClusterSizes
  <2>3. /\ pc = "stream" /\ pc' = "stream"
        /\ out' = out \o FromSector(n) /\ pos' = AsInt(pos + n) /\ left' = left - n
        /\ UNCHANGED <<chain, req, done, offset, total, i, cluster_to_use, res>>
    BY <1>1 DEF StreamOverflow
  <2> HIDE DEF n
  <2>4. Extended(n)
    BY <2>2, <2>3, Numbers, Appended DEF Extended
  <2>5. QED
    BY <2>2, <2>3, <2>4, Streamed
<1>2. CASE StreamLast
  <2>1. /\ pc = "stream" /\ pc' = "more"
        /\ out' = out \o FromSector(left) /\ pos' = AsInt(pos + left) /\ left' = left - left
        /\ UNCHANGED <<chain, req, done, offset, total, i, cluster_to_use, res>>
    BY <1>2, Numbers DEF StreamLast
  <2>2. left \in Nat /\ left <= left
    BY Numbers
  <2>3. Extended(left)
    BY <2>1, Numbers, Appended DEF Extended
  <2>4. QED
    BY <2>1, <2>2, <2>3, Streamed
<1>3. QED
  BY <1>1, <1>2

(* The next call of fat16_read_internal_from_stream starts with numbers of *)
(* their types.                                                            *)
LEMMA StillTyped ==
  ASSUME IsChain, TypeOK, pc' = "walk", done' \in Nat, total' \in Nat, offset' \in Nat, i' = 0,
         cluster_to_use' = chain[1], UNCHANGED <<chain, req, pos, left, out, res>>
  PROVE  IsChain' /\ TypeOK'
<1>1. IsChain'
  BY DEF IsChain
<1>2. cluster_to_use' \in 0 .. END_OF_CHAIN
  BY ChainFacts, Word
<1>3. TypeOK'
  BY <1>2 DEF TypeOK
<1>4. QED
  BY <1>1, <1>3

(* fat16_read_internal_from_stream calls itself for the rest.              *)
LEMMA NextClusterInv ==
  ASSUME RInv, NextCluster
  PROVE  RInv'
<1> DEFINE p == Piece
<1>1. /\ pc = "more" /\ pc' = "walk" /\ total - p > 0
      /\ total' = total - p /\ offset' = offset + p
      /\ i' = 0 /\ cluster_to_use' = chain[1]
      /\ UNCHANGED <<chain, req, done, pos, left, out, res>>
  BY DEF NextCluster
<1>2. /\ p \in 1 .. total /\ total \in Nat /\ total \in 1 .. req.size /\ Before \in Nat
      /\ offset \in Nat /\ req.size \in Nat /\ req.offset \in Nat
      /\ offset = req.offset + Before /\ Len(out) = Before + p /\ done < req.nmemb
  BY <1>1, Numbers DEF RInv, Running, Progress
<1>3. chain[1] \in 1 .. END_OF_CHAIN /\ IsChain
  BY ChainFacts DEF RInv
<1> HIDE DEF p
<1>4. Before' = Before + p
  <2> DEFINE b == done * req.size
             s == req.size
  <2>1. Before = b + (s - total) /\ Before' = b + (s - total')
    BY <1>1 DEF Before
  <2>2. b \in Nat /\ s \in Nat
    BY Numbers
  <2> HIDE DEF b, s
  <2>3. QED
    BY <1>1, <1>2, <2>1, <2>2
<1>5. total' \in 1 .. req.size /\ offset' \in Nat /\ offset' = req.offset + Before'
  <2>1. p \in Nat /\ total - p \in 1 .. req.size
    BY <1>1, <1>2
  <2>2. offset + p = req.offset + (Before + p) /\ offset + p \in Nat
    <3>1. /\ offset \in Nat /\ req.offset \in Nat /\ Before \in Nat
          /\ offset = req.offset + Before
      BY <1>2
    <3>2. QED
      BY <2>1, <3>1
  <2>3. QED
    BY <1>1, <1>4, <2>1, <2>2
<1>6. IsChain' /\ TypeOK'
  <2>1. total' \in Nat
    BY <1>2, <1>5
  <2>2. QED
    <3>1. done' \in Nat
      BY <1>1, Numbers
    <3>2. QED
      BY <1>1, <1>5, <2>1, <3>1, StillTyped DEF RInv
<1>7. Running' /\ Progress'
  BY <1>1, <1>2, <1>3, <1>4, <1>5 DEF Running, Progress
<1>8. ExactCount'
  BY <1>1 DEF ExactCount, Finished
<1>9. InPlace'
  BY <1>1 DEF RInv, InPlace, Near, Base, fat16_cluster_to_sector
<1>10. QED
  BY <1>6, <1>7, <1>8, <1>9 DEF RInv

(* A member is complete.                                                   *)
LEMMA MemberDone ==
  ASSUME RInv, pc = "more", total - Piece <= 0
  PROVE  /\ Len(out) = Before + total
         /\ Len(out) = (done + 1) * req.size
<1> DEFINE b == done * req.size
           s == req.size
<1>1. /\ Piece \in 1 .. total /\ total \in Nat /\ Before \in Nat /\ b \in Nat /\ s \in Nat
      /\ done \in Nat
  BY Numbers
<1>2. Len(out) = Before + Piece /\ Before = b + (s - total)
  BY DEF RInv, Progress, Before
<1>3. (done + 1) * s = b + s
  BY <1>1, OneMore
<1> HIDE DEF b, s
<1>4. Piece = total
  BY <1>1
<1>5. Len(out) = Before + total /\ Len(out) = b + s
  BY <1>1, <1>2, <1>4
<1>6. QED
  BY <1>3, <1>5 DEF b, s

(* fat16_read goes on to the next member.                                  *)
LEMMA NextMemberInv ==
  ASSUME RInv, NextMember
  PROVE  RInv'
<1> DEFINE q == (done + 1) * req.size
<1>1. /\ pc = "more" /\ pc' = "walk" /\ total - Piece <= 0 /\ done + 1 < req.nmemb
      /\ done' = done + 1 /\ total' = req.size /\ offset' = req.offset + q
      /\ i' = 0 /\ cluster_to_use' = chain[1]
      /\ UNCHANGED <<chain, req, pos, left, out, res>>
  BY DEF NextMember
<1>2. /\ done \in Nat /\ req.size \in Nat /\ req.offset \in Nat /\ total \in 1 .. req.size
  BY <1>1, Numbers DEF RInv, Running
<1>3. q \in Nat /\ done + 1 \in Nat
  BY <1>2, Product
<1>4. Len(out) = q
  BY <1>1, MemberDone
<1>5. chain[1] \in 1 .. END_OF_CHAIN /\ IsChain
  BY ChainFacts DEF RInv
<1>6. Before' = q
  <2>1. Before' = q + (req.size - req.size)
    BY <1>1 DEF Before
  <2> HIDE DEF q
  <2>2. QED
    BY <1>2, <1>3, <2>1
<1> HIDE DEF q
<1>7. offset' \in Nat /\ total' \in 1 .. req.size
  BY <1>1, <1>2, <1>3
<1>8. IsChain' /\ TypeOK'
  <2>1. done' \in Nat /\ total' \in Nat
    BY <1>1, <1>2, <1>3
  <2>2. QED
    BY <1>1, <1>7, <2>1, StillTyped DEF RInv
<1>9. Running' /\ Progress'
  BY <1>1, <1>4, <1>5, <1>6, <1>7 DEF Running, Progress
<1>10. ExactCount'
  BY <1>1 DEF ExactCount, Finished
<1>11. InPlace'
  BY <1>1 DEF RInv, InPlace, Near, Base, fat16_cluster_to_sector
<1>12. QED
  BY <1>8, <1>9, <1>10, <1>11 DEF RInv

(* fat16_read returns.                                                     *)
LEMMA ReadReturnsInv ==
  ASSUME RInv, ReadReturns
  PROVE  RInv'
<1>1. /\ pc = "more" /\ pc' = "idle" /\ total - Piece <= 0 /\ done + 1 = req.nmemb
      /\ res' = req.nmemb
      /\ UNCHANGED <<chain, req, done, offset, total, i, cluster_to_use, pos, left, out>>
  BY DEF ReadReturns
<1>2. Len(out) = Before + total /\ Before + total = req.size * req.nmemb
  BY <1>1, MemberDone, Room
<1>3. IsChain' /\ TypeOK'
  BY <1>1, Numbers DEF RInv, IsChain, TypeOK
<1>4. Running' /\ Progress'
  BY <1>1 DEF Running, Progress
<1>5. ExactCount'
  BY <1>1, <1>2 DEF ExactCount
<1>6. InPlace'
  BY <1>1 DEF RInv, InPlace, Near, Base, fat16_cluster_to_sector
<1>7. QED
  BY <1>3, <1>4, <1>5, <1>6 DEF RInv

-----------------------------------------------------------------------------
LEMMA NextRInv == RInv /\ [Next]_vars => RInv'
<1> SUFFICES ASSUME RInv, [Next]_vars PROVE RInv'
  OBVIOUS
<1>1. ASSUME NEW o \in 0 .. MaxChain * ClusterSize, NEW size \in Sizes, NEW nmemb \in Counts,
             fat16_read(o, size, nmemb)
      PROVE  RInv'
  <2>1. MaxChain * ClusterSize \in Nat
    BY ReadAssumption, ClusterSizes, Product
  <2> HIDE DEF ClusterSize
  <2>2. o \in Nat /\ size \in Nat \ {0} /\ nmemb \in Nat \ {0}
    BY <2>1, ReadAssumption
  <2>3. QED
    BY <1>1, <2>2, ReadInv
<1>2. CASE Step
  BY <1>2, WalkNextInv, WalkFailsInv, SeekInv, StreamInv, NextClusterInv, NextMemberInv,
     ReadReturnsInv DEF Step
<1>3. CASE UNCHANGED vars
  BY <1>3 DEF vars, RInv, IsChain, TypeOK, Running, Progress, ExactCount, InPlace, Finished,
              Before, Piece, Near, Base, fat16_cluster_to_sector
<1>4. QED
  BY <1>1, <1>2, <1>3 DEF Next

(* Every reachable state satisfies the inductive invariant.                *)
LEMMA RInvariance == Spec => []RInv
<1>1. QED
  BY InitRInv, NextRInv, PTL DEF Spec

(* Arguments and locals keep their types whatever word fat16_get_fat_entry *)
(* finds: no error of the walk is ever taken for a cluster, and the counts *)
(* of bytes left never go below zero.                                      *)
THEOREM ReadTypes == Spec => []TypeOK
BY RInvariance, PTL DEF RInv

(* fat16_read that succeeds returns nmemb and has delivered exactly size   *)
(* times nmemb bytes, for every geometry, offset, size and count.          *)
THEOREM CountIsExact == Spec => []ExactCount
BY RInvariance, PTL DEF RInv

(* A read that stays within the first cluster of a file delivers the bytes *)
(* of the file at its offset, in order, across members and sectors.        *)
THEOREM FirstClusterIsRight == Spec => []FirstClusterRead
<1>1. RInv => FirstClusterRead
  <2> SUFFICES ASSUME RInv, Finished, Near PROVE out = Delivered
    BY DEF FirstClusterRead, Near
  <2> DEFINE n == req.size * req.nmemb
             start == req.offset
  <2>1. /\ out \in Seq(Int) /\ Len(out) = n /\ n \in Nat /\ start \in Nat /\ Base \in Nat
        /\ start + n <= ClusterSize /\ ClusterSize \in Nat \ {0}
    <3>1. out \in Seq(Int) /\ n \in Nat /\ start \in Nat
      BY Numbers
    <3>2. Len(out) = n /\ start + n <= ClusterSize
      BY DEF RInv, ExactCount, Near
    <3>3. Base \in Nat
      BY ChainFacts DEF RInv
    <3>4. QED
      BY <3>1, <3>2, <3>3, ClusterSizes
  <2>2. \A k \in 1 .. Len(out) : out[k] = Base + start + k - 1
    BY DEF RInv, InPlace
  <2> HIDE DEF n, start
  <2>3. ASSUME NEW k \in 1 .. n PROVE out[k] = FileByte(start + k - 1)
    <3> DEFINE b == start + k - 1
    <3>1. b \in Nat /\ b < ClusterSize
      BY <2>1
    <3> HIDE DEF b
    <3>2. b \div ClusterSize = 0 /\ b % ClusterSize = b
      BY <2>1, <3>1, WithinFirst
    <3>3. FileByte(b) = Base + b
      BY <3>2 DEF FileByte, Base
    <3>4. out[k] = Base + start + k - 1
      BY <2>1, <2>2
    <3>5. Base + start + k - 1 = Base + b
      BY <2>1 DEF b
    <3>6. QED
      BY <3>3, <3>4, <3>5 DEF b
  <2>4. Delivered = [k \in 1 .. n |-> FileByte(start + k - 1)]
    BY DEF Delivered, n, start
  <2>5. out = [k \in 1 .. n |-> out[k]]
    BY <2>1
  <2>6. QED
    BY <2>3, <2>4, <2>5
<1>2. QED
  BY <1>1, RInvariance, PTL
=============================================================================
