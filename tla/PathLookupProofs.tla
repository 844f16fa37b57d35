-------------------------- MODULE PathLookupProofs --------------------------
(***************************************************************************)
(* Parsing a path and giving it back, for every file name, every length of *)
(* path and every directory: types, the list of parts against the          *)
(* components between the slashes, the blocks of a failed fopen, and the   *)
(* entry that is found.                                                    *)
(*                                                                         *)
(* Blocks are allocated in the order root, string and node of each part,   *)
(* string of the empty part that ends the list; the last is freed at once  *)
(* and the others in the order of their allocation, the root at the end.   *)
(* So the j-th block given back is block j but for the first and the last, *)
(* which is the inductive form of AllFreed.                                *)
(*                                                                         *)
(* The name an entry is found under is that of its fields exactly when     *)
(* neither runs on; one that runs on has too many characters before its    *)
(* dot or behind it to be a short name.                                    *)
(***************************************************************************)
EXTENDS PathLookup, FiniteSetTheorems, SequenceTheorems, WellFoundedInduction, TLAPS

Phases == {"parse", "parts", "null", "search", "open", "free", "failed"}
PathParts == [part : Seq(Bytes), string : Nat, node : Nat]

PTypes ==
  /\ filename \in Filenames /\ root \in Directories
  /\ phase \in Phases
  /\ tmp_path \in 1 .. Len(filename) + 1 /\ drive \in 0 .. 9
  /\ parts \in Seq(PathParts)
  /\ \A k \in 1 .. Len(parts) : Len(parts[k].part) \in 1 .. MAX_PATH_LENGTH - 1
  /\ allocated \in Nat /\ freed \in Seq(Nat)
  /\ found \in 0 .. Len(root) /\ i \in 1 .. Len(root) + 1

(* The two blocks of part k, when the block before those of the first part *)
(* is known.                                                               *)
Numbered(list, before) ==
  \A k \in 1 .. Len(list) :
    list[k].string = before + 2 * k - 1 /\ list[k].node = before + 2 * k

(* What was given back: the last block first, then block 2 on.             *)
InOrder(list, last) ==
  /\ Len(list) >= 1
  /\ \A j \in 1 .. Len(list) : list[j] = IF j = 1 THEN last ELSE j

PBlocks ==
  /\ phase \in {"parse", "null"} => parts = << >> /\ freed = << >>
  /\ phase = "parts" =>
       /\ freed = << >>
       /\ allocated = 2 * Len(parts) + 1 /\ Numbered(parts, 1)
  /\ phase \in {"search", "open", "free"} =>
       /\ InOrder(freed, allocated)
       /\ allocated = Len(freed) + 2 * Len(parts) + 1 /\ Numbered(parts, Len(freed))

(* How far the parser is: it stands behind the slash that as many slashes  *)
(* precede as there are parts, or at the end when there is no more.        *)
Between(k) ==
  \E a, b \in Slashes :
    /\ Rank(a) = k - 1 /\ Rank(b) = k
    /\ parts[k].part = SubSeq(Rest, a + 1, b - 1)

PParsed ==
  /\ phase \notin {"parse", "null"} => Accepted(filename) /\ tmp_path >= 4
  /\ phase \in {"parts", "search", "open"} =>
       /\ filename[1] = drive + 48
       /\ Len(parts) < Cardinality(Slashes)
       /\ \A k \in 1 .. Len(parts) : Between(k)
  /\ phase = "parts" =>
       \/ tmp_path - 4 \in Slashes /\ Rank(tmp_path - 4) = Len(parts)
       \/ tmp_path = Len(filename) + 1 /\ Len(parts) = Cardinality(Slashes) - 1

(* The list ends at the last component or before an empty one.             *)
Ended ==
  phase \in {"search", "open"} =>
    Len(parts) = Cardinality(Slashes) - 1 \/ Components[Len(parts) + 1] = << >>

PInv == PTypes /\ PBlocks /\ PParsed /\ Ended /\ AllFreed

-----------------------------------------------------------------------------
(* A set of natural numbers has a least element.                           *)
LEMMA LeastOf ==
  ASSUME NEW S \in SUBSET Nat, S # {}
  PROVE  \E x \in S : \A y \in S : x <= y
<1> DEFINE R == OpToRel(<, Nat)
<1>1. IsWellFoundedOn(R, Nat)
  BY NatLessThanWellFounded
<1>2. \A a, b \in Nat : a < b => <<a, b>> \in R
  BY DEF OpToRel
<1> HIDE DEF R
<1>3. PICK x \in S : \A y \in S : ~ (<<y, x>> \in R)
  BY <1>1, WFMin
<1>4. ASSUME NEW y \in S PROVE x <= y
  <2>1. ~ (y < x) /\ x \in Nat /\ y \in Nat
    BY <1>2, <1>3
  <2>2. QED
    BY <2>1
<1>5. QED
  BY <1>4

LEMMA FilenameType ==
  ASSUME NEW f \in Filenames
  PROVE  f \in Seq(Bytes) /\ Len(f) \in Nat /\ \A k \in 1 .. Len(f) : f[k] \in Bytes
<1>1. f \in Seq(Bytes \ {0})
  BY PathAssumption
<1>2. QED
  BY <1>1

LEMMA UpTo ==
  ASSUME NEW n \in Nat
  PROVE  IsFiniteSet(1 .. n) /\ Cardinality(1 .. n) = n
<1>1. /\ IsFiniteSet(1 .. n)
      /\ Cardinality(1 .. n) = IF 1 > n THEN 0 ELSE n - 1 + 1
  BY FS_Interval
<1>2. QED
  BY <1>1

(* The number of entries that are counted.                                 *)
LEMMA TotalRange ==
  ASSUME NEW d \in Directories
  PROVE  Len(d) \in Nat /\ Total(d) \in 0 .. Len(d)
<1> DEFINE S == {k \in 1 .. Len(d) : d[k].filename[1] # DELETED}
<1>1. Len(d) \in Nat
  BY PathAssumption
<1>2. IsFiniteSet(1 .. Len(d)) /\ Cardinality(1 .. Len(d)) = Len(d)
  BY <1>1, UpTo
<1>3. S \in SUBSET (1 .. Len(d))
  OBVIOUS
<1> HIDE DEF S
<1>4. IsFiniteSet(S) /\ Cardinality(S) <= Len(d)
  BY <1>2, <1>3, FS_Subset
<1>5. Cardinality(S) \in Nat
  BY <1>4, FS_CardinalityType
<1>6. QED
  BY <1>1, <1>4, <1>5 DEF Total, S

(* The loop of pathparser_get_path_part ends, at a slash or behind the     *)
(* last character.                                                         *)
LEMMA EndOfPartIs ==
  ASSUME filename \in Filenames, tmp_path \in 1 .. Len(filename) + 1
  PROVE  /\ EndOfPart \in tmp_path .. Len(filename) + 1
         /\ EndOfPart = Len(filename) + 1 \/ filename[EndOfPart] = SLASH
         /\ \A k \in tmp_path .. EndOfPart - 1 : filename[k] # SLASH
<1> DEFINE last == Len(filename) + 1
           S == {e \in tmp_path .. last : e = last \/ filename[e] = SLASH}
<1>1. Len(filename) \in Nat
  BY FilenameType
<1>2. S \in SUBSET Nat /\ last \in S
  BY <1>1
<1>3. PICK e \in S : \A y \in S : e <= y
  <2> HIDE DEF S
  <2>1. QED
    BY <1>2, LeastOf
<1>4. ASSUME NEW k \in tmp_path .. e - 1 PROVE filename[k] # SLASH
  <2>1. k \in tmp_path .. last /\ ~ (e <= k)
    BY <1>1
  <2>2. QED
    BY <1>3, <2>1
<1>5. /\ e \in tmp_path .. last
      /\ e = last \/ filename[e] = SLASH
      /\ \A k \in tmp_path .. e - 1 : filename[k] # SLASH
  BY <1>4
<1> HIDE DEF S
<1>6. QED
  BY <1>5 DEF EndOfPart

LEMMA PartIs ==
  ASSUME filename \in Filenames, tmp_path \in 1 .. Len(filename) + 1
  PROVE  /\ Part \in Seq(Bytes) /\ Len(Part) = EndOfPart - tmp_path
         /\ Part = << >> <=> EndOfPart = tmp_path
         /\ AfterPart \in tmp_path .. Len(filename) + 1
<1>1. /\ EndOfPart \in tmp_path .. Len(filename) + 1 /\ Len(filename) \in Nat
      /\ \A k \in 1 .. Len(filename) : filename[k] \in Bytes
  BY EndOfPartIs, FilenameType
<1> DEFINE e == EndOfPart
<1> HIDE DEF e
<1>2. e - 1 \in Int /\ tmp_path \in Int /\ \A k \in tmp_path .. e - 1 : filename[k] \in Bytes
  BY <1>1 DEF e
<1>3. /\ Part \in Seq(Bytes)
      /\ Len(Part) = IF tmp_path <= e - 1 THEN e - 1 - tmp_path + 1 ELSE 0
  BY <1>2, SubSeqProperties DEF Part, e
<1>4. Len(Part) = e - tmp_path
  BY <1>1, <1>3 DEF e
<1>5. Part = << >> <=> Len(Part) = 0
  BY <1>3
<1>6. AfterPart \in tmp_path .. Len(filename) + 1
  BY <1>1 DEF AfterPart
<1>7. QED
  BY <1>1, <1>3, <1>4, <1>5, <1>6 DEF e

-----------------------------------------------------------------------------
(* Slashes and how many come before them.                                  *)
LEMMA RestIs ==
  ASSUME filename \in Filenames, Accepted(filename)
  PROVE  /\ Rest \in Seq(Bytes) /\ Len(Rest) = Len(filename) - 3 /\ Len(Rest) \in Nat
         /\ \A k \in 1 .. Len(Rest) : Rest[k] = filename[k + 3]
<1>1. /\ Len(filename) \in Nat /\ Len(filename) >= 3
      /\ \A k \in 1 .. Len(filename) : filename[k] \in Bytes
  BY FilenameType DEF Accepted, pathparser_path_valid_format
<1>2. \A k \in 4 .. Len(filename) : filename[k] \in Bytes
  BY <1>1
<1>3. /\ Rest \in Seq(Bytes)
      /\ Len(Rest) = IF 4 <= Len(filename) THEN Len(filename) - 4 + 1 ELSE 0
      /\ \A k \in 1 .. Len(filename) - 4 + 1 : Rest[k] = filename[4 + k - 1]
  BY <1>1, <1>2, SubSeqProperties DEF Rest, From
<1> DEFINE n == Len(filename) m == Len(Rest)
<1>4. m = n - 3 /\ n - 4 + 1 = m
  <2>1. n \in Nat /\ n >= 3 /\ m = IF 4 <= n THEN n - 4 + 1 ELSE 0
    BY <1>1, <1>3
  <2> HIDE DEF n, m
  <2>2. QED
    BY <2>1
<1>5. ASSUME NEW k \in 1 .. m PROVE Rest[k] = filename[k + 3]
  <2>1. k \in 1 .. n - 4 + 1 /\ 4 + k - 1 = k + 3
    BY <1>1, <1>4
  <2>2. QED
    BY <1>3, <2>1
<1>6. QED
  BY <1>1, <1>3, <1>4, <1>5

LEMMA SlashesAre ==
  ASSUME filename \in Filenames, Accepted(filename)
  PROVE  /\ Slashes \subseteq 0 .. Len(Rest) + 1 /\ IsFiniteSet(Slashes)
         /\ 0 \in Slashes /\ Len(Rest) + 1 \in Slashes /\ Len(Rest) \in Nat
<1>1. Len(Rest) \in Nat
  BY RestIs
<1>2. Slashes \in SUBSET (0 .. Len(Rest) + 1)
  BY <1>1 DEF Slashes
<1>3. IsFiniteSet(0 .. Len(Rest) + 1)
  BY <1>1, FS_Interval
<1>4. IsFiniteSet(Slashes)
  BY <1>2, <1>3, FS_Subset
<1>5. QED
  BY <1>1, <1>2, <1>4 DEF Slashes

(* Of two numbers of a set the larger one has the smaller one before it,   *)
(* and no other one that the smaller has not when nothing lies between.    *)
LEMMA BelowGrows ==
  ASSUME NEW S \in SUBSET Nat, NEW a \in Nat, NEW b \in Nat, a \in S, a < b
  PROVE  /\ {r \in S : r < a} \in SUBSET {r \in S : r < b}
         /\ a \in {r \in S : r < b} /\ a \notin {r \in S : r < a}
         /\ (\A s \in S : ~ (a < s /\ s < b)) => {r \in S : r < b} = {r \in S : r < a} \cup {a}
<1>1. \A r \in S : r < a => r < b
  OBVIOUS
<1>2. ASSUME \A s \in S : ~ (a < s /\ s < b)
      PROVE  {r \in S : r < b} = {r \in S : r < a} \cup {a}
  <2>1. ASSUME NEW r \in S PROVE r < b <=> r < a \/ r = a
    <3>1. r \in Nat /\ ~ (a < r /\ r < b)
      BY <1>2
    <3>2. QED
      BY <3>1
  <2>2. QED
    BY <2>1, Zenon
<1>3. ~ (a < a)
  OBVIOUS
<1>4. QED
  BY <1>1, <1>2, <1>3, Zenon

LEMMA BelowEnds ==
  ASSUME NEW n \in Nat, NEW S \in SUBSET (0 .. n)
  PROVE  {r \in S : r < 0} = {} /\ {r \in S : r < n} = S \ {n}
<1>1. ASSUME NEW r \in S PROVE ~ (r < 0) /\ (r < n <=> r # n)
  OBVIOUS
<1>2. QED
  BY <1>1, Zenon

Before(s) == {r \in Slashes : r < s}

LEMMA RankType ==
  ASSUME filename \in Filenames, Accepted(filename), NEW s
  PROVE  IsFiniteSet(Before(s)) /\ Rank(s) = Cardinality(Before(s)) /\ Rank(s) \in Nat
<1>1. IsFiniteSet(Slashes) /\ Before(s) \in SUBSET Slashes
  BY SlashesAre DEF Before
<1>2. IsFiniteSet(Before(s))
  BY <1>1, FS_Subset
<1>3. QED
  BY <1>2, FS_CardinalityType DEF Rank, Before

(* The next slash has one more before it.                                  *)
LEMMA RankNext ==
  ASSUME filename \in Filenames, Accepted(filename), NEW a \in Slashes, NEW b \in Slashes,
         a < b, \A s \in Slashes : ~ (a < s /\ s < b)
  PROVE  Rank(b) = Rank(a) + 1
<1>1. Slashes \in SUBSET Nat /\ a \in Nat /\ b \in Nat
  BY SlashesAre
<1>2. Before(b) = Before(a) \cup {a} /\ a \notin Before(a)
  BY <1>1, BelowGrows DEF Before
<1>3. QED
  BY <1>2, RankType, FS_AddElement

LEMMA RankGrows ==
  ASSUME filename \in Filenames, Accepted(filename), NEW a \in Slashes, NEW b \in Slashes,
         a < b
  PROVE  Rank(a) < Rank(b)
<1>1. Slashes \in SUBSET Nat /\ a \in Nat /\ b \in Nat
  BY SlashesAre
<1>2. Before(a) \in SUBSET Before(b) /\ a \in Before(b) /\ a \notin Before(a)
  BY <1>1, BelowGrows DEF Before
<1>3. /\ Cardinality(Before(a)) <= Cardinality(Before(b))
      /\ Cardinality(Before(b)) = Cardinality(Before(a)) => Before(b) = Before(a)
  BY <1>2, RankType, FS_Subset
<1>4. QED
  BY <1>2, <1>3, RankType

LEMMA RankEnds ==
  ASSUME filename \in Filenames, Accepted(filename)
  PROVE  /\ Rank(0) = 0 /\ Cardinality(Slashes) \in Nat
         /\ Rank(Len(Rest) + 1) = Cardinality(Slashes) - 1
<1>1. /\ Slashes \subseteq 0 .. Len(Rest) + 1 /\ IsFiniteSet(Slashes)
      /\ Len(Rest) + 1 \in Slashes /\ Len(Rest) \in Nat
  BY SlashesAre
<1>2. Before(0) = {} /\ Before(Len(Rest) + 1) = Slashes \ {Len(Rest) + 1}
  <2>1. Len(Rest) + 1 \in Nat /\ Slashes \in SUBSET (0 .. Len(Rest) + 1)
    BY <1>1
  <2>2. QED
    BY <2>1, BelowEnds DEF Before
<1>3. Cardinality(Slashes \ {Len(Rest) + 1}) = Cardinality(Slashes) - 1
  BY <1>1, FS_RemoveElement
<1>4. QED
  BY <1>1, <1>2, <1>3, RankType, FS_EmptySet, FS_CardinalityType

(* The slash of a rank is the only one.                                    *)
LEMMA CutOfRank ==
  ASSUME filename \in Filenames, Accepted(filename), NEW s \in Slashes
  PROVE  Cut(Rank(s)) = s
<1>1. ASSUME NEW r \in Slashes, Rank(r) = Rank(s) PROVE r = s
  <2>1. Slashes \subseteq Int
    BY SlashesAre
  <2>2. ~ (r < s) /\ ~ (s < r)
    BY <1>1, RankGrows, RankType
  <2>3. QED
    BY <2>1, <2>2
<1>2. QED
  BY <1>1 DEF Cut

LEMMA ComponentIs ==
  ASSUME filename \in Filenames, Accepted(filename), NEW a \in Slashes, NEW b \in Slashes,
         NEW k \in Nat, Rank(a) = k - 1, Rank(b) = k
  PROVE  k \in 1 .. Cardinality(Slashes) - 1 /\ Components[k] = SubSeq(Rest, a + 1, b - 1)
<1>1. Cut(k - 1) = a /\ Cut(k) = b
  BY CutOfRank
<1>2. k >= 1
  BY RankType
<1>3. k <= Cardinality(Slashes) - 1
  <2>1. /\ Rank(Len(Rest) + 1) = Cardinality(Slashes) - 1 /\ Cardinality(Slashes) \in Nat
        /\ Len(Rest) + 1 \in Slashes /\ b \in 0 .. Len(Rest) + 1 /\ Len(Rest) \in Nat
    BY RankEnds, SlashesAre
  <2>2. CASE b = Len(Rest) + 1
    BY <2>1, <2>2
  <2>3. CASE b < Len(Rest) + 1
    <3>1. Rank(b) < Rank(Len(Rest) + 1)
      BY <2>1, <2>3, RankGrows
    <3>2. QED
      BY <2>1, <3>1
  <2>4. QED
    BY <2>1, <2>2, <2>3
<1>4. k \in 1 .. Cardinality(Slashes) - 1
  BY <1>2, <1>3, RankEnds
<1>5. QED
  BY <1>1, <1>4 DEF Components

-----------------------------------------------------------------------------
(* A piece of the path is the same piece of what follows the drive.        *)
LEMMA SubSeqBehindDrive ==
  ASSUME NEW s \in Seq(Bytes), NEW r \in Seq(Bytes), NEW n \in Nat, n = Len(s), n - 3 = Len(r),
         \A k \in 1 .. n - 3 : r[k] = s[k + 3],
         NEW a \in Nat, NEW b \in Nat, a >= 4, a <= b + 1, b <= n
  PROVE  SubSeq(s, a, b) = SubSeq(r, a - 3, b - 3)
<1>1. \A k \in a .. b : s[k] \in Bytes
  BY ElementOfSeq
<1>2. \A k \in a - 3 .. b - 3 : r[k] \in Bytes
  BY ElementOfSeq
<1>3. /\ SubSeq(s, a, b) \in Seq(Bytes)
      /\ Len(SubSeq(s, a, b)) = IF a <= b THEN b - a + 1 ELSE 0
      /\ \A j \in 1 .. b - a + 1 : SubSeq(s, a, b)[j] = s[a + j - 1]
  BY <1>1, SubSeqProperties
<1>4. /\ SubSeq(r, a - 3, b - 3) \in Seq(Bytes)
      /\ Len(SubSeq(r, a - 3, b - 3)) = IF a - 3 <= b - 3 THEN b - 3 - (a - 3) + 1 ELSE 0
      /\ \A j \in 1 .. b - 3 - (a - 3) + 1 : SubSeq(r, a - 3, b - 3)[j] = r[a - 3 + j - 1]
  BY <1>2, SubSeqProperties
<1>5. Len(SubSeq(s, a, b)) = b - a + 1 /\ Len(SubSeq(r, a - 3, b - 3)) = b - a + 1
  BY <1>3, <1>4
<1>6. ASSUME NEW j \in 1 .. b - a + 1
      PROVE  SubSeq(s, a, b)[j] = SubSeq(r, a - 3, b - 3)[j]
  <2>1. /\ j \in 1 .. b - 3 - (a - 3) + 1 /\ a - 3 + j - 1 \in 1 .. n - 3
        /\ (a - 3 + j - 1) + 3 = a + j - 1
    OBVIOUS
  <2>2. r[a - 3 + j - 1] = s[a + j - 1]
    BY <2>1
  <2>3. QED
    BY <1>3, <1>4, <2>1, <2>2
<1>7. QED
  BY <1>3, <1>4, <1>5, <1>6, SeqEqual

(* The part the parser is about to read lies between its slash and the     *)
(* next one.                                                               *)
LEMMA NextPart ==
  ASSUME filename \in Filenames, Accepted(filename), tmp_path \in 4 .. Len(filename) + 1,
         tmp_path - 4 \in Slashes
  PROVE  /\ EndOfPart - 3 \in Slashes
         /\ Rank(EndOfPart - 3) = Rank(tmp_path - 4) + 1
         /\ Part = SubSeq(Rest, tmp_path - 4 + 1, EndOfPart - 3 - 1)
<1> DEFINE e == EndOfPart n == Len(filename) t == tmp_path
<1>1. /\ e = n + 1 \/ filename[e] = SLASH
      /\ \A k \in t .. e - 1 : filename[k] # SLASH
  BY EndOfPartIs, FilenameType
<1>2. /\ Rest \in Seq(Bytes) /\ filename \in Seq(Bytes) /\ Len(Rest) = n - 3
      /\ \A k \in 1 .. n - 3 : Rest[k] = filename[k + 3]
  BY RestIs, FilenameType
<1>3. n \in Nat /\ e \in t .. n + 1 /\ t \in 4 .. n + 1
  BY EndOfPartIs, FilenameType
<1> HIDE DEF e, n, t
<1>4. /\ e \in Nat /\ t \in Nat /\ t >= 4 /\ t <= e /\ e <= n + 1
      /\ t - 4 < e - 3 /\ (e - 3) + 3 = e /\ t - 4 + 1 = t - 3 /\ e - 3 - 1 = (e - 1) - 3
      /\ e - 1 \in Nat /\ t <= (e - 1) + 1 /\ e - 1 <= n
  BY <1>3
<1>5. e - 3 \in Slashes
  <2>1. CASE e = n + 1
    <3>1. e - 3 = (n - 3) + 1
      BY <1>3, <2>1
    <3>2. QED
      BY <1>2, <3>1 DEF Slashes
  <2>2. CASE e # n + 1
    <3>1. e - 3 \in 1 .. n - 3
      BY <1>3, <2>2
    <3>2. Rest[e - 3] = SLASH
      BY <1>1, <1>2, <1>4, <2>2, <3>1
    <3>3. QED
      BY <1>2, <3>1, <3>2 DEF Slashes
  <2>3. QED
    BY <2>1, <2>2
<1>6. ASSUME NEW s \in Slashes, t - 4 < s, s < e - 3 PROVE FALSE
  <2>1. s \in 0 .. (n - 3) + 1
    BY <1>2, SlashesAre
  <2>2. s \in 1 .. n - 3 /\ s + 3 \in t .. e - 1 /\ s # 0 /\ s # (n - 3) + 1
    BY <1>3, <1>6, <2>1
  <2>3. Rest[s] = SLASH
    BY <1>2, <2>2 DEF Slashes
  <2>4. QED
    BY <1>1, <1>2, <2>2, <2>3
<1>7. Rank(e - 3) = Rank(t - 4) + 1
  <2>1. t - 4 \in Slashes
    BY DEF t
  <2>2. QED
    BY <1>4, <1>5, <1>6, <2>1, RankNext
<1>8. Part = SubSeq(Rest, t - 4 + 1, e - 3 - 1)
  <2>1. SubSeq(filename, t, e - 1) = SubSeq(Rest, t - 3, (e - 1) - 3)
    BY <1>2, <1>3, <1>4, SubSeqBehindDrive DEF n
  <2>2. Part = SubSeq(filename, t, e - 1)
    BY DEF Part, e, t
  <2>3. QED
    BY <1>4, <2>1, <2>2
<1>9. QED
  BY <1>5, <1>7, <1>8 DEF e, t

-----------------------------------------------------------------------------
(* The invariant, action by action.                                        *)
LEMMA InitPInv ==
  ASSUME Init
  PROVE  PInv
<1>1. filename \in Filenames /\ root \in Directories /\ Len(filename) \in Nat /\ Len(root) \in Nat
  BY FilenameType, TotalRange DEF Init
<1>2. << >> \in Seq(PathParts) /\ << >> \in Seq(Nat) /\ Len(<< >>) = 0
  BY EmptySeq
<1>3. PTypes
  BY <1>1, <1>2 DEF Init, PTypes, Phases
<1>4. QED
  BY <1>3 DEF Init, PInv, PBlocks, PParsed, Ended, AllFreed

(* The next part, as it is entered in the list.                            *)
Made == [part |-> Part, string |-> allocated + 1, node |-> allocated + 2]

LEMMA PartEntered ==
  ASSUME PInv, pathparser_parse_path_part
  PROVE  /\ Made \in PathParts /\ Len(Made.part) \in 1 .. MAX_PATH_LENGTH - 1
         /\ Made.part = Part /\ Made.string = allocated + 1 /\ Made.node = allocated + 2
         /\ parts' \in Seq(PathParts) /\ Len(parts') = Len(parts) + 1 /\ Len(parts) \in Nat
         /\ \A k \in 1 .. Len(parts) : parts'[k] = parts[k]
         /\ parts'[Len(parts) + 1] = Made
<1>1. /\ filename \in Filenames /\ tmp_path \in 1 .. Len(filename) + 1 /\ allocated \in Nat
      /\ parts \in Seq(PathParts) /\ Part # << >> /\ parts' = Append(parts, Made)
      /\ Accepted(filename) /\ tmp_path >= 4
  BY DEF PInv, PTypes, PParsed, pathparser_parse_path_part, Made
<1>2. /\ Part \in Seq(Bytes) /\ Len(Part) = EndOfPart - tmp_path /\ EndOfPart # tmp_path
      /\ EndOfPart \in tmp_path .. Len(filename) + 1 /\ Len(filename) \in Nat
  BY <1>1, PartIs, EndOfPartIs, FilenameType
<1>3. Len(filename) <= MAX_PATH_LENGTH /\ MAX_PATH_LENGTH \in Nat
  BY <1>1, PathAssumption DEF Accepted
<1> DEFINE e == EndOfPart n == Len(filename) l == Len(Part)
<1>4. l \in 1 .. MAX_PATH_LENGTH - 1
  <2>1. /\ l = e - tmp_path /\ e # tmp_path /\ e \in tmp_path .. n + 1 /\ n \in Nat
        /\ n <= MAX_PATH_LENGTH /\ MAX_PATH_LENGTH \in Nat /\ tmp_path >= 4
        /\ tmp_path \in 1 .. n + 1
    BY <1>1, <1>2, <1>3
  <2> HIDE DEF e, n, l
  <2>2. QED
    BY <2>1
<1>5. /\ Made \in PathParts /\ Made.part = Part
      /\ Made.string = allocated + 1 /\ Made.node = allocated + 2
  BY <1>1, <1>2 DEF Made, PathParts
<1> HIDE DEF l
<1>6. /\ parts' \in Seq(PathParts) /\ Len(parts') = Len(parts) + 1
      /\ \A k \in 1 .. Len(parts) : parts'[k] = parts[k]
      /\ parts'[Len(parts) + 1] = Made
  BY <1>1, <1>5, AppendProperties
<1>7. Len(parts) \in Nat
  BY <1>1, LenProperties
<1>8. QED
  BY <1>4, <1>5, <1>6, <1>7 DEF l

(* The first part, taken off the list.                                     *)
LEMMA PartTakenOff ==
  ASSUME PInv, FreePart
  PROVE  /\ parts' \in Seq(PathParts) /\ Len(parts') = Len(parts) - 1 /\ Len(parts) \in Nat \ {0}
         /\ \A k \in 1 .. Len(parts) - 1 : parts'[k] = parts[k + 1]
         /\ Head(parts) = parts[1] /\ parts[1] \in PathParts
<1>1. parts \in Seq(PathParts) /\ parts # << >> /\ parts' = Tail(parts)
  BY DEF PInv, PTypes, FreePart
<1>2. /\ Tail(parts) \in Seq(PathParts) /\ Len(Tail(parts)) = Len(parts) - 1
      /\ \A k \in 1 .. Len(Tail(parts)) : Tail(parts)[k] = parts[k + 1]
  BY <1>1, HeadTailProperties
<1>3. Len(parts) \in Nat \ {0} /\ Head(parts) = parts[1]
  BY <1>1, EmptySeq
<1>4. parts[1] \in PathParts
  BY <1>1, <1>3, ElementOfSeq
<1>5. QED
  BY <1>1, <1>2, <1>3, <1>4

LEMMA TypesKept ==
  ASSUME PInv, Next
  PROVE  PTypes'
<1>1. /\ PTypes /\ root \in Directories /\ filename \in Filenames
      /\ tmp_path \in 1 .. Len(filename) + 1
  BY DEF PInv, PTypes
<1>2. /\ Len(filename) \in Nat /\ Len(root) \in Nat /\ Total(root) \in 0 .. Len(root)
      /\ AfterPart \in 1 .. Len(filename) + 1
  BY <1>1, FilenameType, TotalRange, PartIs
<1>3. CASE ParseRefuses
  BY <1>1, <1>3 DEF ParseRefuses, PTypes, Phases
<1>4. CASE pathparser_create_root
  <2>1. toNumericDigit(filename[1]) \in 0 .. 9 /\ Len(filename) >= 3
    BY <1>4 DEF pathparser_create_root, Accepted, pathparser_path_valid_format, isDigit,
                toNumericDigit
  <2>2. 4 \in 1 .. Len(filename) + 1
    BY <1>2, <2>1
  <2>3. QED
    BY <1>1, <1>4, <2>1, <2>2 DEF pathparser_create_root, PTypes, Phases
<1>5. CASE pathparser_parse_path_part
  <2>1. /\ Len(Made.part) \in 1 .. MAX_PATH_LENGTH - 1
        /\ parts' \in Seq(PathParts) /\ Len(parts') = Len(parts) + 1 /\ Len(parts) \in Nat
        /\ \A k \in 1 .. Len(parts) : parts'[k] = parts[k]
        /\ parts'[Len(parts) + 1] = Made
    BY <1>5, PartEntered
  <2>2. ASSUME NEW k \in 1 .. Len(parts') PROVE Len(parts'[k].part) \in 1 .. MAX_PATH_LENGTH - 1
    <3>1. k \in 1 .. Len(parts) \/ k = Len(parts) + 1
      BY <2>1
    <3>2. CASE k \in 1 .. Len(parts)
      BY <1>1, <2>1, <3>2 DEF PTypes
    <3>3. CASE k = Len(parts) + 1
      BY <2>1, <3>3
    <3>4. QED
      BY <3>1, <3>2, <3>3
  <2>3. /\ allocated' = allocated + 2 /\ tmp_path' = AfterPart
        /\ UNCHANGED <<filename, root, phase, drive, freed, i, found>>
    BY <1>5 DEF pathparser_parse_path_part
  <2>4. allocated' \in Nat
    BY <1>1, <2>3 DEF PTypes
  <2>5. QED
    BY <1>1, <1>2, <2>1, <2>2, <2>3, <2>4 DEF PTypes
<1>6. CASE ParseEnds
  <2>1. /\ allocated' = allocated + 1 /\ freed' = Append(freed, allocated + 1)
        /\ tmp_path' = AfterPart /\ phase' \in {"free", "search"}
        /\ UNCHANGED <<filename, root, drive, parts, i, found>>
    BY <1>6 DEF ParseEnds
  <2>2. allocated' \in Nat /\ freed' \in Seq(Nat)
    BY <1>1, <2>1, AppendProperties DEF PTypes
  <2>3. QED
    BY <1>1, <1>2, <2>1, <2>2 DEF PTypes, Phases
<1>7. CASE SearchEntry
  <2>1. /\ i <= Total(root) /\ i' = i + 1 /\ found' \in {i, found}
        /\ UNCHANGED <<filename, root, phase, tmp_path, drive, parts, allocated, freed>>
    BY <1>7 DEF SearchEntry
  <2>2. i \in 1 .. Len(root) + 1 /\ found \in 0 .. Len(root)
    BY <1>1 DEF PTypes
  <2>3. i' \in 1 .. Len(root) + 1 /\ found' \in 0 .. Len(root)
    <3> DEFINE n == Len(root) t == Total(root)
    <3>1. n \in Nat /\ t \in 0 .. n /\ i \in 1 .. n + 1 /\ i <= t /\ found \in 0 .. n
      BY <1>2, <2>1, <2>2
    <3> HIDE DEF n, t
    <3>2. i + 1 \in 1 .. n + 1 /\ i \in 0 .. n
      BY <3>1
    <3>3. QED
      BY <2>1, <3>1, <3>2 DEF n
  <2>4. QED
    BY <1>1, <2>1, <2>3 DEF PTypes
<1>8. CASE SearchEnds
  <2>1. /\ found' \in {0, found} /\ phase' \in {"free", "open"}
        /\ UNCHANGED <<filename, root, tmp_path, drive, parts, allocated, freed, i>>
    BY <1>8 DEF SearchEnds
  <2>2. QED
    BY <1>1, <1>2, <2>1 DEF PTypes, Phases
<1>9. CASE FreePart
  <2>1. /\ parts' \in Seq(PathParts) /\ Len(parts') = Len(parts) - 1 /\ Len(parts) \in Nat \ {0}
        /\ \A k \in 1 .. Len(parts) - 1 : parts'[k] = parts[k + 1]
        /\ Head(parts) = parts[1] /\ parts[1] \in PathParts
    BY <1>9, PartTakenOff
  <2>2. /\ freed' = freed \o <<parts[1].string, parts[1].node>>
        /\ UNCHANGED <<filename, root, phase, tmp_path, drive, allocated, i, found>>
    BY <1>9, <2>1 DEF FreePart
  <2>3. freed' \in Seq(Nat)
    <3>1. parts[1].string \in Nat /\ parts[1].node \in Nat /\ freed \in Seq(Nat)
      BY <1>1, <2>1 DEF PTypes, PathParts
    <3>2. <<parts[1].string, parts[1].node>> \in Seq(Nat)
      BY <3>1
    <3>3. QED
      BY <2>2, <3>1, <3>2, ConcatProperties
  <2>4. ASSUME NEW k \in 1 .. Len(parts') PROVE Len(parts'[k].part) \in 1 .. MAX_PATH_LENGTH - 1
    <3>1. k \in 1 .. Len(parts) - 1 /\ k + 1 \in 1 .. Len(parts)
      BY <2>1
    <3>2. QED
      BY <1>1, <2>1, <3>1 DEF PTypes
  <2>5. QED
    BY <1>1, <2>1, <2>2, <2>3, <2>4 DEF PTypes
<1>10. CASE FreeRoot
  <2>1. /\ freed' = Append(freed, 1) /\ phase' = "failed"
        /\ UNCHANGED <<filename, root, tmp_path, drive, parts, allocated, i, found>>
    BY <1>10 DEF FreeRoot
  <2>2. freed' \in Seq(Nat)
    BY <1>1, <2>1, AppendProperties DEF PTypes
  <2>3. QED
    BY <1>1, <2>1, <2>2 DEF PTypes, Phases
<1>11. QED
  BY <1>3, <1>4, <1>5, <1>6, <1>7, <1>8, <1>9, <1>10 DEF Next

LEMMA BlocksKept ==
  ASSUME PInv, Next
  PROVE  PBlocks'
<1>1. PBlocks /\ freed \in Seq(Nat) /\ allocated \in Nat /\ parts \in Seq(PathParts)
  BY DEF PInv, PTypes
<1>2. Len(parts) \in Nat /\ Len(freed) \in Nat
  BY <1>1, LenProperties
<1>3. CASE ParseRefuses
  BY <1>1, <1>3 DEF ParseRefuses, PBlocks
<1>4. CASE pathparser_create_root
  <2>1. phase' = "parts" /\ parts' = << >> /\ freed' = << >> /\ allocated' = 1
    BY <1>1, <1>4 DEF pathparser_create_root, PBlocks
  <2>2. Len(parts') = 0
    BY <2>1
  <2>3. QED
    BY <2>1, <2>2 DEF PBlocks, Numbered
<1>5. CASE pathparser_parse_path_part
  <2>1. /\ phase = "parts" /\ phase' = "parts" /\ freed' = freed
        /\ allocated' = allocated + 2
    BY <1>5 DEF pathparser_parse_path_part
  <2>2. freed = << >> /\ allocated = 2 * Len(parts) + 1 /\ Numbered(parts, 1)
    BY <1>1, <2>1 DEF PBlocks
  <2>3. /\ Len(parts') = Len(parts) + 1
        /\ \A k \in 1 .. Len(parts) : parts'[k] = parts[k]
        /\ parts'[Len(parts) + 1] = Made
        /\ Made.string = allocated + 1 /\ Made.node = allocated + 2
    BY <1>5, PartEntered
  <2>4. allocated' = 2 * Len(parts') + 1
    BY <1>2, <2>1, <2>2, <2>3
  <2>5. ASSUME NEW k \in 1 .. Len(parts')
        PROVE  parts'[k].string = 1 + 2 * k - 1 /\ parts'[k].node = 1 + 2 * k
    <3>1. CASE k \in 1 .. Len(parts)
      BY <2>2, <2>3, <3>1 DEF Numbered
    <3>2. CASE k = Len(parts) + 1
      <4>1. allocated + 1 = 1 + 2 * k - 1 /\ allocated + 2 = 1 + 2 * k
        BY <1>2, <2>2, <3>2
      <4>2. QED
        BY <2>3, <3>2, <4>1
    <3>3. QED
      BY <1>2, <2>3, <3>1, <3>2
  <2>6. QED
    BY <2>1, <2>2, <2>4, <2>5 DEF PBlocks, Numbered
<1>6. CASE ParseEnds
  <2>1. /\ phase = "parts" /\ phase' \in {"free", "search"} /\ freed' = Append(freed, allocated + 1)
        /\ allocated' = allocated + 1 /\ parts' = parts
    BY <1>6 DEF ParseEnds
  <2>2. freed = << >> /\ allocated = 2 * Len(parts) + 1 /\ Numbered(parts, 1)
    BY <1>1, <2>1 DEF PBlocks
  <2>3. freed' = <<allocated'>>
    BY <2>1, <2>2
  <2>4. Len(freed') = 1 /\ freed'[1] = allocated'
    BY <2>3
  <2>5. InOrder(freed', allocated')
    BY <2>4 DEF InOrder
  <2>6. allocated' = Len(freed') + 2 * Len(parts') + 1
    BY <1>2, <2>1, <2>2, <2>4
  <2>7. QED
    BY <2>1, <2>2, <2>4, <2>5, <2>6 DEF PBlocks
<1>7. CASE SearchEntry \/ SearchEnds
  <2>1. /\ phase = "search" /\ phase' \in {"search", "free", "open"}
        /\ UNCHANGED <<parts, allocated, freed>>
    BY <1>7 DEF SearchEntry, SearchEnds
  <2>2. QED
    BY <1>1, <2>1 DEF PBlocks
<1>8. CASE FreePart
  <2>1. phase = "free" /\ phase' = "free" /\ allocated' = allocated
    BY <1>8 DEF FreePart
  <2>2. /\ InOrder(freed, allocated)
        /\ allocated = Len(freed) + 2 * Len(parts) + 1 /\ Numbered(parts, Len(freed))
    BY <1>1, <2>1 DEF PBlocks
  <2>3. /\ Len(parts') = Len(parts) - 1 /\ Len(parts) \in Nat \ {0}
        /\ \A k \in 1 .. Len(parts) - 1 : parts'[k] = parts[k + 1]
        /\ Head(parts) = parts[1]
    BY <1>8, PartTakenOff
  <2> DEFINE f == Len(freed) p == Len(parts)
  <2>4. parts[1].string = f + 1 /\ parts[1].node = f + 2
    <3>1. 1 \in 1 .. p /\ f + 2 * 1 - 1 = f + 1 /\ f + 2 * 1 = f + 2
      BY <1>2, <2>3
    <3>2. QED
      BY <2>2, <3>1 DEF Numbered
  <2>5. freed' = freed \o <<f + 1, f + 2>>
    BY <1>8, <2>3, <2>4 DEF FreePart
  <2>6. /\ Len(freed') = f + 2
        /\ \A j \in 1 .. f + 2 : freed'[j] = IF j <= f THEN freed[j] ELSE <<f + 1, f + 2>>[j - f]
    <3>1. <<f + 1, f + 2>> \in Seq(Nat) /\ Len(<<f + 1, f + 2>>) = 2
      BY <1>2
    <3>2. QED
      BY <1>1, <2>5, <3>1, ConcatProperties
  <2> HIDE DEF f, p
  <2>7. f \in Nat /\ p \in Nat \ {0} /\ f >= 1
    BY <1>2, <2>2, <2>3 DEF f, p, InOrder
  <2>8. ASSUME NEW j \in 1 .. f + 2 PROVE freed'[j] = IF j = 1 THEN allocated ELSE j
    <3>1. CASE j <= f
      <4>1. j \in 1 .. f
        BY <2>7, <3>1
      <4>2. freed[j] = IF j = 1 THEN allocated ELSE j
        BY <2>2, <4>1 DEF InOrder, f
      <4>3. QED
        BY <2>6, <3>1, <4>2
    <3>2. CASE j = f + 1
      <4>1. j - f = 1 /\ ~ (j <= f) /\ j # 1
        BY <2>7, <3>2
      <4>2. QED
        BY <2>6, <3>2, <4>1
    <3>3. CASE j = f + 2
      <4>1. j - f = 2 /\ ~ (j <= f) /\ j # 1
        BY <2>7, <3>3
      <4>2. QED
        BY <2>6, <3>3, <4>1
    <3>4. QED
      BY <2>7, <3>1, <3>2, <3>3
  <2>9. InOrder(freed', allocated)
    <3>1. Len(freed') >= 1
      BY <2>6, <2>7
    <3>2. QED
      BY <2>6, <2>8, <3>1 DEF InOrder
  <2>10. allocated = Len(freed') + 2 * Len(parts') + 1
    <3>1. allocated = f + 2 * p + 1 /\ Len(freed') = f + 2 /\ Len(parts') = p - 1
      BY <2>2, <2>3, <2>6 DEF f, p
    <3>2. QED
      BY <2>7, <3>1
  <2>11. ASSUME NEW k \in 1 .. p - 1
         PROVE  parts'[k].string = (f + 2) + 2 * k - 1 /\ parts'[k].node = (f + 2) + 2 * k
    <3>1. /\ k + 1 \in 1 .. p /\ f + 2 * (k + 1) - 1 = (f + 2) + 2 * k - 1
          /\ f + 2 * (k + 1) = (f + 2) + 2 * k
      BY <2>7
    <3>2. parts[k + 1].string = f + 2 * (k + 1) - 1 /\ parts[k + 1].node = f + 2 * (k + 1)
      BY <2>2, <3>1 DEF Numbered, f, p
    <3>3. parts'[k] = parts[k + 1]
      BY <2>3 DEF p
    <3>4. QED
      BY <3>1, <3>2, <3>3
  <2>12. Numbered(parts', Len(freed'))
    BY <2>3, <2>6, <2>11 DEF Numbered, p
  <2>13. QED
    BY <2>1, <2>9, <2>10, <2>12 DEF PBlocks
<1>9. CASE FreeRoot
  BY <1>9 DEF FreeRoot, PBlocks
<1>10. QED
  BY <1>3, <1>4, <1>5, <1>6, <1>7, <1>8, <1>9 DEF Next

(* The root goes last, and then every block has been given back once.      *)
LEMMA FreedKept ==
  ASSUME PInv, Next
  PROVE  AllFreed'
<1>1. CASE FreeRoot
  <2>1. /\ freed' = Append(freed, 1) /\ allocated' = allocated
        /\ InOrder(freed, allocated) /\ allocated = Len(freed) + 2 * Len(parts) + 1
        /\ parts = << >> /\ freed \in Seq(Nat)
    BY <1>1 DEF FreeRoot, PInv, PBlocks, PTypes
  <2> DEFINE f == Len(freed)
  <2>2. f \in Nat /\ f >= 1 /\ allocated = f + 1
    <3>1. Len(parts) = 0 /\ f \in Nat
      BY <2>1, LenProperties
    <3>2. QED
      BY <2>1, <3>1 DEF InOrder
  <2>3. /\ freed' \in Seq(Nat) /\ Len(freed') = f + 1
        /\ \A j \in 1 .. f : freed'[j] = freed[j]
        /\ freed'[f + 1] = 1
    BY <2>1, AppendProperties
  <2>4. DOMAIN freed' = 1 .. f + 1
    BY <2>3, LenProperties
  <2>5. \A j \in 1 .. f : freed[j] = IF j = 1 THEN f + 1 ELSE j
    BY <2>1, <2>2 DEF InOrder
  <2> HIDE DEF f
  <2>6. ASSUME NEW j \in 1 .. f + 1
        PROVE  freed'[j] = IF j = 1 THEN f + 1 ELSE IF j = f + 1 THEN 1 ELSE j
    <3>1. CASE j = f + 1
      BY <2>2, <2>3, <3>1
    <3>2. CASE j # f + 1
      <4>1. j \in 1 .. f
        BY <2>2, <3>2
      <4>2. QED
        BY <2>3, <2>5, <3>2, <4>1
    <3>3. QED
      BY <3>1, <3>2
  <2>7. ASSUME NEW a \in 1 .. f + 1, NEW b \in 1 .. f + 1, freed'[a] = freed'[b]
        PROVE  a = b
    BY <2>2, <2>6, <2>7
  <2>8. ASSUME NEW b \in 1 .. f + 1 PROVE \E j \in 1 .. f + 1 : freed'[j] = b
    <3>1. CASE b = 1
      BY <2>2, <2>3, <3>1
    <3>2. CASE b = f + 1
      <4>1. 1 \in 1 .. f + 1 /\ freed'[1] = f + 1
        BY <2>2, <2>6
      <4>2. QED
        BY <3>2, <4>1
    <3>3. CASE b # 1 /\ b # f + 1
      BY <2>6, <3>3
    <3>4. QED
      BY <3>1, <3>2, <3>3
  <2>9. ASSUME NEW j \in 1 .. f + 1 PROVE freed'[j] \in 1 .. f + 1
    BY <2>2, <2>6
  <2>10. Range(freed') = 1 .. f + 1
    BY <2>4, <2>8, <2>9 DEF Range
  <2>11. IsInjective(freed')
    BY <2>4, <2>7 DEF IsInjective
  <2>12. QED
    BY <2>1, <2>2, <2>10, <2>11 DEF AllFreed
<1>2. CASE ~ FreeRoot
  <2>1. phase' # "failed"
    BY <1>2 DEF Next, ParseRefuses, pathparser_create_root, pathparser_parse_path_part, ParseEnds,
                SearchEntry, SearchEnds, FreePart
  <2>2. QED
    BY <2>1 DEF AllFreed
<1>3. QED
  BY <1>1, <1>2

(* Slashes and components are those of the file name, which no step        *)
(* changes.                                                                *)
LEMMA PathStays ==
  ASSUME filename' = filename
  PROVE  /\ Slashes' = Slashes /\ Rest' = Rest /\ Components' = Components
         /\ Accepted(filename)' = Accepted(filename)
         /\ \A s : Rank(s)' = Rank(s)
<1>1. Rest' = Rest
  BY DEF Rest, From
<1>2. Slashes' = Slashes
  BY <1>1 DEF Slashes
<1>3. \A s : Rank(s)' = Rank(s)
  BY <1>2 DEF Rank
<1>4. Components' = Components
  BY <1>1, <1>2 DEF Components, Cut, Rank
<1>5. Accepted(filename)' = Accepted(filename)
  BY DEF Accepted, pathparser_path_valid_format
<1>6. QED
  BY <1>1, <1>2, <1>3, <1>4, <1>5

(* Where the parser goes on behind a part that is not empty.               *)
LEMMA PartParsed ==
  ASSUME PInv, phase = "parts", tmp_path - 4 \in Slashes, Rank(tmp_path - 4) = Len(parts)
  PROVE  /\ Len(parts) + 1 \in 1 .. Cardinality(Slashes) - 1
         /\ Components[Len(parts) + 1] = Part
         /\ \E a, b \in Slashes : /\ Rank(a) = Len(parts) /\ Rank(b) = Len(parts) + 1
                                 /\ Part = SubSeq(Rest, a + 1, b - 1)
         /\ \/ AfterPart - 4 \in Slashes /\ Rank(AfterPart - 4) = Len(parts) + 1
            \/ AfterPart = Len(filename) + 1 /\ Len(parts) + 1 = Cardinality(Slashes) - 1
<1>1. /\ filename \in Filenames /\ Accepted(filename) /\ tmp_path \in 4 .. Len(filename) + 1
      /\ Len(parts) \in Nat /\ Len(filename) \in Nat
  <2>1. /\ filename \in Filenames /\ Accepted(filename) /\ tmp_path \in 1 .. Len(filename) + 1
        /\ tmp_path >= 4 /\ parts \in Seq(PathParts)
    BY DEF PInv, PTypes, PParsed
  <2>2. Len(parts) \in Nat /\ Len(filename) \in Nat
    BY <2>1, LenProperties, FilenameType
  <2>3. QED
    BY <2>1, <2>2
<1> DEFINE p == Len(parts) e == EndOfPart t == tmp_path
<1>2. /\ e - 3 \in Slashes /\ Rank(e - 3) = p + 1
      /\ Part = SubSeq(Rest, t - 4 + 1, e - 3 - 1)
  BY <1>1, NextPart
<1>3. t - 4 \in Slashes /\ Rank(t - 4) = p
  OBVIOUS
<1>4. p \in Nat /\ p + 1 \in Nat /\ (p + 1) - 1 = p
  BY <1>1
<1>5. tmp_path \in 1 .. Len(filename) + 1
  BY <1>1
<1>6. e \in t .. Len(filename) + 1 /\ AfterPart = IF e <= Len(filename) THEN e + 1 ELSE e
  BY <1>1, <1>5, EndOfPartIs DEF AfterPart
<1> HIDE DEF p, e, t
<1>7. p + 1 \in 1 .. Cardinality(Slashes) - 1 /\ Components[p + 1] = Part
  BY <1>1, <1>2, <1>3, <1>4, ComponentIs
<1>8. \/ AfterPart - 4 \in Slashes /\ Rank(AfterPart - 4) = p + 1
      \/ AfterPart = Len(filename) + 1 /\ p + 1 = Cardinality(Slashes) - 1
  <2> DEFINE n == Len(filename)
  <2>1. n \in Nat /\ t \in 4 .. n + 1 /\ e \in t .. n + 1
    BY <1>1, <1>6 DEF t
  <2>2. Len(Rest) = n - 3
    BY <1>1, RestIs
  <2> HIDE DEF n
  <2>3. CASE e <= n
    <3>1. AfterPart - 4 = e - 3
      BY <1>6, <2>1, <2>3 DEF n
    <3>2. QED
      BY <1>2, <3>1
  <2>4. CASE ~ (e <= n)
    <3>1. e = n + 1 /\ e - 3 = (n - 3) + 1
      BY <2>1, <2>4
    <3>2. AfterPart = n + 1
      BY <1>6, <2>4, <3>1 DEF n
    <3>3. p + 1 = Cardinality(Slashes) - 1
      BY <1>1, <1>2, <2>2, <3>1, RankEnds
    <3>4. QED
      BY <3>2, <3>3 DEF n
  <2>5. QED
    BY <2>3, <2>4
<1>9. \E a, b \in Slashes : /\ Rank(a) = p /\ Rank(b) = p + 1
                           /\ Part = SubSeq(Rest, a + 1, b - 1)
  BY <1>2, <1>3
<1>10. QED
  BY <1>7, <1>8, <1>9 DEF p

LEMMA ParsedKept ==
  ASSUME PInv, Next
  PROVE  PParsed' /\ Ended'
<1>1. /\ filename' = filename /\ filename \in Filenames /\ PParsed /\ Ended
      /\ parts \in Seq(PathParts)
  BY DEF PInv, PTypes, Next, ParseRefuses, pathparser_create_root, pathparser_parse_path_part,
         ParseEnds, SearchEntry, SearchEnds, FreePart, FreeRoot
<1>2. /\ Slashes' = Slashes /\ Rest' = Rest /\ Components' = Components
      /\ Accepted(filename)' = Accepted(filename)
      /\ \A s : Rank(s)' = Rank(s)
  BY <1>1, PathStays
<1>3. Len(parts) \in Nat /\ tmp_path \in 1 .. Len(filename) + 1
  BY <1>1, LenProperties DEF PInv, PTypes
<1>4. CASE ParseRefuses
  BY <1>4 DEF ParseRefuses, PParsed, Ended
<1>5. CASE pathparser_create_root
  <2>1. /\ phase = "parse" /\ Accepted(filename) /\ phase' = "parts" /\ tmp_path' = 4
        /\ drive' = toNumericDigit(filename[1]) /\ parts' = parts
    BY <1>5 DEF pathparser_create_root
  <2>2. Len(parts') = 0
    BY <2>1 DEF PInv, PBlocks
  <2>3. filename'[1] = drive' + 48
    <3>1. filename[1] \in 48 .. 57 /\ drive' = filename[1] - 48
      BY <2>1 DEF Accepted, pathparser_path_valid_format, isDigit, toNumericDigit
    <3>2. QED
      BY <1>1, <3>1
  <2>4. 0 < Cardinality(Slashes) /\ 0 \in Slashes /\ Rank(0) = 0
    BY <1>1, <2>1, RankEnds, RankType, SlashesAre
  <2>5. tmp_path' - 4 = 0 /\ tmp_path' >= 4
    BY <2>1
  <2>6. QED
    BY <1>2, <2>1, <2>2, <2>3, <2>4, <2>5 DEF PParsed, Ended
<1>6. CASE pathparser_parse_path_part
  <2>1. /\ phase = "parts" /\ phase' = "parts" /\ Part # << >> /\ tmp_path' = AfterPart
        /\ drive' = drive
    BY <1>6 DEF pathparser_parse_path_part
  <2>2. /\ Accepted(filename) /\ tmp_path >= 4 /\ filename[1] = drive + 48
        /\ \A k \in 1 .. Len(parts) : Between(k)
    BY <1>1, <2>1 DEF PParsed
  <2>3. tmp_path - 4 \in Slashes /\ Rank(tmp_path - 4) = Len(parts)
    <3>1. tmp_path # Len(filename) + 1
      <4>1. /\ EndOfPart # tmp_path /\ EndOfPart \in tmp_path .. Len(filename) + 1
            /\ Len(filename) \in Nat
        BY <1>1, <1>3, <2>1, PartIs, EndOfPartIs, FilenameType
      <4>2. QED
        BY <1>3, <4>1
    <3>2. QED
      BY <1>1, <2>1, <3>1 DEF PParsed
  <2>4. /\ Len(parts) + 1 \in 1 .. Cardinality(Slashes) - 1
        /\ \E a, b \in Slashes : /\ Rank(a) = Len(parts) /\ Rank(b) = Len(parts) + 1
                                /\ Part = SubSeq(Rest, a + 1, b - 1)
        /\ \/ AfterPart - 4 \in Slashes /\ Rank(AfterPart - 4) = Len(parts) + 1
           \/ AfterPart = Len(filename) + 1 /\ Len(parts) + 1 = Cardinality(Slashes) - 1
    BY <2>1, <2>3, PartParsed
  <2>5. /\ Len(parts') = Len(parts) + 1
        /\ \A k \in 1 .. Len(parts) : parts'[k] = parts[k]
        /\ parts'[Len(parts) + 1].part = Part
    BY <1>6, PartEntered
  <2>6. ASSUME NEW k \in 1 .. Len(parts') PROVE Between(k)'
    <3>1. CASE k \in 1 .. Len(parts)
      <4>1. Between(k)
        BY <2>2, <3>1
      <4>2. parts'[k] = parts[k]
        BY <2>5, <3>1
      <4>3. QED
        BY <1>2, <4>1, <4>2 DEF Between
    <3>2. CASE k = Len(parts) + 1
      <4>1. k - 1 = Len(parts)
        BY <1>3, <3>2
      <4>2. QED
        BY <1>2, <2>4, <2>5, <3>2, <4>1 DEF Between
    <3>3. QED
      BY <1>3, <2>5, <3>1, <3>2
  <2>7. tmp_path' >= 4
    <3>1. AfterPart \in tmp_path .. Len(filename) + 1 /\ Len(filename) \in Nat
      BY <1>1, <1>3, PartIs, FilenameType
    <3>2. QED
      BY <1>3, <2>1, <2>2, <3>1
  <2>8. Len(parts') < Cardinality(Slashes)
    <3>1. Cardinality(Slashes) \in Nat
      BY <1>1, <2>2, RankEnds
    <3>2. QED
      BY <1>3, <2>4, <2>5, <3>1
  <2>9. \/ tmp_path' - 4 \in Slashes' /\ Rank(tmp_path - 4)' = Len(parts')
        \/ tmp_path' = Len(filename') + 1 /\ Len(parts') = Cardinality(Slashes') - 1
    <3>1. CASE AfterPart - 4 \in Slashes /\ Rank(AfterPart - 4) = Len(parts) + 1
      BY <1>2, <2>1, <2>5, <3>1 DEF Rank
    <3>2. CASE AfterPart = Len(filename) + 1 /\ Len(parts) + 1 = Cardinality(Slashes) - 1
      BY <1>1, <1>2, <2>1, <2>5, <3>2
    <3>3. QED
      BY <2>4, <3>1, <3>2
  <2>10. Accepted(filename)' /\ filename'[1] = drive' + 48 /\ Cardinality(Slashes)' = Cardinality(Slashes)
    BY <1>1, <1>2, <2>1, <2>2
  <2>11. QED
    BY <2>1, <2>6, <2>7, <2>8, <2>9, <2>10 DEF PParsed, Ended
<1>7. CASE ParseEnds
  <2>1. /\ phase = "parts" /\ phase' \in {"free", "search"} /\ Part = << >>
        /\ tmp_path' = AfterPart /\ parts' = parts /\ drive' = drive
    BY <1>7 DEF ParseEnds
  <2>2. /\ Accepted(filename) /\ tmp_path >= 4 /\ filename[1] = drive + 48
        /\ Len(parts) < Cardinality(Slashes)
        /\ \A k \in 1 .. Len(parts) : Between(k)
    BY <1>1, <2>1 DEF PParsed
  <2>3. tmp_path' >= 4
    <3>1. AfterPart \in tmp_path .. Len(filename) + 1 /\ Len(filename) \in Nat
      BY <1>1, <1>3, PartIs, FilenameType
    <3>2. QED
      BY <1>3, <2>1, <2>2, <3>1
  <2>4. \A k \in 1 .. Len(parts') : Between(k)'
    BY <1>2, <2>1, <2>2 DEF Between
  <2>5. PParsed'
    BY <1>1, <1>2, <2>1, <2>2, <2>3, <2>4 DEF PParsed
  <2>6. Len(parts) = Cardinality(Slashes) - 1 \/ Components[Len(parts) + 1] = << >>
    <3>1. CASE tmp_path - 4 \in Slashes /\ Rank(tmp_path - 4) = Len(parts)
      BY <2>1, <3>1, PartParsed
    <3>2. QED
      BY <1>1, <2>1, <3>1 DEF PParsed
  <2>7. QED
    BY <1>2, <2>1, <2>5, <2>6 DEF Ended
<1>8. CASE SearchEntry \/ SearchEnds
  <2>1. /\ phase = "search" /\ phase' \in {"search", "free", "open"}
        /\ parts' = parts /\ drive' = drive /\ tmp_path' = tmp_path
    BY <1>8 DEF SearchEntry, SearchEnds
  <2>2. (\A k \in 1 .. Len(parts) : Between(k)) => \A k \in 1 .. Len(parts') : Between(k)'
    BY <1>2, <2>1 DEF Between
  <2>3. QED
    BY <1>1, <1>2, <2>1, <2>2 DEF PParsed, Ended
<1>9. CASE FreePart \/ FreeRoot
  <2>1. phase = "free" /\ phase' \in {"free", "failed"} /\ tmp_path' = tmp_path
    BY <1>9 DEF FreePart, FreeRoot
  <2>2. QED
    BY <1>1, <1>2, <2>1 DEF PParsed, Ended
<1>10. QED
  BY <1>4, <1>5, <1>6, <1>7, <1>8, <1>9 DEF Next

-----------------------------------------------------------------------------
LEMMA PInvariance == Spec => []PInv
<1>1. Init => PInv
  BY InitPInv
<1>2. PInv /\ [Next]_vars => PInv'
  <2> SUFFICES ASSUME PInv, [Next]_vars PROVE PInv'
    OBVIOUS
  <2>1. CASE Next
    BY <2>1, TypesKept, BlocksKept, ParsedKept, FreedKept DEF PInv
  <2>2. CASE UNCHANGED vars
    <3>1. /\ filename' = filename /\ root' = root /\ phase' = phase /\ tmp_path' = tmp_path
          /\ drive' = drive /\ parts' = parts /\ allocated' = allocated /\ freed' = freed
          /\ i' = i /\ found' = found
      BY <2>2 DEF vars
    <3>2. /\ Slashes' = Slashes /\ Rest' = Rest /\ Components' = Components
          /\ Accepted(filename)' = Accepted(filename) /\ \A s : Rank(s)' = Rank(s)
      BY <3>1, PathStays
    <3>3. PTypes' /\ PBlocks' /\ AllFreed'
      BY <3>1 DEF PInv, PTypes, PBlocks, AllFreed
    <3>4. (\A k \in 1 .. Len(parts) : Between(k)) => \A k \in 1 .. Len(parts') : Between(k)'
      BY <3>1, <3>2 DEF Between
    <3>5. Rank(tmp_path - 4)' = Rank(tmp_path - 4)
      BY <3>1, <3>2 DEF Rank
    <3>6. PParsed' /\ Ended'
      BY <3>1, <3>2, <3>4, <3>5 DEF PInv, PParsed, Ended
    <3>7. QED
      BY <3>3, <3>6 DEF PInv
  <2>3. QED
    BY <2>1, <2>2
<1>3. QED
  BY <1>1, <1>2, PTL DEF Spec

(* For every file name and directory the state of the call keeps its       *)
(* types; in particular every part pathparser_get_path_part copies fits    *)
(* the buffer of MAX_PATH_LENGTH bytes with its terminating zero.          *)
THEOREM PartsFitTheirBuffers == Spec => []TypeOK
<1>1. PInv => TypeOK
  BY DEF PInv, PTypes, TypeOK, Phases
<1>2. QED
  BY <1>1, PInvariance, PTL

(* A failed fopen has given back every block of the path exactly once,     *)
(* for paths of any number of parts.                                       *)
THEOREM PathIsReleased == Spec => []AllFreed
<1>1. PInv => AllFreed
  BY DEF PInv
<1>2. QED
  BY <1>1, PInvariance, PTL

(* The list of parts holds the components up to the first empty one.       *)
LEMMA ListIsLeading ==
  ASSUME PInv, phase \in {"search", "open"}
  PROVE  /\ [k \in 1 .. Len(parts) |-> parts[k].part] = SubSeq(Components, 1, Leading)
         /\ Leading = Len(parts)
<1> DEFINE p == Len(parts) m == Cardinality(Slashes) - 1
           list == [k \in 1 .. Len(parts) |-> parts[k].part]
<1>1. /\ filename \in Filenames /\ Accepted(filename)
      /\ p < Cardinality(Slashes) /\ \A k \in 1 .. p : Between(k)
      /\ p = m \/ Components[p + 1] = << >>
      /\ parts \in Seq(PathParts)
      /\ \A k \in 1 .. p : Len(parts[k].part) \in 1 .. MAX_PATH_LENGTH - 1
  BY DEF PInv, PTypes, PParsed, Ended
<1>2. p \in Nat /\ m \in Nat /\ p <= m
  <2>1. p \in Nat /\ Cardinality(Slashes) \in Nat
    BY <1>1, LenProperties, RankEnds
  <2>2. QED
    BY <1>1, <2>1
<1>3. ASSUME NEW k \in 1 .. p
      PROVE  Components[k] = parts[k].part /\ Components[k] # << >>
  <2>1. PICK a \in Slashes, b \in Slashes :
          Rank(a) = k - 1 /\ Rank(b) = k /\ parts[k].part = SubSeq(Rest, a + 1, b - 1)
    BY <1>1 DEF Between
  <2>2. k \in Nat
    BY <1>2
  <2>3. Components[k] = parts[k].part
    BY <1>1, <2>1, <2>2, ComponentIs
  <2>4. parts[k].part \in Seq(Bytes) /\ Len(parts[k].part) # 0
    <3>1. parts[k] \in PathParts
      BY <1>1, ElementOfSeq
    <3>2. Len(parts[k].part) \in 1 .. MAX_PATH_LENGTH - 1
      BY <1>1
    <3>3. QED
      BY <3>1, <3>2, PathAssumption DEF PathParts
  <2>5. QED
    BY <2>3, <2>4
<1> DEFINE S == {Components[k] : k \in 1 .. m}
<1>4. Components \in [1 .. m -> S]
  BY DEF Components
<1> HIDE DEF p, m, S, list
<1>5. Components \in Seq(S) /\ Len(Components) = m
  BY <1>2, <1>4
<1>6. Leading = p
  <2> DEFINE Good(n) == /\ \A k \in 1 .. n : Components[k] # << >>
                        /\ n = m \/ Components[n + 1] = << >>
  <2>1. p \in 0 .. m /\ Good(p)
    BY <1>1, <1>2, <1>3
  <2>2. ASSUME NEW n \in 0 .. m, Good(n) PROVE n = p
    <3>1. CASE n < p
      <4>1. n + 1 \in 1 .. p /\ n # m
        BY <1>2, <3>1
      <4>2. QED
        BY <1>3, <2>2, <4>1
    <3>2. CASE p < n
      <4>1. p + 1 \in 1 .. n /\ p # m
        BY <1>2, <3>2
      <4>2. QED
        BY <1>1, <2>2, <4>1
    <3>3. QED
      BY <1>2, <3>1, <3>2
  <2>3. Leading = CHOOSE n \in 0 .. m : Good(n)
    BY <1>5 DEF Leading
  <2> HIDE DEF Good
  <2>4. QED
    BY <2>1, <2>2, <2>3
<1>7. /\ SubSeq(Components, 1, p) \in Seq(S) /\ Len(SubSeq(Components, 1, p)) = p
      /\ \A k \in 1 .. p : SubSeq(Components, 1, p)[k] = Components[k]
  <2>1. \A k \in 1 .. p : Components[k] \in S
    BY <1>2, <1>4
  <2>2. /\ SubSeq(Components, 1, p) \in Seq(S)
        /\ Len(SubSeq(Components, 1, p)) = IF 1 <= p THEN p - 1 + 1 ELSE 0
        /\ \A k \in 1 .. p - 1 + 1 : SubSeq(Components, 1, p)[k] = Components[1 + k - 1]
    BY <1>2, <2>1, SubSeqProperties
  <2>3. ASSUME NEW k \in 1 .. p PROVE SubSeq(Components, 1, p)[k] = Components[k]
    <3>1. k \in 1 .. p - 1 + 1 /\ 1 + k - 1 = k
      BY <1>2
    <3>2. QED
      BY <2>2, <3>1
  <2>4. Len(SubSeq(Components, 1, p)) = p
    BY <1>2, <2>2
  <2>5. QED
    BY <2>2, <2>3, <2>4
<1>8. list \in Seq(S) /\ Len(list) = p /\ \A k \in 1 .. p : list[k] = Components[k]
  <2>1. \A k \in 1 .. p : Components[k] \in S
    BY <1>2, <1>4
  <2>2. list \in [1 .. p -> S]
    BY <1>3, <2>1 DEF list, p
  <2>3. QED
    BY <1>2, <1>3, <2>2 DEF list, p
<1>9. list = SubSeq(Components, 1, p)
  BY <1>7, <1>8, SeqEqual
<1>10. QED
  BY <1>6, <1>9 DEF list, p

(* For every file name that is parsed, the list pathparser_parse builds is *)
(* the components between the slashes in their order, up to the first      *)
(* empty one, and the drive is the digit in front.                         *)
THEOREM PathIsSplit == Spec => []ParsedAsSplit
<1>1. PInv => ParsedAsSplit
  BY ListIsLeading DEF PInv, PParsed, ParsedAsSplit
<1>2. QED
  BY <1>1, PInvariance, PTL

-----------------------------------------------------------------------------
(* The names of entries.  A field is a name and its padding.               *)
LEMMA FieldIs ==
  ASSUME NEW b \in Seq(Bytes), IsField(b)
  PROVE  /\ Size(b) \in 0 .. Len(b)
         /\ \A k \in 1 .. Size(b) : b[k] \notin {0, DOT, BLANK}
         /\ \A k \in Size(b) + 1 .. Len(b) : b[k] = BLANK
         /\ Field(b) \in Seq(Bytes) /\ Len(Field(b)) = Size(b)
         /\ \A k \in 1 .. Size(b) : Field(b)[k] = b[k]
<1>1. Len(b) \in Nat /\ \A k \in 1 .. Len(b) : b[k] \in Bytes
  BY LenProperties, ElementOfSeq
<1>2. PICK n \in 0 .. Len(b) : \A k \in 1 .. Len(b) :
        IF k <= n THEN b[k] \notin {0, DOT, BLANK} ELSE b[k] = BLANK
  BY DEF IsField
<1>3. n \in Nat /\ \A k \in 1 .. n : k \in 1 .. Len(b)
  BY <1>1
<1>4. {k \in 1 .. Len(b) : b[k] # BLANK} = 1 .. n
  BY <1>1, <1>2, <1>3
<1>5. Size(b) = n
  BY <1>3, <1>4, UpTo DEF Size
<1>6. \A k \in 1 .. n : b[k] \in Bytes
  BY <1>1, <1>3
<1>7. /\ Field(b) \in Seq(Bytes) /\ Len(Field(b)) = IF 1 <= n THEN n - 1 + 1 ELSE 0
      /\ \A k \in 1 .. n - 1 + 1 : Field(b)[k] = b[1 + k - 1]
  BY <1>3, <1>5, <1>6, SubSeqProperties DEF Field
<1>8. /\ Len(Field(b)) = n /\ \A k \in 1 .. n : Field(b)[k] = b[k]
  <2>1. n - 1 + 1 = n /\ \A k \in 1 .. n : 1 + k - 1 = k
    BY <1>3
  <2>2. QED
    BY <1>3, <1>7, <2>1
<1>9. /\ \A k \in 1 .. n : b[k] \notin {0, DOT, BLANK}
      /\ \A k \in n + 1 .. Len(b) : b[k] = BLANK
  BY <1>1, <1>2, <1>3
<1>10. QED
  BY <1>5, <1>7, <1>8, <1>9

(* fat16_to_proper_string copies up to the first blank or zero.            *)
LEMMA ProperIs ==
  ASSUME NEW raw \in Seq(Bytes), NEW n \in 0 .. Len(raw) - 1, raw[n + 1] \in {0, BLANK},
         \A k \in 1 .. n : raw[k] \notin {0, BLANK}
  PROVE  /\ fat16_to_proper_string(raw) \in Seq(Bytes)
         /\ Len(fat16_to_proper_string(raw)) = n
         /\ \A k \in 1 .. n : fat16_to_proper_string(raw)[k] = raw[k]
<1>1. Len(raw) \in Nat /\ \A k \in 1 .. Len(raw) : raw[k] \in Bytes
  BY LenProperties, ElementOfSeq
<1> DEFINE Stop(e) == raw[e] \in {0, BLANK} /\ \A k \in 1 .. e - 1 : raw[k] \notin {0, BLANK}
<1>2. n \in Nat /\ n + 1 \in 1 .. Len(raw) /\ n + 1 - 1 = n /\ \A k \in 1 .. n : k \in 1 .. Len(raw)
  BY <1>1
<1>3. Stop(n + 1)
  BY <1>2
<1>4. ASSUME NEW e \in 1 .. Len(raw), Stop(e) PROVE e = n + 1
  <2>1. CASE e <= n
    BY <1>1, <1>2, <1>4, <2>1
  <2>2. CASE e > n + 1
    <3>1. n + 1 \in 1 .. e - 1
      BY <1>1, <1>2, <2>2
    <3>2. QED
      BY <1>4, <3>1
  <2>3. QED
    BY <1>1, <1>2, <2>1, <2>2
<1> DEFINE end == CHOOSE e \in 1 .. Len(raw) : Stop(e)
<1>5. end = n + 1
  <2> HIDE DEF Stop
  <2>1. end \in 1 .. Len(raw) /\ Stop(end)
    BY <1>2, <1>3
  <2> HIDE DEF end
  <2>2. QED
    BY <1>4, <2>1
<1>6. fat16_to_proper_string(raw) = SubSeq(raw, 1, end - 1)
  BY DEF fat16_to_proper_string
<1> HIDE DEF end, Stop
<1>7. fat16_to_proper_string(raw) = SubSeq(raw, 1, n)
  BY <1>2, <1>5, <1>6
<1>8. \A k \in 1 .. n : raw[k] \in Bytes
  BY <1>1, <1>2
<1>9. /\ SubSeq(raw, 1, n) \in Seq(Bytes) /\ Len(SubSeq(raw, 1, n)) = IF 1 <= n THEN n - 1 + 1 ELSE 0
      /\ \A k \in 1 .. n - 1 + 1 : SubSeq(raw, 1, n)[k] = raw[1 + k - 1]
  BY <1>2, <1>8, SubSeqProperties
<1>10. n - 1 + 1 = n /\ \A k \in 1 .. n : 1 + k - 1 = k
  BY <1>2
<1>11. QED
  BY <1>2, <1>7, <1>9, <1>10

(* What an entry's name is made of.                                        *)
EntryTypes(entry) ==
  /\ entry.filename \in Seq(Bytes) /\ Len(entry.filename) = NAME_BYTES
  /\ entry.ext \in Seq(Bytes) /\ Len(entry.ext) = EXT_BYTES
  /\ entry.attribute \in Bytes

(* The bytes from the name on.                                             *)
LEMMA RawIs ==
  ASSUME NEW entry, EntryTypes(entry)
  PROVE  /\ Raw(entry) \in Seq(Bytes) /\ Len(Raw(entry)) = NAME_BYTES + EXT_BYTES + 2
         /\ \A k \in 1 .. NAME_BYTES : Raw(entry)[k] = entry.filename[k]
         /\ \A k \in 1 .. EXT_BYTES : Raw(entry)[NAME_BYTES + k] = entry.ext[k]
         /\ Raw(entry)[NAME_BYTES + EXT_BYTES + 1] = entry.attribute
         /\ Raw(entry)[NAME_BYTES + EXT_BYTES + 2] = 0
<1> DEFINE f == entry.filename x == entry.ext a == entry.attribute t == <<a, 0>>
<1>1. NAME_BYTES \in Nat \ {0} /\ EXT_BYTES \in Nat \ {0}
  BY PathAssumption
<1>2. /\ f \in Seq(Bytes) /\ Len(f) = NAME_BYTES /\ x \in Seq(Bytes) /\ Len(x) = EXT_BYTES
      /\ a \in Bytes /\ 0 \in Bytes
  BY DEF EntryTypes, Bytes
<1>3. t \in Seq(Bytes) /\ Len(t) = 2 /\ t[1] = a /\ t[2] = 0
  BY <1>2
<1>4. Raw(entry) = (f \o x) \o t
  BY DEF Raw
<1> HIDE DEF f, x, a, t
<1>5. /\ f \o x \in Seq(Bytes) /\ Len(f \o x) = NAME_BYTES + EXT_BYTES
      /\ \A k \in 1 .. NAME_BYTES + EXT_BYTES :
           (f \o x)[k] = IF k <= NAME_BYTES THEN f[k] ELSE x[k - NAME_BYTES]
  BY <1>2, ConcatProperties
<1>6. PICK y \in Seq(Bytes) : y = f \o x /\ Len(y) = NAME_BYTES + EXT_BYTES
  BY <1>5
<1>7. /\ y \o t \in Seq(Bytes) /\ Len(y \o t) = NAME_BYTES + EXT_BYTES + 2
      /\ \A k \in 1 .. NAME_BYTES + EXT_BYTES + 2 :
           (y \o t)[k] = IF k <= NAME_BYTES + EXT_BYTES THEN y[k] ELSE t[k - (NAME_BYTES + EXT_BYTES)]
  <2>1. /\ y \o t \in Seq(Bytes) /\ Len(y \o t) = Len(y) + Len(t)
        /\ \A k \in 1 .. Len(y) + Len(t) : (y \o t)[k] = IF k <= Len(y) THEN y[k] ELSE t[k - Len(y)]
    BY <1>3, ConcatProperties
  <2>2. QED
    BY <1>3, <1>6, <2>1
<1>8. PICK r : r = Raw(entry) /\ r = y \o t
  BY <1>4, <1>6
<1>9. ASSUME NEW k \in 1 .. NAME_BYTES PROVE r[k] = f[k]
  <2>1. k \in 1 .. NAME_BYTES + EXT_BYTES + 2 /\ k <= NAME_BYTES + EXT_BYTES
        /\ k \in 1 .. NAME_BYTES + EXT_BYTES /\ k <= NAME_BYTES
    BY <1>1
  <2>2. QED
    BY <1>5, <1>6, <1>7, <1>8, <2>1
<1>10. ASSUME NEW k \in 1 .. EXT_BYTES PROVE r[NAME_BYTES + k] = x[k]
  <2>1. PICK j \in 1 .. NAME_BYTES + EXT_BYTES : j = NAME_BYTES + k
    BY <1>1
  <2>2. /\ j \in 1 .. NAME_BYTES + EXT_BYTES + 2 /\ j <= NAME_BYTES + EXT_BYTES
        /\ ~ (j <= NAME_BYTES) /\ j - NAME_BYTES = k
    BY <1>1, <2>1
  <2>3. QED
    BY <1>5, <1>6, <1>7, <1>8, <2>1, <2>2
<1>11. /\ r[NAME_BYTES + EXT_BYTES + 1] = a /\ r[NAME_BYTES + EXT_BYTES + 2] = 0
  <2>1. PICK m \in Nat : m = NAME_BYTES + EXT_BYTES
    BY <1>1
  <2>2. /\ m + 1 \in 1 .. m + 2 /\ m + 2 \in 1 .. m + 2 /\ ~ (m + 1 <= m) /\ ~ (m + 2 <= m)
        /\ m + 1 - m = 1 /\ m + 2 - m = 2
    BY <2>1
  <2>3. r[m + 1] = t[1] /\ r[m + 2] = t[2]
    <3>1. \A k \in 1 .. m + 2 : r[k] = IF k <= m THEN y[k] ELSE t[k - m]
      BY <1>7, <1>8, <2>1
    <3>2. QED
      BY <2>2, <3>1
  <2>4. QED
    BY <1>3, <2>1, <2>3
<1>12. r \in Seq(Bytes) /\ Len(r) = NAME_BYTES + EXT_BYTES + 2
  BY <1>7, <1>8
<1>13. QED
  BY <1>8, <1>9, <1>10, <1>11, <1>12 DEF f, x, a

(* The bytes from the extension on.                                        *)
LEMMA TailIs ==
  ASSUME NEW entry, EntryTypes(entry), NEW tail, tail = From(Raw(entry), NAME_BYTES + 1)
  PROVE  /\ tail \in Seq(Bytes) /\ Len(tail) = EXT_BYTES + 2
         /\ \A k \in 1 .. EXT_BYTES : tail[k] = entry.ext[k]
         /\ tail[EXT_BYTES + 1] = entry.attribute /\ tail[EXT_BYTES + 2] = 0
<1>1. PICK r : r = Raw(entry)
  OBVIOUS
<1>2. /\ r \in Seq(Bytes) /\ Len(r) = NAME_BYTES + EXT_BYTES + 2
      /\ \A k \in 1 .. EXT_BYTES : r[NAME_BYTES + k] = entry.ext[k]
      /\ r[NAME_BYTES + EXT_BYTES + 1] = entry.attribute
      /\ r[NAME_BYTES + EXT_BYTES + 2] = 0
  BY <1>1, RawIs
<1>3. NAME_BYTES \in Nat \ {0} /\ EXT_BYTES \in Nat \ {0}
  BY PathAssumption
<1> DEFINE p == NAME_BYTES + 1 q == NAME_BYTES + EXT_BYTES + 2
<1>4. p \in Int /\ q \in Int /\ p <= q /\ q - p + 1 = EXT_BYTES + 2
  BY <1>3
<1>5. \A k \in p .. q : r[k] \in Bytes
  <2>1. \A k \in p .. q : k \in 1 .. Len(r)
    BY <1>2, <1>3
  <2>2. QED
    BY <1>2, <2>1, ElementOfSeq
<1>6. tail = SubSeq(r, p, q)
  BY <1>1, <1>2 DEF From
<1> HIDE DEF p, q
<1>7. /\ tail \in Seq(Bytes) /\ Len(tail) = q - p + 1
      /\ \A k \in 1 .. q - p + 1 : tail[k] = r[p + k - 1]
  <2>1. /\ SubSeq(r, p, q) \in Seq(Bytes) /\ Len(SubSeq(r, p, q)) = IF p <= q THEN q - p + 1 ELSE 0
        /\ \A k \in 1 .. q - p + 1 : SubSeq(r, p, q)[k] = r[p + k - 1]
    BY <1>4, <1>5, SubSeqProperties
  <2>2. QED
    BY <1>4, <1>6, <2>1
<1>8. \A k \in 1 .. EXT_BYTES + 2 : tail[k] = r[NAME_BYTES + k]
  <2>1. \A k \in 1 .. EXT_BYTES + 2 : p + k - 1 = NAME_BYTES + k
    BY <1>3 DEF p
  <2>2. QED
    BY <1>4, <1>7, <2>1
<1>9. /\ EXT_BYTES + 1 \in 1 .. EXT_BYTES + 2 /\ EXT_BYTES + 2 \in 1 .. EXT_BYTES + 2
      /\ NAME_BYTES + (EXT_BYTES + 1) = NAME_BYTES + EXT_BYTES + 1
      /\ NAME_BYTES + (EXT_BYTES + 2) = NAME_BYTES + EXT_BYTES + 2
      /\ \A k \in 1 .. EXT_BYTES : k \in 1 .. EXT_BYTES + 2
  BY <1>3
<1>10. QED
  BY <1>2, <1>4, <1>7, <1>8, <1>9

(* A terminated name is the field.                                         *)
LEMMA NamePart ==
  ASSUME NEW entry, EntryTypes(entry), Plain(entry),
         Size(entry.filename) = NAME_BYTES => Size(entry.ext) = 0
  PROVE  fat16_to_proper_string(Raw(entry)) = Field(entry.filename)
<1> DEFINE f == entry.filename x == entry.ext
<1>1. /\ f \in Seq(Bytes) /\ Len(f) = NAME_BYTES /\ IsField(f)
      /\ x \in Seq(Bytes) /\ Len(x) = EXT_BYTES /\ IsField(x)
  BY DEF EntryTypes, Plain
<1>2. NAME_BYTES \in Nat \ {0} /\ EXT_BYTES \in Nat \ {0}
  BY PathAssumption
<1>3. PICK r : r = Raw(entry)
  OBVIOUS
<1>4. /\ r \in Seq(Bytes) /\ Len(r) = NAME_BYTES + EXT_BYTES + 2
      /\ \A k \in 1 .. NAME_BYTES : r[k] = f[k]
      /\ \A k \in 1 .. EXT_BYTES : r[NAME_BYTES + k] = x[k]
  BY <1>3, RawIs
<1>5. Size(f) = NAME_BYTES => Size(x) = 0
  OBVIOUS
<1> HIDE DEF f, x
<1>6. /\ Size(f) \in 0 .. NAME_BYTES
      /\ \A k \in 1 .. Size(f) : f[k] \notin {0, DOT, BLANK}
      /\ \A k \in Size(f) + 1 .. NAME_BYTES : f[k] = BLANK
      /\ Field(f) \in Seq(Bytes) /\ Len(Field(f)) = Size(f)
      /\ \A k \in 1 .. Size(f) : Field(f)[k] = f[k]
      /\ \A k \in Size(x) + 1 .. EXT_BYTES : x[k] = BLANK
  BY <1>1, FieldIs
<1>7. PICK n \in 0 .. NAME_BYTES : n = Size(f)
  BY <1>6
<1>8. r[n + 1] \in {0, BLANK}
  <2>1. CASE n < NAME_BYTES
    <3>1. n + 1 \in 1 .. NAME_BYTES /\ n + 1 \in n + 1 .. NAME_BYTES
      BY <1>2, <2>1
    <3>2. QED
      BY <1>4, <1>6, <1>7, <3>1
  <2>2. CASE n = NAME_BYTES
    <3>1. 1 \in 1 .. EXT_BYTES /\ 1 \in 0 + 1 .. EXT_BYTES
      BY <1>2
    <3>2. x[1] = BLANK
      BY <1>5, <1>6, <1>7, <2>2, <3>1
    <3>3. QED
      BY <1>4, <2>2, <3>1, <3>2
  <2>3. QED
    BY <1>2, <2>1, <2>2
<1>9. \A k \in 1 .. n : r[k] \notin {0, BLANK} /\ r[k] = f[k]
  <2>1. \A k \in 1 .. n : k \in 1 .. NAME_BYTES
    BY <1>2
  <2>2. QED
    BY <1>4, <1>6, <1>7, <2>1
<1>10. n \in 0 .. Len(r) - 1
  BY <1>2, <1>4
<1>11. /\ fat16_to_proper_string(r) \in Seq(Bytes) /\ Len(fat16_to_proper_string(r)) = n
       /\ \A k \in 1 .. n : fat16_to_proper_string(r)[k] = r[k]
  BY <1>4, <1>8, <1>9, <1>10, ProperIs
<1>12. fat16_to_proper_string(r) = Field(f)
  BY <1>6, <1>7, <1>9, <1>11, SeqEqual
<1>13. QED
  BY <1>3, <1>12 DEF f

(* A terminated extension is the field.                                    *)
LEMMA ExtPart ==
  ASSUME NEW entry, EntryTypes(entry), Plain(entry),
         Size(entry.ext) = EXT_BYTES => entry.attribute \in {0, BLANK}
  PROVE  fat16_to_proper_string(From(Raw(entry), NAME_BYTES + 1)) = Field(entry.ext)
<1> DEFINE x == entry.ext
<1>1. x \in Seq(Bytes) /\ Len(x) = EXT_BYTES /\ IsField(x)
  BY DEF EntryTypes, Plain
<1>2. EXT_BYTES \in Nat \ {0}
  BY PathAssumption
<1>3. PICK r : r = From(Raw(entry), NAME_BYTES + 1)
  OBVIOUS
<1>4. /\ r \in Seq(Bytes) /\ Len(r) = EXT_BYTES + 2
      /\ \A k \in 1 .. EXT_BYTES : r[k] = x[k]
      /\ r[EXT_BYTES + 1] = entry.attribute
  BY <1>3, TailIs
<1>5. Size(x) = EXT_BYTES => r[EXT_BYTES + 1] \in {0, BLANK}
  BY <1>4
<1> HIDE DEF x
<1>6. /\ Size(x) \in 0 .. EXT_BYTES
      /\ \A k \in 1 .. Size(x) : x[k] \notin {0, DOT, BLANK}
      /\ \A k \in Size(x) + 1 .. EXT_BYTES : x[k] = BLANK
      /\ Field(x) \in Seq(Bytes) /\ Len(Field(x)) = Size(x)
      /\ \A k \in 1 .. Size(x) : Field(x)[k] = x[k]
  BY <1>1, FieldIs
<1>7. PICK n \in 0 .. EXT_BYTES : n = Size(x)
  BY <1>6
<1>8. r[n + 1] \in {0, BLANK}
  <2>1. CASE n < EXT_BYTES
    <3>1. n + 1 \in 1 .. EXT_BYTES /\ n + 1 \in n + 1 .. EXT_BYTES
      BY <1>2, <2>1
    <3>2. QED
      BY <1>4, <1>6, <1>7, <3>1
  <2>2. CASE n = EXT_BYTES
    BY <1>5, <1>7, <2>2
  <2>3. QED
    BY <1>2, <2>1, <2>2
<1>9. \A k \in 1 .. n : r[k] \notin {0, BLANK} /\ r[k] = x[k]
  <2>1. \A k \in 1 .. n : k \in 1 .. EXT_BYTES
    BY <1>2
  <2>2. QED
    BY <1>4, <1>6, <1>7, <2>1
<1>10. n \in 0 .. Len(r) - 1
  BY <1>2, <1>4
<1>11. /\ fat16_to_proper_string(r) \in Seq(Bytes) /\ Len(fat16_to_proper_string(r)) = n
       /\ \A k \in 1 .. n : fat16_to_proper_string(r)[k] = r[k]
  BY <1>4, <1>8, <1>9, <1>10, ProperIs
<1>12. fat16_to_proper_string(r) = Field(x)
  BY <1>6, <1>7, <1>9, <1>11, SeqEqual
<1>13. QED
  BY <1>3, <1>12 DEF x

(* A name that runs on is longer than its field, without a dot in it.      *)
LEMMA NameRunsOn ==
  ASSUME NEW entry, EntryTypes(entry), Plain(entry),
         Size(entry.filename) = NAME_BYTES, Size(entry.ext) # 0
  PROVE  /\ fat16_to_proper_string(Raw(entry)) \in Seq(Bytes)
         /\ Len(fat16_to_proper_string(Raw(entry))) >= NAME_BYTES + 1
         /\ \A k \in 1 .. NAME_BYTES + 1 : fat16_to_proper_string(Raw(entry))[k] # DOT
<1> DEFINE f == entry.filename x == entry.ext
<1>1. /\ f \in Seq(Bytes) /\ Len(f) = NAME_BYTES /\ IsField(f)
      /\ x \in Seq(Bytes) /\ Len(x) = EXT_BYTES /\ IsField(x)
  BY DEF EntryTypes, Plain
<1>2. NAME_BYTES \in Nat \ {0} /\ EXT_BYTES \in Nat \ {0}
  BY PathAssumption
<1>3. PICK r : r = Raw(entry)
  OBVIOUS
<1>4. /\ r \in Seq(Bytes) /\ Len(r) = NAME_BYTES + EXT_BYTES + 2
      /\ \A k \in 1 .. NAME_BYTES : r[k] = f[k]
      /\ \A k \in 1 .. EXT_BYTES : r[NAME_BYTES + k] = x[k]
      /\ r[NAME_BYTES + EXT_BYTES + 2] = 0
  BY <1>3, RawIs
<1>5. Size(f) = NAME_BYTES /\ Size(x) # 0
  OBVIOUS
<1> HIDE DEF f, x
<1>6. /\ \A k \in 1 .. NAME_BYTES : f[k] \notin {0, DOT, BLANK}
      /\ Size(x) \in 0 .. EXT_BYTES /\ \A k \in 1 .. Size(x) : x[k] \notin {0, DOT, BLANK}
  BY <1>1, <1>5, FieldIs
<1>7. \A k \in 1 .. NAME_BYTES + 1 : r[k] \notin {0, DOT, BLANK}
  <2>1. 1 \in 1 .. EXT_BYTES /\ 1 \in 1 .. Size(x)
    BY <1>2, <1>5, <1>6
  <2>2. r[NAME_BYTES + 1] = x[1] /\ x[1] \notin {0, DOT, BLANK}
    BY <1>4, <1>6, <2>1
  <2>3. \A k \in 1 .. NAME_BYTES + 1 : k \in 1 .. NAME_BYTES \/ k = NAME_BYTES + 1
    BY <1>2
  <2>4. QED
    BY <1>4, <1>6, <2>2, <2>3
<1> DEFINE stops == {k \in 1 .. Len(r) : r[k] \in {0, BLANK}}
<1>8. PICK e \in stops : \A k \in stops : e <= k
  <2>1. NAME_BYTES + EXT_BYTES + 2 \in stops
    BY <1>2, <1>4
  <2>2. stops \in SUBSET Nat
    BY <1>2, <1>4
  <2> HIDE DEF stops
  <2>3. QED
    BY <2>1, <2>2, LeastOf
<1>9. e \in 1 .. Len(r) /\ r[e] \in {0, BLANK} /\ Len(r) \in Nat
  BY <1>2, <1>4
<1>10. e > NAME_BYTES + 1
  <2>1. ~ (e \in 1 .. NAME_BYTES + 1)
    BY <1>7, <1>9
  <2>2. QED
    BY <1>2, <1>9, <2>1
<1>11. PICK n \in 0 .. Len(r) - 1 : n + 1 = e
  BY <1>9
<1>12. \A k \in 1 .. n : r[k] \notin {0, BLANK}
  <2>1. ASSUME NEW k \in 1 .. n, r[k] \in {0, BLANK} PROVE FALSE
    <3>1. k \in 1 .. Len(r) /\ ~ (e <= k)
      BY <1>9, <1>11
    <3>2. QED
      BY <1>8, <2>1, <3>1
  <2>2. QED
    BY <2>1
<1>13. n >= NAME_BYTES + 1
  BY <1>2, <1>9, <1>10, <1>11
<1>14. /\ fat16_to_proper_string(r) \in Seq(Bytes) /\ Len(fat16_to_proper_string(r)) = n
       /\ \A k \in 1 .. n : fat16_to_proper_string(r)[k] = r[k]
  BY <1>4, <1>9, <1>11, <1>12, ProperIs
<1>15. \A k \in 1 .. NAME_BYTES + 1 : k \in 1 .. n
  BY <1>2, <1>9, <1>11, <1>13
<1>16. QED
  BY <1>3, <1>7, <1>13, <1>14, <1>15

(* An extension that runs on is one byte too long: the attribute's.        *)
LEMMA ExtRunsOn ==
  ASSUME NEW entry, EntryTypes(entry), Plain(entry),
         Size(entry.ext) = EXT_BYTES, entry.attribute \notin {0, BLANK}
  PROVE  /\ fat16_to_proper_string(From(Raw(entry), NAME_BYTES + 1)) \in Seq(Bytes)
         /\ Len(fat16_to_proper_string(From(Raw(entry), NAME_BYTES + 1))) = EXT_BYTES + 1
<1> DEFINE x == entry.ext
<1>1. x \in Seq(Bytes) /\ Len(x) = EXT_BYTES /\ IsField(x) /\ Size(x) = EXT_BYTES
  BY DEF EntryTypes, Plain
<1>2. EXT_BYTES \in Nat \ {0}
  BY PathAssumption
<1>3. PICK r : r = From(Raw(entry), NAME_BYTES + 1)
  OBVIOUS
<1>4. /\ r \in Seq(Bytes) /\ Len(r) = EXT_BYTES + 2
      /\ \A k \in 1 .. EXT_BYTES : r[k] = x[k]
      /\ r[EXT_BYTES + 1] \notin {0, BLANK} /\ r[EXT_BYTES + 2] = 0
  BY <1>3, TailIs
<1> HIDE DEF x
<1>5. \A k \in 1 .. EXT_BYTES : x[k] \notin {0, DOT, BLANK}
  BY <1>1, FieldIs
<1>6. PICK n \in 0 .. Len(r) - 1 : n = EXT_BYTES + 1 /\ n + 1 = EXT_BYTES + 2
  BY <1>2, <1>4
<1>7. \A k \in 1 .. n : r[k] \notin {0, BLANK}
  <2>1. \A k \in 1 .. n : k \in 1 .. EXT_BYTES \/ k = EXT_BYTES + 1
    BY <1>2, <1>6
  <2>2. QED
    BY <1>4, <1>5, <2>1
<1>8. /\ fat16_to_proper_string(r) \in Seq(Bytes) /\ Len(fat16_to_proper_string(r)) = n
  BY <1>4, <1>6, <1>7, ProperIs
<1>9. QED
  BY <1>3, <1>6, <1>8

(* Whether there is an extension is read off its first byte.               *)
LEMMA HasExtension ==
  ASSUME NEW entry, EntryTypes(entry), Plain(entry)
  PROVE  entry.ext[1] \in {0, BLANK} <=> Size(entry.ext) = 0
<1> DEFINE x == entry.ext
<1>1. x \in Seq(Bytes) /\ Len(x) = EXT_BYTES /\ IsField(x) /\ EXT_BYTES \in Nat \ {0}
  BY PathAssumption DEF EntryTypes, Plain
<1> HIDE DEF x
<1>2. PICK n \in 0 .. EXT_BYTES :
        /\ n = Size(x) /\ \A k \in 1 .. n : x[k] \notin {0, DOT, BLANK}
        /\ \A k \in n + 1 .. EXT_BYTES : x[k] = BLANK
  BY <1>1, FieldIs
<1>3. CASE n = 0
  BY <1>1, <1>2, <1>3 DEF x
<1>4. CASE n # 0
  <2>1. 1 \in 1 .. n
    BY <1>1, <1>4
  <2>2. QED
    BY <1>2, <1>4, <2>1 DEF x
<1>5. QED
  BY <1>3, <1>4

(* The search compares with the name of the entry unless a field runs on.  *)
LEMMA NameIs ==
  ASSUME NEW entry, EntryTypes(entry), Plain(entry), Terminated(entry)
  PROVE  fat16_get_full_filename_with_extension(entry) = ShortName(entry)
<1>1. /\ Size(entry.filename) = NAME_BYTES => Size(entry.ext) = 0
      /\ Size(entry.ext) = EXT_BYTES => entry.attribute \in {0, BLANK}
  BY DEF Terminated, ARCHIEVED, BLANK
<1>2. /\ fat16_to_proper_string(Raw(entry)) = Field(entry.filename)
      /\ fat16_to_proper_string(From(Raw(entry), NAME_BYTES + 1)) = Field(entry.ext)
  BY <1>1, NamePart, ExtPart
<1>3. QED
  BY <1>2, HasExtension DEF fat16_get_full_filename_with_extension, ShortName

(* Only a dot is a dot in another case.                                    *)
LEMMA DotsAgree ==
  ASSUME NEW c \in Bytes, NEW d \in Bytes, toLower(c) = toLower(d)
  PROVE  c = DOT <=> d = DOT
BY DEF Bytes, toLower, DOT

(* An entry whose name or extension runs on is not found under a short     *)
(* name.                                                                   *)
LEMMA NotShort ==
  ASSUME NEW entry, EntryTypes(entry), Plain(entry), ~ Terminated(entry), NEW s \in Seq(Bytes),
         SameIgnoringCase(fat16_get_full_filename_with_extension(entry), s)
  PROVE  ~ IsShortName(s)
<1> DEFINE name == fat16_to_proper_string(Raw(entry))
           ext == fat16_to_proper_string(From(Raw(entry), NAME_BYTES + 1))
           full == fat16_get_full_filename_with_extension(entry)
<1>1. NAME_BYTES \in Nat \ {0} /\ EXT_BYTES \in Nat \ {0} /\ Len(s) \in Nat
  BY PathAssumption, LenProperties
<1>2. full = name \o (IF Size(entry.ext) = 0 THEN << >> ELSE <<DOT>> \o ext)
  BY HasExtension DEF fat16_get_full_filename_with_extension
<1>3. Size(entry.ext) # 0
  BY <1>1 DEF Terminated
<1>4. full = name \o (<<DOT>> \o ext)
  BY <1>2, <1>3
<1>5. SameIgnoringCase(full, s)
  OBVIOUS
<1>6. ext \in Seq(Bytes)
  <2>1. CASE Size(entry.ext) = EXT_BYTES => entry.attribute \in {0, BLANK}
    <3>1. ext = Field(entry.ext)
      BY <2>1, ExtPart
    <3>2. Field(entry.ext) \in Seq(Bytes)
      BY FieldIs DEF Plain, EntryTypes
    <3>3. QED
      BY <3>1, <3>2
  <2>2. QED
    BY <2>1, ExtRunsOn
<1>7. CASE Size(entry.filename) = NAME_BYTES
  <2>1. /\ name \in Seq(Bytes) /\ Len(name) >= NAME_BYTES + 1
        /\ \A k \in 1 .. NAME_BYTES + 1 : name[k] # DOT
    BY <1>3, <1>7, NameRunsOn
  <2> HIDE DEF name, ext, full
  <2>2. /\ full \in Seq(Bytes) /\ Len(full) \in Nat /\ Len(full) >= NAME_BYTES + 1
        /\ \A k \in 1 .. NAME_BYTES + 1 : full[k] = name[k]
    <3>1. PICK t \in Seq(Bytes) : t = <<DOT>> \o ext
      <4>1. DOT \in Bytes
        BY DEF DOT, Bytes
      <4>2. <<DOT>> \in Seq(Bytes)
        BY <4>1
      <4>3. <<DOT>> \o ext \in Seq(Bytes)
        BY <1>6, <4>2, ConcatProperties
      <4>4. QED
        BY <4>3
    <3>2. /\ name \o t \in Seq(Bytes) /\ Len(name \o t) = Len(name) + Len(t)
          /\ \A k \in 1 .. Len(name) + Len(t) :
               (name \o t)[k] = IF k <= Len(name) THEN name[k] ELSE t[k - Len(name)]
      BY <2>1, <3>1, ConcatProperties
    <3>3. /\ Len(name) \in Nat /\ Len(t) \in Nat
          /\ \A k \in 1 .. NAME_BYTES + 1 : k \in 1 .. Len(name) + Len(t) /\ k <= Len(name)
      BY <1>1, <2>1
    <3>4. QED
      BY <1>1, <1>4, <2>1, <3>1, <3>2, <3>3
  <2>3. /\ Len(s) >= NAME_BYTES + 1
        /\ \A k \in 1 .. NAME_BYTES + 1 : s[k] # DOT
    <3>1. Len(full) = Len(s) /\ \A k \in 1 .. Len(full) : toLower(full[k]) = toLower(s[k])
      BY <1>5 DEF SameIgnoringCase
    <3>2. ASSUME NEW k \in 1 .. NAME_BYTES + 1 PROVE s[k] # DOT
      <4>1. k \in 1 .. Len(full) /\ k \in 1 .. Len(s)
        BY <1>1, <2>2, <3>1
      <4>2. full[k] \in Bytes /\ s[k] \in Bytes /\ full[k] # DOT
        BY <2>1, <2>2, <4>1, ElementOfSeq
      <4>3. QED
        BY <3>1, <4>1, <4>2, DotsAgree
    <3>3. QED
      BY <2>2, <3>1, <3>2
  <2>4. ASSUME NEW n \in 0 .. Len(s), n \in 1 .. NAME_BYTES,
               n = Len(s) \/ s[n + 1] = DOT
        PROVE  FALSE
    <3>1. n # Len(s) /\ n + 1 \in 1 .. NAME_BYTES + 1
      BY <1>1, <2>3, <2>4
    <3>2. QED
      BY <2>3, <2>4, <3>1
  <2>5. QED
    BY <2>4 DEF IsShortName
<1>8. CASE Size(entry.filename) # NAME_BYTES
  <2>1. Size(entry.ext) = EXT_BYTES /\ entry.attribute \notin {0, BLANK}
    BY <1>8 DEF Terminated, ARCHIEVED, BLANK
  <2>2. ext \in Seq(Bytes) /\ Len(ext) = EXT_BYTES + 1
    BY <2>1, ExtRunsOn
  <2>3. /\ name = Field(entry.filename) /\ name \in Seq(Bytes)
        /\ \A k \in 1 .. Len(name) : name[k] # DOT
    <3>1. name = Field(entry.filename)
      BY <1>8, NamePart
    <3>2. entry.filename \in Seq(Bytes) /\ IsField(entry.filename)
      BY DEF EntryTypes, Plain
    <3> HIDE DEF name
    <3>3. QED
      BY <3>1, <3>2, FieldIs
  <2> HIDE DEF name, ext, full
  <2>4. PICK m \in Nat : m = Len(name)
    BY <2>3, LenProperties
  <2>5. /\ full \in Seq(Bytes) /\ Len(full) = m + EXT_BYTES + 2
        /\ full[m + 1] = DOT /\ \A k \in 1 .. m : full[k] # DOT
    <3>1. PICK t \in Seq(Bytes) : t = <<DOT>> \o ext
      <4>1. DOT \in Bytes
        BY DEF DOT, Bytes
      <4>2. <<DOT>> \in Seq(Bytes)
        BY <4>1
      <4>3. <<DOT>> \o ext \in Seq(Bytes)
        BY <1>6, <4>2, ConcatProperties
      <4>4. QED
        BY <4>3
    <3>2. Len(t) = EXT_BYTES + 2 /\ t[1] = DOT
      BY <1>1, <2>2, <3>1 DEF DOT
    <3>3. /\ name \o t \in Seq(Bytes) /\ Len(name \o t) = Len(name) + Len(t)
          /\ \A k \in 1 .. Len(name) + Len(t) :
               (name \o t)[k] = IF k <= Len(name) THEN name[k] ELSE t[k - Len(name)]
      BY <2>3, <3>1, ConcatProperties
    <3>4. /\ m + 1 \in 1 .. m + Len(t) /\ ~ (m + 1 <= m) /\ m + 1 - m = 1
          /\ \A k \in 1 .. m : k \in 1 .. m + Len(t) /\ k <= m
      BY <1>1, <3>2
    <3>5. full = name \o t
      BY <1>4, <3>1
    <3>6. full[m + 1] = t[1] /\ \A k \in 1 .. m : full[k] = name[k]
      BY <2>4, <3>3, <3>4, <3>5
    <3>7. QED
      BY <1>1, <2>3, <2>4, <3>2, <3>3, <3>5, <3>6
  <2>6. /\ Len(s) = m + EXT_BYTES + 2
        /\ s[m + 1] = DOT /\ \A k \in 1 .. m : s[k] # DOT
    <3>1. Len(full) = Len(s) /\ \A k \in 1 .. Len(full) : toLower(full[k]) = toLower(s[k])
      BY <1>5 DEF SameIgnoringCase
    <3>2. ASSUME NEW k \in 1 .. m + 1 PROVE s[k] = DOT <=> full[k] = DOT
      <4>1. k \in 1 .. Len(full) /\ k \in 1 .. Len(s)
        BY <1>1, <2>5, <3>1
      <4>2. full[k] \in Bytes /\ s[k] \in Bytes
        BY <2>5, <4>1, ElementOfSeq
      <4>3. QED
        BY <3>1, <4>1, <4>2, DotsAgree
    <3>3. m + 1 \in 1 .. m + 1 /\ \A k \in 1 .. m : k \in 1 .. m + 1
      BY <2>4
    <3>4. QED
      BY <2>5, <3>1, <3>2, <3>3
  <2>7. ASSUME NEW n \in 0 .. Len(s), \A k \in 1 .. n : s[k] # DOT,
               n = Len(s) \/ (s[n + 1] = DOT /\ Len(s) - n - 1 \in 1 .. EXT_BYTES)
        PROVE  FALSE
    <3>1. ~ (m + 1 \in 1 .. n)
      BY <2>6, <2>7
    <3>2. n <= m /\ n # Len(s)
      BY <1>1, <2>4, <2>6, <3>1
    <3>3. n = m
      <4>1. ~ (n + 1 \in 1 .. m)
        BY <2>6, <2>7, <3>2
      <4>2. QED
        BY <2>4, <3>2, <4>1
    <3>4. Len(s) - n - 1 = EXT_BYTES + 1
      BY <1>1, <2>4, <2>6, <3>3
    <3>5. QED
      BY <1>1, <2>7, <3>2, <3>4
  <2>8. QED
    BY <2>7 DEF IsShortName
<1>9. QED
  BY <1>7, <1>8

-----------------------------------------------------------------------------
(* The search.  What the entries compared so far have brought, and that a  *)
(* call which gives the path back has compared them all, for a path of one *)
(* part.                                                                   *)
Matches(k) ==
  SameIgnoringCase(fat16_get_full_filename_with_extension(root[k]), Components[1])

SInv ==
  /\ phase \in {"parse", "parts"} => i = 1 /\ found = 0
  /\ phase = "search" =>
       /\ parts # << >> /\ i <= Total(root) + 1 /\ found < i
       /\ found # 0 => Matches(found)
       /\ \A k \in 1 .. i - 1 : Matches(k) => found # 0
  /\ phase = "open" => Leading = 1 /\ found \in 1 .. Total(root) /\ Matches(found)
  /\ phase \in {"free", "failed"} /\ drive = 0 /\ Leading = 1 =>
       \A k \in 1 .. Total(root) : ~ Matches(k)

(* The first part is the first component, and the parts are the leading    *)
(* components.                                                             *)
LEMMA FirstPart ==
  ASSUME PInv, phase \in {"search", "open"}
  PROVE  /\ Len(parts) \in Nat /\ Leading = Len(parts)
         /\ parts # << >> => parts[1].part = Components[1] /\ Len(parts) >= 1
<1>1. /\ filename \in Filenames /\ Accepted(filename) /\ parts \in Seq(PathParts)
      /\ Len(parts) < Cardinality(Slashes) /\ \A k \in 1 .. Len(parts) : Between(k)
  BY DEF PInv, PTypes, PParsed
<1>2. Len(parts) \in Nat
  BY <1>1, LenProperties
<1>3. Leading = Len(parts)
  BY ListIsLeading
<1>4. ASSUME parts # << >> PROVE parts[1].part = Components[1] /\ Len(parts) >= 1
  <2>1. Len(parts) >= 1 /\ 1 \in 1 .. Len(parts) /\ 1 \in Nat
    BY <1>1, <1>4, EmptySeq
  <2>2. PICK a \in Slashes, b \in Slashes :
          Rank(a) = 1 - 1 /\ Rank(b) = 1 /\ parts[1].part = SubSeq(Rest, a + 1, b - 1)
    BY <1>1, <2>1 DEF Between
  <2>3. QED
    BY <1>1, <2>1, <2>2, ComponentIs
<1>5. QED
  BY <1>2, <1>3, <1>4

(* A path whose list stays empty has no leading component.                 *)
LEMMA NoPart ==
  ASSUME PInv, ParseEnds, parts = << >>
  PROVE  Leading # 1
<1>1. /\ phase = "parts" /\ Part = << >> /\ Accepted(filename) /\ filename \in Filenames
      /\ Len(parts) = 0
      /\ \/ tmp_path - 4 \in Slashes /\ Rank(tmp_path - 4) = Len(parts)
         \/ tmp_path = Len(filename) + 1 /\ Len(parts) = Cardinality(Slashes) - 1
  BY EmptySeq DEF PInv, PTypes, PParsed, ParseEnds
<1> DEFINE m == Cardinality(Slashes) - 1
           Good(n) == /\ \A k \in 1 .. n : Components[k] # << >>
                      /\ n = m \/ Components[n + 1] = << >>
<1>2. m \in Nat
  BY <1>1, RankEnds, RankType, SlashesAre
<1>3. Len(Components) = m
  BY <1>2 DEF Components
<1>4. m = 0 \/ Components[1] = << >>
  <2>1. CASE tmp_path - 4 \in Slashes /\ Rank(tmp_path - 4) = Len(parts)
    <3>1. Components[Len(parts) + 1] = Part
      BY <1>1, <2>1, PartParsed
    <3>2. QED
      BY <1>1, <3>1
  <2>2. QED
    BY <1>1, <2>1
<1>5. Leading = CHOOSE n \in 0 .. m : Good(n)
  BY <1>3 DEF Leading
<1>6. 0 \in 0 .. m /\ Good(0)
  BY <1>2, <1>4
<1> HIDE DEF Good, m
<1>7. Leading \in 0 .. m /\ Good(Leading)
  BY <1>5, <1>6
<1>8. ASSUME Leading = 1 PROVE FALSE
  BY <1>2, <1>4, <1>7, <1>8 DEF Good
<1>9. QED
  BY <1>8

(* A call works on one path and one directory.                             *)
LEMMA NamesStay ==
  ASSUME filename' = filename, root' = root
  PROVE  /\ Leading' = Leading /\ Total(root)' = Total(root)
         /\ \A k : Matches(k)' = Matches(k)
<1>1. Components' = Components
  BY PathStays
<1>2. QED
  BY <1>1 DEF Leading, Matches, Total, SameIgnoringCase

(* Each step of a call keeps what is known of the entries compared.        *)
LEMMA SearchKept ==
  ASSUME PInv, SInv, Next
  PROVE  SInv'
<1>1. /\ filename' = filename /\ root' = root /\ root \in Directories
      /\ found \in 0 .. Len(root) /\ i \in 1 .. Len(root) + 1
  BY DEF PInv, PTypes, Next, ParseRefuses, pathparser_create_root, pathparser_parse_path_part,
         ParseEnds, SearchEntry, SearchEnds, FreePart, FreeRoot
<1>2. /\ Leading' = Leading /\ Total(root)' = Total(root) /\ \A k : Matches(k)' = Matches(k)
  BY <1>1, NamesStay
<1>3. Len(root) \in Nat /\ Total(root) \in 0 .. Len(root)
  BY <1>1, TotalRange
<1>4. CASE ParseRefuses
  BY <1>4 DEF ParseRefuses, SInv
<1>5. CASE pathparser_create_root \/ pathparser_parse_path_part
  BY <1>5 DEF pathparser_create_root, pathparser_parse_path_part, SInv
<1>6. CASE ParseEnds
  <2>1. /\ phase = "parts" /\ phase' = IF parts = << >> \/ drive # 0 THEN "free" ELSE "search"
        /\ parts' = parts /\ drive' = drive /\ i' = i /\ found' = found
    BY <1>6 DEF ParseEnds
  <2>2. i = 1 /\ found = 0
    BY <2>1 DEF SInv
  <2>3. CASE parts = << >> \/ drive # 0
    <3>1. phase' = "free" /\ ~ (drive' = 0 /\ Leading' = 1)
      BY <1>2, <1>6, <2>1, <2>3, NoPart
    <3>2. QED
      BY <3>1 DEF SInv
  <2>4. CASE ~ (parts = << >> \/ drive # 0)
    <3>1. phase' = "search" /\ parts' # << >> /\ i' = 1 /\ found' = 0
      BY <2>1, <2>2, <2>4
    <3>2. i' <= Total(root)' + 1 /\ found' < i'
      BY <1>2, <1>3, <3>1
    <3>3. \A k \in 1 .. i' - 1 : FALSE
      BY <3>1
    <3>4. QED
      BY <3>1, <3>2, <3>3 DEF SInv
  <2>5. QED
    BY <2>3, <2>4
<1>7. CASE SearchEntry
  <2>1. /\ phase = "search" /\ phase' = "search" /\ i <= Total(root)
        /\ parts' = parts /\ i' = i + 1
        /\ found' = IF SameIgnoringCase(fat16_get_full_filename_with_extension(root[i]), parts[1].part)
                    THEN i ELSE found
    BY <1>7 DEF SearchEntry
  <2>2. /\ parts # << >> /\ found < i /\ (found # 0 => Matches(found))
        /\ \A k \in 1 .. i - 1 : Matches(k) => found # 0
    BY <2>1 DEF SInv
  <2>3. parts[1].part = Components[1]
    BY <2>1, <2>2, FirstPart
  <2>4. found' = IF Matches(i) THEN i ELSE found
    BY <2>1, <2>3 DEF Matches
  <2>5. i' <= Total(root)' + 1 /\ found' < i'
    BY <1>1, <1>2, <1>3, <2>1, <2>2, <2>4
  <2>6. found' # 0 => Matches(found')
    BY <2>2, <2>4
  <2>7. ASSUME NEW k \in 1 .. i' - 1, Matches(k) PROVE found' # 0
    <3>1. k \in 1 .. i - 1 \/ k = i
      BY <1>1, <1>3, <2>1
    <3>2. QED
      BY <1>1, <1>3, <2>2, <2>4, <2>7, <3>1
  <2>8. found' # 0 => Matches(found)'
    BY <1>1, <2>6, PathStays DEF Matches, SameIgnoringCase
  <2>9. \A k \in 1 .. i' - 1 : Matches(k)' => found' # 0
    BY <1>2, <2>7
  <2>10. QED
    BY <2>1, <2>2, <2>5, <2>8, <2>9 DEF SInv
<1>8. CASE SearchEnds
  <2>1. /\ phase = "search" /\ i > Total(root)
        /\ found' = IF Len(parts) = 1 THEN found ELSE 0
        /\ phase' = IF found' = 0 THEN "free" ELSE "open"
        /\ drive' = drive
    BY <1>8 DEF SearchEnds
  <2>2. /\ i <= Total(root) + 1 /\ found < i /\ (found # 0 => Matches(found))
        /\ \A k \in 1 .. i - 1 : Matches(k) => found # 0
    BY <2>1 DEF SInv
  <2>3. i - 1 = Total(root)
    BY <1>1, <1>3, <2>1, <2>2
  <2>4. Leading = Len(parts)
    BY <2>1, FirstPart
  <2>5. CASE found' = 0
    <3>1. Leading = 1 => \A k \in 1 .. Total(root) : ~ Matches(k)
      BY <2>1, <2>2, <2>3, <2>4, <2>5
    <3>2. phase' = "free"
      BY <2>1, <2>5
    <3>3. QED
      BY <1>2, <3>1, <3>2 DEF SInv
  <2>6. CASE found' # 0
    <3>1. phase' = "open" /\ found' = found /\ Leading = 1 /\ Matches(found)
      BY <2>1, <2>2, <2>4, <2>6
    <3>2. found' \in 1 .. Total(root)
      BY <1>1, <1>3, <2>2, <2>3, <2>6, <3>1
    <3>3. Matches(found)'
      BY <1>1, <3>1, PathStays DEF Matches, SameIgnoringCase
    <3>4. QED
      BY <1>2, <3>1, <3>2, <3>3 DEF SInv
  <2>7. QED
    BY <2>5, <2>6
<1>9. CASE FreePart \/ FreeRoot
  <2>1. phase = "free" /\ phase' \in {"free", "failed"} /\ drive' = drive
    BY <1>9 DEF FreePart, FreeRoot
  <2>2. QED
    BY <1>2, <2>1 DEF SInv
<1>10. QED
  BY <1>4, <1>5, <1>6, <1>7, <1>8, <1>9 DEF Next

(* What is known of the search holds in every state of a call.             *)
LEMMA SearchInvariance == Spec => []SInv
<1>1. Init => SInv
  BY DEF Init, SInv
<1>2. PInv /\ SInv /\ [Next]_vars => SInv'
  <2> SUFFICES ASSUME PInv, SInv, [Next]_vars PROVE SInv'
    OBVIOUS
  <2>1. CASE Next
    BY <2>1, SearchKept
  <2>2. CASE UNCHANGED vars
    <3>1. /\ filename' = filename /\ root' = root /\ phase' = phase
          /\ drive' = drive /\ parts' = parts /\ i' = i /\ found' = found
      BY <2>2 DEF vars
    <3>2. /\ Leading' = Leading /\ Total(root)' = Total(root) /\ \A k : Matches(k)' = Matches(k)
      BY <3>1, NamesStay
    <3>3. Matches(found)' = Matches(found)
      BY <3>1, PathStays DEF Matches, SameIgnoringCase
    <3>4. QED
      BY <3>1, <3>2, <3>3 DEF SInv
  <2>3. QED
    BY <2>1, <2>2
<1>3. QED
  BY <1>1, <1>2, PInvariance, PTL DEF Spec

(* For every directory and path, and for all sizes of the two fields:      *)
(* fat16_find_item_in_directory opens an entry under its own name only,    *)
(* and fails only when no counted entry of that name is terminated.        *)
THEOREM LookupFindsTheEntry == Spec => []LookupIsExact
<1>1. PInv /\ SInv => LookupIsExact
  <2> SUFFICES ASSUME PInv, SInv PROVE LookupIsExact
    OBVIOUS
  <2>1. root \in Directories /\ Len(root) \in Nat /\ Total(root) \in 0 .. Len(root)
    BY TotalRange DEF PInv, PTypes
  <2>2. ASSUME NEW k \in 1 .. Total(root) PROVE EntryTypes(root[k])
    <3>1. k \in 1 .. Len(root)
      BY <2>1
    <3>2. QED
      BY <2>1, <3>1, PathAssumption DEF EntryTypes
  <2> DEFINE Wanted == {k \in 1 .. Total(root) :
               /\ Plain(root[k]) /\ Terminated(root[k])
               /\ SameIgnoringCase(ShortName(root[k]), Components[1])}
  <2>3. ASSUME phase = "open"
        PROVE  /\ Leading = 1
               /\ Plain(root[found]) /\ IsShortName(Components[1]) => found \in Wanted
    <3>1. Leading = 1 /\ found \in 1 .. Total(root) /\ Matches(found)
      BY <2>3 DEF SInv
    <3>2. ASSUME Plain(root[found]), IsShortName(Components[1])
          PROVE  found \in Wanted
      <4>1. EntryTypes(root[found])
        BY <2>2, <3>1
      <4>2. Components[1] \in Seq(Bytes)
        <5>1. /\ parts \in Seq(PathParts) /\ Len(parts) = 1
          BY <2>3, <3>1, FirstPart DEF PInv, PTypes
        <5>2. parts # << >> /\ parts[1] \in PathParts
          BY <5>1, EmptySeq, ElementOfSeq
        <5>3. parts[1].part = Components[1]
          BY <2>3, <5>2, FirstPart
        <5>4. QED
          BY <5>2, <5>3 DEF PathParts
      <4>3. Terminated(root[found])
        BY <3>1, <3>2, <4>1, <4>2, NotShort DEF Matches
      <4>4. fat16_get_full_filename_with_extension(root[found]) = ShortName(root[found])
        BY <3>2, <4>1, <4>3, NameIs
      <4>5. QED
        BY <3>1, <3>2, <4>3, <4>4 DEF Matches
    <3>3. QED
      BY <3>1, <3>2
  <2>4. ASSUME phase = "failed", drive = 0, Leading = 1
        PROVE  Wanted = {}
    <3>1. \A k \in 1 .. Total(root) : ~ Matches(k)
      BY <2>4 DEF SInv
    <3>2. ASSUME NEW k \in Wanted PROVE FALSE
      <4>1. fat16_get_full_filename_with_extension(root[k]) = ShortName(root[k])
        BY <2>2, NameIs
      <4>2. QED
        BY <3>1, <4>1 DEF Matches
    <3>3. QED
      BY <3>2
  <2> HIDE DEF Wanted
  <2>5. QED
    BY <2>3, <2>4 DEF LookupIsExact, Wanted
<1>2. QED
  BY <1>1, PInvariance, SearchInvariance, PTL
=============================================================================
