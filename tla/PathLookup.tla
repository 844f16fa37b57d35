----------------------------- MODULE PathLookup -----------------------------
(***************************************************************************)
(* From a file name to a directory entry: pathparser_parse component by    *)
(* component, the search of fat16.c through the root directory, and        *)
(* pathparser_free, as one call of fopen for reading makes them.           *)
(*                                                                         *)
(* Characters are numbers, an entry holds the bytes of its fields as they  *)
(* lie on the disk.  A block of the heap is known by the number of its     *)
(* allocation; allocations succeed.                                        *)
(***************************************************************************)
EXTENDS Integers, SequencesExt

CONSTANTS
  MAX_PATH_LENGTH,   \* PEACHOS_MAX_PATH_LENGTH, 108
  NAME_BYTES,        \* size of fat_directory_item.filename, 8
  EXT_BYTES,         \* size of fat_directory_item.ext, 3
  Filenames,         \* what callers pass to fopen
  Directories        \* root directories: sequences of entries

SLASH == 47
COLON == 58
DOT == 46
BLANK == 32
DELETED == 229       \* 0xE5
ARCHIEVED == 32      \* FAT_FILE_ARCHIEVED, 0x20

Bytes == 0 .. 255

ASSUME PathAssumption ==
  /\ MAX_PATH_LENGTH \in Nat /\ MAX_PATH_LENGTH >= 3
  /\ NAME_BYTES \in Nat \ {0} /\ EXT_BYTES \in Nat \ {0}
  /\ \A f \in Filenames : f \in Seq(Bytes \ {0})
  /\ \A d \in Directories : Len(d) \in Nat /\ \A k \in 1 .. Len(d) :
       /\ d[k].filename \in Seq(Bytes) /\ Len(d[k].filename) = NAME_BYTES
       /\ d[k].ext \in Seq(Bytes) /\ Len(d[k].ext) = EXT_BYTES
       /\ d[k].attribute \in Bytes

VARIABLES
  filename,    \* the argument of fopen
  root,        \* the root directory of the disk
  phase,       \* where the call is
  tmp_path,    \* position of the next character to parse
  drive,       \* path_root->driveNo
  parts,       \* the list of path_parts, each with its string and its two blocks
  allocated,   \* how many blocks were allocated
  freed,       \* the blocks given back, in that order
  i,           \* the search's index
  found        \* the entry fopen opens, 0 for none

vars == <<filename, root, phase, tmp_path, drive, parts, allocated, freed, i, found>>

-----------------------------------------------------------------------------
isDigit(c) == c \in 48 .. 57
toNumericDigit(c) == c - 48
toLower(c) == IF c \in 65 .. 90 THEN c + 32 ELSE c

pathparser_path_valid_format(f) ==
  Len(f) >= 3 /\ isDigit(f[1]) /\ f[2] = COLON /\ f[3] = SLASH

(* Mutant: a path of any length is parsed.                                 *)
AcceptedAnyLength(f) == pathparser_path_valid_format(f)

(* The early returns of pathparser_parse.                                  *)
Accepted(f) == Len(f) <= MAX_PATH_LENGTH /\ pathparser_path_valid_format(f)

(* The loop of pathparser_get_path_part stops at a slash or at the end.    *)
EndOfPart == CHOOSE e \in tmp_path .. Len(filename) + 1 :
  /\ e = Len(filename) + 1 \/ filename[e] = SLASH
  /\ \A k \in tmp_path .. e - 1 : filename[k] # SLASH
Part == SubSeq(filename, tmp_path, EndOfPart - 1)

(* Mutant: the slash is left for the next part.                            *)
AfterPartOnSlash == EndOfPart

AfterPart == IF EndOfPart <= Len(filename) THEN EndOfPart + 1 ELSE EndOfPart

-----------------------------------------------------------------------------
(* Fields of an entry follow each other on the disk, and the byte behind   *)
(* the attribute is 0.                                                     *)
Raw(entry) == entry.filename \o entry.ext \o <<entry.attribute, 0>>

(* fat16_to_proper_string copies up to a blank or a zero and knows nothing *)
(* of the field's size.                                                    *)
fat16_to_proper_string(bytes) ==
  LET end == CHOOSE e \in 1 .. Len(bytes) :
               /\ bytes[e] \in {0, BLANK}
               /\ \A k \in 1 .. e - 1 : bytes[k] \notin {0, BLANK}
  IN  SubSeq(bytes, 1, end - 1)

From(bytes, k) == SubSeq(bytes, k, Len(bytes))

(* Mutant: the extension follows the name without a dot.                   *)
FilenameWithoutDot(entry) ==
  fat16_to_proper_string(Raw(entry))
    \o (IF entry.ext[1] \in {0, BLANK} THEN << >>
        ELSE fat16_to_proper_string(From(Raw(entry), NAME_BYTES + 1)))

fat16_get_full_filename_with_extension(entry) ==
  fat16_to_proper_string(Raw(entry))
    \o (IF entry.ext[1] \in {0, BLANK} THEN << >>
        ELSE <<DOT>> \o fat16_to_proper_string(From(Raw(entry), NAME_BYTES + 1)))

(* istrncmp answers 0: the strings agree up to the case of letters.        *)
SameIgnoringCase(s, t) ==
  Len(s) = Len(t) /\ \A k \in 1 .. Len(s) : toLower(s[k]) = toLower(t[k])

(* fat16_get_total_items_for_directory: entries that are not deleted.      *)
Total(d) == Cardinality({k \in 1 .. Len(d) : d[k].filename[1] # DELETED})

-----------------------------------------------------------------------------
Init ==
  /\ filename \in Filenames /\ root \in Directories
  /\ phase = "parse" /\ tmp_path = 1 /\ drive = 0 /\ parts = << >>
  /\ allocated = 0 /\ freed = << >>
  /\ i = 1 /\ found = 0

(* No path_root.  fopen then frees the null pointer it got.                *)
ParseRefuses ==
  /\ phase = "parse" /\ ~ Accepted(filename)
  /\ phase' = "null"
  /\ UNCHANGED <<filename, root, tmp_path, drive, parts, allocated, freed, i, found>>

pathparser_create_root ==
  /\ phase = "parse" /\ Accepted(filename)
  /\ phase' = "parts"
  /\ drive' = toNumericDigit(filename[1])
  /\ tmp_path' = 4
  /\ allocated' = 1
  /\ UNCHANGED <<filename, root, parts, freed, i, found>>

pathparser_parse_path_part ==
  /\ phase = "parts" /\ Part # << >>
  /\ parts' = Append(parts, [part |-> Part, string |-> allocated + 1, node |-> allocated + 2])
  /\ allocated' = allocated + 2
  /\ tmp_path' = AfterPart
  /\ UNCHANGED <<filename, root, phase, drive, freed, i, found>>

(* An empty part ends the list; the string made for it is freed at once.   *)
ParseEnds ==
  /\ phase = "parts" /\ Part = << >>
  /\ allocated' = allocated + 1 /\ freed' = Append(freed, allocated + 1)
  /\ tmp_path' = AfterPart
  /\ phase' = IF parts = << >> \/ drive # 0 THEN "free" ELSE "search"
  /\ UNCHANGED <<filename, root, drive, parts, i, found>>

-----------------------------------------------------------------------------
(* fat16_find_item_in_directory compares every entry and keeps the last    *)
(* match.                                                                  *)
SearchEntry ==
  /\ phase = "search" /\ i <= Total(root)
  /\ found' = IF SameIgnoringCase(fat16_get_full_filename_with_extension(root[i]), parts[1].part)
              THEN i ELSE found
  /\ i' = i + 1
  /\ UNCHANGED <<filename, root, phase, tmp_path, drive, parts, allocated, freed>>

(* fat16_get_directory_entry: an item is always marked as a file, so a     *)
(* path that goes on behind it is not found.  fopen keeps the path of a    *)
(* file it opens.                                                          *)
SearchEnds ==
  /\ phase = "search" /\ i > Total(root)
  /\ found' = IF Len(parts) = 1 THEN found ELSE 0
  /\ phase' = IF found' = 0 THEN "free" ELSE "open"
  /\ UNCHANGED <<filename, root, tmp_path, drive, parts, allocated, freed, i>>

(* Mutant: a part's string is not freed.                                   *)
FreePartOnly ==
  /\ phase = "free" /\ parts # << >>
  /\ freed' = freed \o <<Head(parts).node>>
  /\ parts' = Tail(parts)
  /\ UNCHANGED <<filename, root, phase, tmp_path, drive, allocated, i, found>>

FreePart ==
  /\ phase = "free" /\ parts # << >>
  /\ freed' = freed \o <<Head(parts).string, Head(parts).node>>
  /\ parts' = Tail(parts)
  /\ UNCHANGED <<filename, root, phase, tmp_path, drive, allocated, i, found>>

FreeRoot ==
  /\ phase = "free" /\ parts = << >>
  /\ freed' = Append(freed, 1)
  /\ phase' = "failed"
  /\ UNCHANGED <<filename, root, tmp_path, drive, parts, allocated, i, found>>

Next ==
  \/ ParseRefuses \/ pathparser_create_root \/ pathparser_parse_path_part \/ ParseEnds
  \/ SearchEntry \/ SearchEnds \/ FreePart \/ FreeRoot

Spec == Init /\ [][Next]_vars

-----------------------------------------------------------------------------
(* Types; in particular a part and its terminating zero fit the buffer     *)
(* pathparser_get_path_part allocates.                                     *)
TypeOK ==
  /\ phase \in {"parse", "parts", "null", "search", "open", "free", "failed"}
  /\ tmp_path \in 1 .. Len(filename) + 1 /\ drive \in 0 .. 9
  /\ \A k \in 1 .. Len(parts) : Len(parts[k].part) \in 1 .. MAX_PATH_LENGTH - 1
  /\ found \in 0 .. Len(root) /\ i \in 1 .. Len(root) + 1

(* The components of what follows the drive, empty ones included: each is  *)
(* what lies between a slash and the next, the ends counting as slashes.   *)
Rest == From(filename, 4)
Slashes == {0, Len(Rest) + 1} \cup {k \in 1 .. Len(Rest) : Rest[k] = SLASH}
Rank(s) == Cardinality({r \in Slashes : r < s})
Cut(k) == CHOOSE s \in Slashes : Rank(s) = k
Components ==
  [k \in 1 .. Cardinality(Slashes) - 1 |-> SubSeq(Rest, Cut(k - 1) + 1, Cut(k) - 1)]

(* How many components there are before the first empty one.               *)
Leading == CHOOSE n \in 0 .. Len(Components) :
  /\ \A k \in 1 .. n : Components[k] # << >>
  /\ n = Len(Components) \/ Components[n + 1] = << >>

(* A parsed path is the list of the components between the slashes, in     *)
(* order, up to the first empty one: pathparser_parse drops what follows a *)
(* double slash, and does not mind a slash at the end.                     *)
ParsedAsSplit ==
  phase \in {"search", "open"} =>
    /\ filename[1] = drive + 48
    /\ [k \in 1 .. Len(parts) |-> parts[k].part] = SubSeq(Components, 1, Leading)

(* A failed fopen has returned every block of the path, each exactly once. *)
AllFreed ==
  phase = "failed" => IsInjective(freed) /\ Range(freed) = 1 .. allocated

(* A field as a file's entry has it: filled up with blanks, without a dot. *)
IsField(bytes) ==
  \E n \in 0 .. Len(bytes) : \A k \in 1 .. Len(bytes) :
    IF k <= n THEN bytes[k] \notin {0, DOT, BLANK} ELSE bytes[k] = BLANK
Plain(entry) == IsField(entry.filename) /\ IsField(entry.ext)

(* The name of an entry as the file system means it.                       *)
Size(bytes) == Cardinality({k \in 1 .. Len(bytes) : bytes[k] # BLANK})
Field(bytes) == SubSeq(bytes, 1, Size(bytes))
ShortName(entry) ==
  Field(entry.filename) \o (IF Size(entry.ext) = 0 THEN << >> ELSE <<DOT>> \o Field(entry.ext))

(* The fields that fat16_to_proper_string reads past their end: a name of  *)
(* full length before an extension, and an extension of full length before *)
(* an attribute other than none or "archived".                             *)
Terminated(entry) ==
  /\ Size(entry.filename) = NAME_BYTES => Size(entry.ext) = 0
  /\ Size(entry.ext) = EXT_BYTES => entry.attribute \in {0, ARCHIEVED}

(* A short name: at most one dot, within the sizes of the two fields.      *)
IsShortName(s) ==
  \E n \in 0 .. Len(s) :
    /\ n \in 1 .. NAME_BYTES /\ \A k \in 1 .. n : s[k] # DOT
    /\ n = Len(s) \/ (s[n + 1] = DOT /\ Len(s) - n - 1 \in 1 .. EXT_BYTES)

(* The search of fat16.c opens an entry for a short name exactly when one  *)
(* of that name, the case of letters aside, is among the entries it counts *)
(* and neither field runs on; it opens that one, and it never opens        *)
(* anything below the root directory.  Labels and the pieces of long names *)
(* are entries as well, and may be taken for a file.                       *)
LookupIsExact ==
  LET Wanted == {k \in 1 .. Total(root) :
        /\ Plain(root[k]) /\ Terminated(root[k])
        /\ SameIgnoringCase(ShortName(root[k]), Components[1])}
  IN  /\ phase = "open" =>
           /\ Leading = 1
           /\ Plain(root[found]) /\ IsShortName(Components[1]) => found \in Wanted
      /\ phase = "failed" /\ drive = 0 /\ Leading = 1 => Wanted = {}
=============================================================================
