--------------------------- MODULE KeyboardProofs ---------------------------
(***************************************************************************)
(* The ring buffer of keyboard.c is a FIFO queue as long as the program    *)
(* lags at most a full buffer behind, for every buffer size and every      *)
(* counter width the size divides: the counters may wrap any number of     *)
(* times.  The inductive invariant is FilledFromHead, which ties the       *)
(* contents of the slots, by which keyboard_pop decides, to the counters.  *)
(***************************************************************************)
EXTENDS KeyboardBuffer, SequenceTheorems, TLAPS

(* The user never types more keys ahead than the buffer holds.             *)
FitsBuffer == MaxUnread <= BUFFER_SIZE

-----------------------------------------------------------------------------
(* Quotient and remainder.                                                 *)
LEMMA ModDef ==
  ASSUME NEW N \in Nat \ {0}, NEW x \in Int
  PROVE  /\ x % N \in 0 .. N - 1
         /\ x \div N \in Int
         /\ x = N * (x \div N) + (x % N)
OBVIOUS

(* The remainder is unique.                                                *)
LEMMA ModUnique ==
  ASSUME NEW N \in Nat \ {0}, NEW x \in Int, NEW q \in Int, NEW r \in 0 .. N - 1,
         x = N * q + r
  PROVE  x % N = r
<1> DEFINE s == x % N
<1>1. PICK p \in Int : x = N * p + s
  BY ModDef
<1>2. s \in 0 .. N - 1
  BY ModDef
<1> HIDE DEF s
<1>3. N * (p - q) = r - s
  BY <1>1, <1>2
<1>4. CASE p - q >= 1
  <2>1. N * (p - q) >= N
    BY <1>4
  <2>2. QED
    BY <1>2, <1>3, <2>1
<1>5. CASE p - q <= -1
  <2>1. N * (p - q) <= -N
    BY <1>5
  <2>2. QED
    BY <1>2, <1>3, <2>1
<1>6. CASE p = q
  BY <1>2, <1>3, <1>6 DEF s
<1>7. QED
  BY <1>4, <1>5, <1>6

(* Adding a multiple of the modulus changes no remainder.                  *)
LEMMA ModShift ==
  ASSUME NEW N \in Nat \ {0}, NEW x \in Int, NEW m \in Int
  PROVE  (x + (N * m)) % N = x % N
<1> DEFINE s == x % N
           y == x + (N * m)
<1>1. PICK p \in Int : x = N * p + s
  BY ModDef
<1>2. s \in 0 .. N - 1
  BY ModDef
<1>3. y \in Int /\ p + m \in Int /\ y = N * (p + m) + s
  BY <1>1, <1>2
<1> HIDE DEF y, s
<1>4. y % N = s
  BY <1>2, <1>3, ModUnique
<1>5. QED
  BY <1>4 DEF y, s

(* Numbers less than a modulus apart have different remainders.            *)
LEMMA ModDistinct ==
  ASSUME NEW N \in Nat \ {0}, NEW a \in Int, NEW b \in Int, a < b, b - a < N
  PROVE  a % N # b % N
<1> SUFFICES ASSUME a % N = b % N
             PROVE  FALSE
  OBVIOUS
<1>1. PICK p \in Int : a = N * p + (a % N)
  BY ModDef
<1>2. PICK q \in Int : b = N * q + (b % N)
  BY ModDef
<1>3. a % N \in 0 .. N - 1 /\ b % N \in 0 .. N - 1
  BY ModDef
<1>4. b - a = N * (q - p)
  BY <1>1, <1>2, <1>3
<1>5. CASE q - p >= 1
  <2>1. N * (q - p) >= N
    BY <1>5
  <2>2. QED
    BY <1>4, <2>1
<1>6. CASE q - p <= 0
  <2>1. N * (q - p) <= 0
    BY <1>6
  <2>2. QED
    BY <1>4, <2>1
<1>7. QED
  BY <1>5, <1>6

-----------------------------------------------------------------------------
(* A counter that wraps at INT_MOD and one that does not name the same     *)
(* slot.                                                                   *)
LEMMA WrapKeepsSlot ==
  ASSUME NEW x \in Int
  PROVE  /\ (x - INT_MOD) % BUFFER_SIZE = x % BUFFER_SIZE
         /\ (x + INT_MOD) % BUFFER_SIZE = x % BUFFER_SIZE
<1>1. BUFFER_SIZE \in Nat \ {0} /\ INT_MOD \in Nat /\ INT_MOD % BUFFER_SIZE = 0
  BY KeyboardAssumption
<1> DEFINE m == INT_MOD \div BUFFER_SIZE
<1>2. m \in Int /\ INT_MOD = BUFFER_SIZE * m
  <2>1. m \in Int /\ INT_MOD = BUFFER_SIZE * m + (INT_MOD % BUFFER_SIZE)
    BY <1>1, ModDef
  <2>2. QED
    BY <1>1, <2>1
<1> HIDE DEF m
<1>3. -m \in Int /\ x - INT_MOD = x + (BUFFER_SIZE * (-m)) /\ x + INT_MOD = x + (BUFFER_SIZE * m)
  BY <1>1, <1>2
<1>4. /\ (x + (BUFFER_SIZE * (-m))) % BUFFER_SIZE = x % BUFFER_SIZE
      /\ (x + (BUFFER_SIZE * m)) % BUFFER_SIZE = x % BUFFER_SIZE
  <2> DEFINE k == -m
  <2>1. k \in Int
    BY <1>3
  <2> HIDE DEF k
  <2>2. (x + (BUFFER_SIZE * k)) % BUFFER_SIZE = x % BUFFER_SIZE
    BY <1>1, <2>1, ModShift
  <2>3. (x + (BUFFER_SIZE * m)) % BUFFER_SIZE = x % BUFFER_SIZE
    BY <1>1, <1>2, ModShift
  <2>4. QED
    BY <2>2, <2>3 DEF k
<1>5. QED
  BY <1>3, <1>4

(* Counters a full turn apart at most.                                     *)
LEMMA WrapValue ==
  ASSUME NEW x \in Int
  PROVE  /\ 0 <= x /\ x < INT_MOD => x % INT_MOD = x
         /\ -INT_MOD <= x /\ x < 0 => x % INT_MOD = x + INT_MOD
         /\ INT_MOD <= x /\ x < 2 * INT_MOD => x % INT_MOD = x - INT_MOD
<1> DEFINE W == INT_MOD
<1>1. W \in Nat \ {0}
  BY KeyboardAssumption
<1> HIDE DEF W
<1>2. ASSUME 0 <= x, x < W
      PROVE  x % W = x
  <2>1. x \in 0 .. W - 1 /\ x = W * 0 + x
    BY <1>1, <1>2
  <2>2. QED
    BY <1>1, <2>1, ModUnique
<1>3. ASSUME -W <= x, x < 0
      PROVE  x % W = x + W
  <2>1. x + W \in 0 .. W - 1 /\ x = W * (-1) + (x + W)
    BY <1>1, <1>3
  <2>2. QED
    BY <1>1, <2>1, ModUnique
<1>4. ASSUME W <= x, x < 2 * W
      PROVE  x % W = x - W
  <2>1. x - W \in 0 .. W - 1 /\ x = W * 1 + (x - W)
    BY <1>1, <1>4
  <2>2. QED
    BY <1>1, <2>1, ModUnique
<1>5. QED
  BY <1>2, <1>3, <1>4 DEF W

(* The slot k places after the head.                                       *)
At(k) == (head + k) % BUFFER_SIZE

(* The inductive invariant.                                                *)
KInv == TypeOK /\ FilledFromHead

(* The sizes as numbers.                                                   *)
LEMMA Sizes ==
  ASSUME FitsBuffer
  PROVE  /\ BUFFER_SIZE \in Nat \ {0} /\ INT_MOD \in Nat /\ BUFFER_SIZE < INT_MOD
         /\ MaxUnread \in Nat /\ MaxUnread <= BUFFER_SIZE
         /\ \A k \in Nat : k \in Slots <=> k < BUFFER_SIZE
         /\ Slots \subseteq Nat
BY KeyboardAssumption DEF FitsBuffer, Slots

(* The number of unread keys and the place of the tail.                    *)
LEMMA TailPlace ==
  ASSUME FitsBuffer, KInv
  PROVE  /\ head \in Nat /\ tail \in Nat /\ head < INT_MOD /\ tail < INT_MOD
         /\ Unread \in Nat /\ Unread <= BUFFER_SIZE /\ Unread <= MaxUnread
         /\ tail = head + Unread \/ tail = head + Unread - INT_MOD
         /\ tail % BUFFER_SIZE = At(Unread)
<1>1. head \in Nat /\ tail \in Nat /\ head < INT_MOD /\ tail < INT_MOD
  BY KeyboardAssumption DEF KInv, TypeOK
<1>2. Unread = IF tail >= head THEN tail - head ELSE tail - head + INT_MOD
  BY <1>1, Sizes, WrapValue DEF Unread
<1>3. Unread \in Nat /\ (tail = head + Unread \/ tail = head + Unread - INT_MOD)
  BY <1>1, <1>2, Sizes
<1>4. Unread <= MaxUnread /\ Unread <= BUFFER_SIZE
  BY <1>3, Sizes DEF KInv, FilledFromHead
<1>5. tail % BUFFER_SIZE = At(Unread)
  <2> DEFINE e == head + Unread
  <2>1. e \in Int /\ (tail = e \/ tail = e - INT_MOD)
    BY <1>1, <1>3, Sizes
  <2> HIDE DEF e
  <2>2. (e - INT_MOD) % BUFFER_SIZE = e % BUFFER_SIZE
    BY <2>1, WrapKeepsSlot
  <2>3. tail % BUFFER_SIZE = e % BUFFER_SIZE
    BY <2>1, <2>2
  <2>4. QED
    BY <2>3 DEF At, e
<1>6. QED
  BY <1>1, <1>3, <1>4, <1>5

(* Different places within one turn are different slots.                   *)
LEMMA PlacesDiffer ==
  ASSUME FitsBuffer, KInv, NEW j \in Int, NEW k \in Int, j # k,
         j - k < BUFFER_SIZE, k - j < BUFFER_SIZE
  PROVE  At(j) # At(k)
<1> DEFINE x == head + j
           y == head + k
<1>1. head \in Int /\ BUFFER_SIZE \in Nat \ {0}
  BY TailPlace, Sizes
<1>2. /\ x \in Int /\ y \in Int
      /\ (x < y /\ y - x < BUFFER_SIZE) \/ (y < x /\ x - y < BUFFER_SIZE)
  BY <1>1
<1> HIDE DEF x, y
<1>3. x % BUFFER_SIZE # y % BUFFER_SIZE
  <2>1. CASE x < y /\ y - x < BUFFER_SIZE
    BY <1>1, <1>2, <2>1, ModDistinct
  <2>2. CASE y < x /\ x - y < BUFFER_SIZE
    BY <1>1, <1>2, <2>2, ModDistinct
  <2>3. QED
    BY <1>2, <2>1, <2>2
<1>4. QED
  BY <1>3 DEF At, x, y

(* Every place is a slot.                                                  *)
LEMMA PlaceIsSlot ==
  ASSUME FitsBuffer, KInv, NEW k \in Int
  PROVE  At(k) \in Slots
<1> DEFINE x == head + k
<1>1. x \in Int /\ BUFFER_SIZE \in Nat \ {0}
  BY TailPlace, Sizes
<1> HIDE DEF x
<1>2. x % BUFFER_SIZE \in 0 .. BUFFER_SIZE - 1
  BY <1>1, ModDef
<1>3. QED
  BY <1>2 DEF At, Slots, x

-----------------------------------------------------------------------------
(* The number of steps from one counter to another.                        *)
LEMMA Gap ==
  ASSUME NEW h \in Nat, NEW t \in Nat, NEW u \in Nat,
         h < INT_MOD, t < INT_MOD, u < INT_MOD,
         t = h + u \/ t = h + u - INT_MOD
  PROVE  (t - h) % INT_MOD = u
<1>1. INT_MOD \in Nat
  BY KeyboardAssumption
<1> DEFINE x == t - h
<1>2. /\ x \in Int
      /\ \/ 0 <= x /\ x < INT_MOD /\ x = u
         \/ -INT_MOD <= x /\ x < 0 /\ x + INT_MOD = u
  BY <1>1
<1> HIDE DEF x
<1>3. x % INT_MOD = u
  BY <1>2, WrapValue
<1>4. QED
  BY <1>3 DEF x

(* A counter that is incremented, and one that is decremented.             *)
LEMMA Increment ==
  ASSUME NEW c \in Nat, c < INT_MOD
  PROVE  LET d == (c + 1) % INT_MOD
         IN  d \in Nat /\ d < INT_MOD /\ (d = c + 1 \/ d = c + 1 - INT_MOD)
<1>1. INT_MOD \in Nat \ {0}
  BY KeyboardAssumption
<1> DEFINE x == c + 1
<1>2. x \in Int /\ 0 <= x /\ x <= INT_MOD /\ INT_MOD < 2 * INT_MOD
  BY <1>1
<1> HIDE DEF x
<1>3. \/ x % INT_MOD = x /\ x < INT_MOD
      \/ x % INT_MOD = x - INT_MOD /\ x = INT_MOD
  BY <1>1, <1>2, WrapValue
<1> DEFINE d == x % INT_MOD
<1>4. d \in Nat /\ d < INT_MOD /\ (d = x \/ d = x - INT_MOD)
  BY <1>1, <1>2, <1>3
<1> HIDE DEF d
<1>5. d \in Nat /\ d < INT_MOD /\ (d = c + 1 \/ d = c + 1 - INT_MOD)
  BY <1>1, <1>4 DEF x
<1>6. QED
  BY <1>5 DEF d, x

(* Decrementing wraps from 0 to the largest value.                         *)
LEMMA Decrement ==
  ASSUME NEW c \in Nat, c < INT_MOD
  PROVE  LET d == (c - 1) % INT_MOD
         IN  d \in Nat /\ d < INT_MOD /\ (d = c - 1 \/ d = c - 1 + INT_MOD)
<1>1. INT_MOD \in Nat \ {0}
  BY KeyboardAssumption
<1> DEFINE x == c - 1
<1>2. x \in Int /\ x < INT_MOD /\ -1 <= x /\ -INT_MOD <= x
  BY <1>1
<1> HIDE DEF x
<1>3. \/ x % INT_MOD = x /\ 0 <= x
      \/ x % INT_MOD = x + INT_MOD /\ x = -1
  BY <1>1, <1>2, WrapValue
<1> DEFINE d == x % INT_MOD
<1>4. d \in Nat /\ d < INT_MOD /\ (d = x \/ d = x + INT_MOD)
  BY <1>1, <1>2, <1>3
<1> HIDE DEF d
<1>5. d \in Nat /\ d < INT_MOD /\ (d = c - 1 \/ d = c - 1 + INT_MOD)
  BY <1>1, <1>4 DEF x
<1>6. QED
  BY <1>5 DEF d, x

(* keyboard_push fills the place after the last unread key.                *)
LEMMA PushEffect ==
  ASSUME FitsBuffer, KInv, NEW c, keyboard_push(c), Unread < MaxUnread, UNCHANGED head
  PROVE  /\ buffer' = [buffer EXCEPT ![At(Unread)] = c]
         /\ tail' \in 0 .. INT_MOD - 1
         /\ Unread' = Unread + 1
<1>1. /\ head \in Nat /\ tail \in Nat /\ head < INT_MOD /\ tail < INT_MOD
      /\ Unread \in Nat /\ tail % BUFFER_SIZE = At(Unread)
      /\ (tail = head + Unread \/ tail = head + Unread - INT_MOD)
  BY TailPlace
<1>2. /\ tail' \in Nat /\ tail' < INT_MOD
      /\ (tail' = tail + 1 \/ tail' = tail + 1 - INT_MOD)
  BY <1>1, Increment DEF keyboard_push
<1>3. Unread + 1 \in Nat /\ Unread + 1 < INT_MOD
  BY <1>1, Sizes
<1>4. tail' = head + (Unread + 1) \/ tail' = head + (Unread + 1) - INT_MOD
  BY <1>1, <1>2, <1>3, Sizes
<1>5. (tail' - head) % INT_MOD = Unread + 1
  BY <1>1, <1>2, <1>3, <1>4, Gap
<1>6. Unread' = Unread + 1
  BY <1>5 DEF Unread
<1>7. buffer' = [buffer EXCEPT ![At(Unread)] = c]
  BY <1>1 DEF keyboard_push, keyboard_get_tail_index
<1>8. tail' \in 0 .. INT_MOD - 1
  BY <1>2, Sizes
<1>9. QED
  BY <1>6, <1>7, <1>8

(* keyboard_pop moves every place one on and leaves one key fewer.         *)
LEMMA PopEffect ==
  ASSUME FitsBuffer, KInv, keyboard_pop
  PROVE  /\ popped' = buffer[At(0)]
         /\ buffer' = [buffer EXCEPT ![At(0)] = 0]
         /\ head' \in 0 .. INT_MOD - 1
         /\ Unread > 0 /\ Unread' = Unread - 1
         /\ \A k \in Int : (head' + k) % BUFFER_SIZE = At(k + 1)
<1>1. /\ head \in Nat /\ tail \in Nat /\ head < INT_MOD /\ tail < INT_MOD
      /\ Unread \in Nat /\ Unread <= BUFFER_SIZE
      /\ (tail = head + Unread \/ tail = head + Unread - INT_MOD)
  BY TailPlace
<1>2. At(0) = head % BUFFER_SIZE
  BY <1>1 DEF At
<1>3. Unread > 0
  <2>1. buffer[At(0)] # 0 /\ 0 \in Slots
    BY <1>2, Sizes DEF keyboard_pop
  <2>2. QED
    BY <2>1 DEF KInv, FilledFromHead, At
<1>4. /\ head' \in Nat /\ head' < INT_MOD
      /\ (head' = head + 1 \/ head' = head + 1 - INT_MOD)
  BY <1>1, Increment DEF keyboard_pop
<1>5. Unread' = Unread - 1
  <2>1. Unread - 1 \in Nat /\ Unread - 1 < INT_MOD
    BY <1>1, <1>3, Sizes
  <2>2. tail = head' + (Unread - 1) \/ tail = head' + (Unread - 1) - INT_MOD
    <3>1. INT_MOD \in Nat
      BY Sizes
    <3>2. CASE head' = head + 1
      BY <1>1, <1>3, <3>1, <3>2
    <3>3. CASE head' = head + 1 - INT_MOD
      BY <1>1, <1>3, <1>4, <3>1, <3>3
    <3>4. QED
      BY <1>4, <3>2, <3>3
  <2>3. (tail - head') % INT_MOD = Unread - 1
    BY <1>1, <1>4, <2>1, <2>2, Gap
  <2>4. QED
    BY <2>3 DEF Unread, keyboard_pop
<1>6. ASSUME NEW k \in Int
      PROVE  (head' + k) % BUFFER_SIZE = At(k + 1)
  <2> DEFINE x == head + (k + 1)
  <2>1. x \in Int /\ (head' + k = x \/ head' + k = x - INT_MOD)
    <3>1. INT_MOD \in Nat
      BY Sizes
    <3>2. CASE head' = head + 1
      BY <1>1, <3>1, <3>2
    <3>3. CASE head' = head + 1 - INT_MOD
      BY <1>1, <3>1, <3>3
    <3>4. QED
      BY <1>4, <3>2, <3>3
  <2> HIDE DEF x
  <2>2. (x - INT_MOD) % BUFFER_SIZE = x % BUFFER_SIZE
    BY <2>1, WrapKeepsSlot
  <2>3. (head' + k) % BUFFER_SIZE = x % BUFFER_SIZE
    BY <2>1, <2>2
  <2>4. QED
    BY <2>3 DEF At, x
<1>7. popped' = buffer[At(0)] /\ buffer' = [buffer EXCEPT ![At(0)] = 0]
  BY <1>2 DEF keyboard_pop
<1>8. head' \in 0 .. INT_MOD - 1
  BY <1>4, Sizes
<1>9. QED
  BY <1>3, <1>5, <1>6, <1>7, <1>8

(* keyboard_backspace empties the place of the last unread key.            *)
LEMMA EraseEffect ==
  ASSUME FitsBuffer, KInv, keyboard_backspace
  PROVE  /\ buffer' = [buffer EXCEPT ![At(Unread - 1)] = 0]
         /\ tail' \in 0 .. INT_MOD - 1
         /\ Unread > 0 /\ Unread' = Unread - 1
<1>1. /\ head \in Nat /\ tail \in Nat /\ head < INT_MOD /\ tail < INT_MOD
      /\ Unread \in Nat /\ Unread <= BUFFER_SIZE
      /\ (tail = head + Unread \/ tail = head + Unread - INT_MOD)
  BY TailPlace
<1>2. Unread > 0
  BY <1>1, KeyboardAssumption DEF keyboard_backspace
<1>3. /\ tail' \in Nat /\ tail' < INT_MOD
      /\ (tail' = tail - 1 \/ tail' = tail - 1 + INT_MOD)
  BY <1>1, Decrement DEF keyboard_backspace
<1>4. Unread - 1 \in Nat /\ Unread - 1 < INT_MOD
  BY <1>1, <1>2, Sizes
<1>5. tail' = head + (Unread - 1) \/ tail' = head + (Unread - 1) - INT_MOD
  BY <1>1, <1>3, <1>4, Sizes
<1>6. (tail' - head) % INT_MOD = Unread - 1
  BY <1>1, <1>3, <1>4, <1>5, Gap
<1>7. Unread' = Unread - 1
  BY <1>6 DEF Unread, keyboard_backspace
<1>8. tail' % BUFFER_SIZE = At(Unread - 1)
  <2> DEFINE e == head + (Unread - 1)
  <2>1. e \in Int /\ (tail' = e \/ tail' = e - INT_MOD)
    BY <1>1, <1>5, Sizes
  <2> HIDE DEF e
  <2>2. (e - INT_MOD) % BUFFER_SIZE = e % BUFFER_SIZE
    BY <2>1, WrapKeepsSlot
  <2>3. tail' % BUFFER_SIZE = e % BUFFER_SIZE
    BY <2>1, <2>2
  <2>4. QED
    BY <2>3 DEF At, e
<1>9. buffer' = [buffer EXCEPT ![At(Unread - 1)] = 0]
  BY <1>8 DEF keyboard_backspace, keyboard_get_tail_index
<1>10. tail' \in 0 .. INT_MOD - 1
  BY <1>3, Sizes
<1>11. QED
  BY <1>2, <1>7, <1>9, <1>10

-----------------------------------------------------------------------------
(* The invariant in terms of places.                                       *)
LEMMA Filled ==
  ASSUME KInv, NEW k \in Slots
  PROVE  buffer[At(k)] # 0 <=> k < Unread
BY DEF KInv, FilledFromHead, At

(* The port after the handler.                                             *)
LEMMA PortAfter ==
  ASSUME TypeOK
  PROVE  AfterHandler \in Seq(Scancodes) /\ Len(AfterHandler) <= PORT_BOUND
<1>1. port \in Seq(Scancodes) /\ Len(port) \in Nat /\ Len(port) <= PORT_BOUND
  BY DEF TypeOK
<1>2. PORT_BOUND \in Nat
  BY KeyboardAssumption
<1>3. AfterHandler \in Seq(Scancodes)
  BY <1>1 DEF AfterHandler
<1>4. Len(AfterHandler) <= Len(port)
  BY <1>1 DEF AfterHandler
<1>5. QED
  BY <1>1, <1>2, <1>3, <1>4

(* A pushed key keeps the invariant.                                       *)
LEMMA PushInv ==
  ASSUME FitsBuffer, KInv, NEW c \in Keys, InterruptPushes(c)
  PROVE  KInv'
<1>1. /\ buffer' = [buffer EXCEPT ![At(Unread)] = c]
      /\ tail' \in 0 .. INT_MOD - 1 /\ Unread' = Unread + 1
  BY PushEffect DEF InterruptPushes
<1>2. /\ Unread \in Nat /\ Unread < MaxUnread /\ MaxUnread \in Nat
      /\ MaxUnread <= BUFFER_SIZE /\ Unread \in Slots /\ BUFFER_SIZE \in Nat
  BY TailPlace, Sizes DEF InterruptPushes
<1>3. buffer \in [Slots -> Keys \cup {0}] /\ c # 0 /\ head' = head
  BY DEF KInv, TypeOK, InterruptPushes
<1>4. TypeOK'
  <2>1. buffer' \in [Slots -> Keys \cup {0}]
    BY <1>1, <1>3
  <2>2. port' \in Seq(Scancodes) /\ Len(port') <= PORT_BOUND
    BY PortAfter DEF InterruptPushes, KInv
  <2>3. QED
    BY <1>1, <2>1, <2>2 DEF InterruptPushes, KInv, TypeOK
<1>5. ASSUME NEW k \in Slots
      PROVE  buffer'[(head' + k) % BUFFER_SIZE] # 0 <=> k < Unread'
  <2>1. /\ k \in Nat /\ k < BUFFER_SIZE /\ At(k) \in Slots /\ At(Unread) \in Slots
        /\ (head' + k) % BUFFER_SIZE = At(k)
    <3>1. k \in Nat /\ k < BUFFER_SIZE
      BY Sizes
    <3>2. QED
      BY <1>2, <1>3, <3>1, PlaceIsSlot DEF At
  <2>2. CASE k = Unread
    BY <1>1, <1>2, <1>3, <2>1, <2>2
  <2>3. CASE k # Unread
    <3>1. At(k) # At(Unread)
      BY <1>2, <2>1, <2>3, PlacesDiffer
    <3>2. buffer'[At(k)] = buffer[At(k)]
      BY <1>1, <1>3, <2>1, <3>1
    <3>3. k < Unread <=> k < Unread + 1
      BY <1>2, <2>1, <2>3
    <3>4. QED
      BY <1>1, <2>1, <3>2, <3>3, Filled
  <2>4. QED
    BY <2>2, <2>3
<1>6. FilledFromHead'
  BY <1>1, <1>2, <1>5 DEF FilledFromHead
<1>7. QED
  BY <1>4, <1>6 DEF KInv

(* Reading a key keeps the invariant.                                      *)
LEMMA PopInv ==
  ASSUME FitsBuffer, KInv, keyboard_pop
  PROVE  KInv'
<1>1. /\ popped' = buffer[At(0)] /\ buffer' = [buffer EXCEPT ![At(0)] = 0]
      /\ head' \in 0 .. INT_MOD - 1 /\ Unread > 0 /\ Unread' = Unread - 1
      /\ \A k \in Int : (head' + k) % BUFFER_SIZE = At(k + 1)
  BY PopEffect
<1>2. /\ Unread \in Nat /\ Unread <= MaxUnread /\ MaxUnread \in Nat
      /\ Unread <= BUFFER_SIZE /\ BUFFER_SIZE \in Nat \ {0}
  BY TailPlace, Sizes
<1>3. buffer \in [Slots -> Keys \cup {0}] /\ At(0) \in Slots
  BY PlaceIsSlot DEF KInv, TypeOK
<1>4. TypeOK'
  <2>1. buffer' \in [Slots -> Keys \cup {0}] /\ popped' \in Keys \cup {0}
    BY <1>1, <1>3
  <2>2. QED
    BY <1>1, <2>1 DEF keyboard_pop, KInv, TypeOK
<1>5. ASSUME NEW k \in Slots
      PROVE  buffer'[(head' + k) % BUFFER_SIZE] # 0 <=> k < Unread'
  <2>1. k \in Nat /\ k < BUFFER_SIZE
    BY Sizes
  <2>2. (head' + k) % BUFFER_SIZE = At(k + 1) /\ At(k + 1) \in Slots
    BY <1>1, <2>1, PlaceIsSlot
  <2>3. CASE k + 1 < BUFFER_SIZE
    <3>1. At(k + 1) # At(0)
      <4>1. k + 1 \in Int /\ k + 1 # 0 /\ (k + 1) - 0 < BUFFER_SIZE /\ 0 - (k + 1) < BUFFER_SIZE
        BY <1>2, <2>1, <2>3
      <4>2. QED
        BY <4>1, PlacesDiffer
    <3>2. buffer'[At(k + 1)] = buffer[At(k + 1)]
      BY <1>1, <1>3, <2>2, <3>1
    <3>3. k + 1 \in Slots
      BY <2>1, <2>3, Sizes
    <3>4. buffer[At(k + 1)] # 0 <=> k + 1 < Unread
      BY <3>3, Filled
    <3>5. k + 1 < Unread <=> k < Unread - 1
      BY <1>2, <2>1
    <3>6. QED
      BY <1>1, <2>2, <3>2, <3>4, <3>5
  <2>4. CASE k + 1 = BUFFER_SIZE
    <3>1. At(BUFFER_SIZE) = At(0)
      <4>1. head \in Int /\ BUFFER_SIZE \in Nat \ {0} /\ 1 \in Int
        BY TailPlace, Sizes
      <4>2. (head + (BUFFER_SIZE * 1)) % BUFFER_SIZE = head % BUFFER_SIZE
        BY <4>1, ModShift
      <4>3. head + BUFFER_SIZE = head + (BUFFER_SIZE * 1) /\ head + 0 = head
        BY <4>1
      <4>4. QED
        BY <4>2, <4>3 DEF At
    <3>2. buffer'[At(k + 1)] = 0
      BY <1>1, <1>3, <2>4, <3>1
    <3>3. ~ (k < Unread - 1)
      BY <1>2, <2>1, <2>4
    <3>4. QED
      BY <1>1, <2>2, <3>2, <3>3
  <2>5. QED
    BY <1>2, <2>1, <2>3, <2>4
<1>6. Unread' <= MaxUnread
  BY <1>1, <1>2
<1>7. FilledFromHead'
  BY <1>5, <1>6 DEF FilledFromHead
<1>8. QED
  BY <1>4, <1>7 DEF KInv

(* Taking a key back keeps the invariant.                                  *)
LEMMA EraseInv ==
  ASSUME FitsBuffer, KInv, keyboard_backspace
  PROVE  KInv'
<1>1. /\ buffer' = [buffer EXCEPT ![At(Unread - 1)] = 0]
      /\ tail' \in 0 .. INT_MOD - 1 /\ Unread > 0 /\ Unread' = Unread - 1
  BY EraseEffect
<1>2. /\ Unread \in Nat /\ Unread <= MaxUnread /\ MaxUnread \in Nat
      /\ Unread <= BUFFER_SIZE /\ BUFFER_SIZE \in Nat \ {0} /\ Unread - 1 \in Int
  BY TailPlace, Sizes
<1>3. buffer \in [Slots -> Keys \cup {0}] /\ At(Unread - 1) \in Slots /\ head' = head
  BY <1>2, PlaceIsSlot DEF KInv, TypeOK, keyboard_backspace
<1>4. TypeOK'
  <2>1. buffer' \in [Slots -> Keys \cup {0}]
    BY <1>1, <1>3
  <2>2. QED
    BY <1>1, <2>1 DEF keyboard_backspace, KInv, TypeOK
<1>5. ASSUME NEW k \in Slots
      PROVE  buffer'[(head' + k) % BUFFER_SIZE] # 0 <=> k < Unread'
  <2>1. k \in Nat /\ k < BUFFER_SIZE
    BY Sizes
  <2>2. (head' + k) % BUFFER_SIZE = At(k) /\ At(k) \in Slots
    BY <1>3, <2>1, PlaceIsSlot DEF At
  <2>3. CASE k = Unread - 1
    <3>1. buffer'[At(k)] = 0
      BY <1>1, <1>3, <2>3
    <3>2. QED
      BY <1>1, <1>2, <2>2, <2>3, <3>1
  <2>4. CASE k # Unread - 1
    <3>1. At(k) # At(Unread - 1)
      <4>1. k - (Unread - 1) < BUFFER_SIZE /\ (Unread - 1) - k < BUFFER_SIZE
        BY <1>1, <1>2, <2>1
      <4>2. QED
        BY <1>2, <2>1, <2>4, <4>1, PlacesDiffer
    <3>2. buffer'[At(k)] = buffer[At(k)]
      BY <1>1, <1>3, <2>2, <3>1
    <3>3. k < Unread <=> k < Unread - 1
      BY <1>2, <2>1, <2>4
    <3>4. QED
      BY <1>1, <2>2, <3>2, <3>3, Filled
  <2>5. QED
    BY <2>3, <2>4
<1>6. Unread' <= MaxUnread
  BY <1>1, <1>2
<1>7. FilledFromHead'
  BY <1>5, <1>6 DEF FilledFromHead
<1>8. QED
  BY <1>4, <1>7 DEF KInv

(* The zeroed buffer of a new process satisfies the invariant.             *)
LEMMA InitKInv ==
  ASSUME FitsBuffer, Init
  PROVE  KInv
<1>1. /\ BUFFER_SIZE \in Nat \ {0} /\ INT_MOD \in Nat \ {0} /\ PORT_BOUND \in Nat
      /\ MaxUnread \in Nat
  BY KeyboardAssumption
<1>2. Unread = 0
  <2>1. 0 \in Int /\ 0 <= 0 /\ 0 < INT_MOD
    BY <1>1
  <2>2. 0 % INT_MOD = 0
    BY <2>1, WrapValue
  <2>3. QED
    BY <2>2 DEF Init, Unread
<1>3. ASSUME NEW k \in Slots
      PROVE  (head + k) % BUFFER_SIZE \in Slots /\ ~ (k < 0)
  <2>1. k \in Int /\ head + k = k /\ ~ (k < 0)
    BY Sizes DEF Init
  <2>2. k % BUFFER_SIZE \in 0 .. BUFFER_SIZE - 1
    BY <1>1, <2>1, ModDef
  <2>3. QED
    BY <2>1, <2>2 DEF Slots
<1>4. FilledFromHead
  <2>1. \A k \in Slots : buffer[(head + k) % BUFFER_SIZE] = 0
    BY <1>3 DEF Init
  <2>2. QED
    BY <1>1, <1>2, <1>3, <2>1 DEF FilledFromHead
<1>5. TypeOK
  BY <1>1 DEF Init, TypeOK
<1>6. QED
  BY <1>4, <1>5 DEF KInv

(* Steps that leave the buffer and its counters alone keep the invariant.  *)
LEMMA OtherInv ==
  ASSUME KInv, UNCHANGED <<buffer, head, tail>>,
         port' \in Seq(Scancodes), Len(port') <= PORT_BOUND, popped' \in Keys \cup {0}
  PROVE  KInv'
BY DEF KInv, TypeOK, FilledFromHead, Unread

(* Every step keeps the invariant.                                         *)
LEMMA NextKInv ==
  ASSUME FitsBuffer, KInv, [Next]_vars
  PROVE  KInv'
<1>1. port \in Seq(Scancodes) /\ Len(port) <= PORT_BOUND /\ popped \in Keys \cup {0}
  BY DEF KInv, TypeOK
<1>2. ASSUME NEW scancode \in Scancodes, KeyStroke(scancode)
      PROVE  KInv'
  <2>1. port' \in Seq(Scancodes) /\ Len(port') = Len(port) + 1 /\ Len(port) \in Nat
    BY <1>1, <1>2 DEF KeyStroke
  <2>2. Len(port') <= PORT_BOUND
    BY <1>2, <2>1, KeyboardAssumption DEF KeyStroke
  <2>3. QED
    BY <1>1, <1>2, <2>1, <2>2, OtherInv DEF KeyStroke
<1>3. CASE InterruptIgnored
  BY <1>1, <1>3, PortAfter, OtherInv DEF InterruptIgnored, KInv
<1>4. CASE keyboard_pop_nothing
  BY <1>1, <1>4, OtherInv DEF keyboard_pop_nothing
<1>5. CASE UNCHANGED vars
  BY <1>1, <1>5, OtherInv DEF vars
<1>6. QED
  BY <1>2, <1>3, <1>4, <1>5, PushInv, PopInv, EraseInv DEF Next

(* Every reachable state satisfies the inductive invariant.                *)
LEMMA KInvariance ==
  ASSUME FitsBuffer
  PROVE  Spec => []KInv
<1>1. Init => KInv
  BY InitKInv
<1>2. KInv /\ [Next]_vars => KInv'
  BY NextKInv
<1>3. QED
  BY <1>1, <1>2, PTL DEF Spec

(* keyboard_push, keyboard_pop and keyboard_backspace keep exactly the     *)
(* slots between head and tail filled, however often the counters wrap.    *)
THEOREM RingIsFilledFromHead ==
  ASSUME FitsBuffer
  PROVE  Spec => []FilledFromHead
BY KInvariance, PTL DEF KInv

(* head and tail stay within their width, every slot holds a key or        *)
(* nothing, and keyboard_pop answers a key or 0.                           *)
THEOREM BufferTypes ==
  ASSUME FitsBuffer
  PROVE  Spec => []TypeOK
BY KInvariance, PTL DEF KInv

(* An empty slot under the head means that the buffer is empty: what the   *)
(* early return of keyboard_pop relies on.                                 *)
THEOREM NothingToPopHolds ==
  ASSUME FitsBuffer
  PROVE  Spec => []NothingToPop
<1>1. KInv => NothingToPop
  <2> SUFFICES ASSUME KInv, buffer[head % BUFFER_SIZE] = 0, NEW s \in Slots
               PROVE  buffer[s] = 0
    BY DEF NothingToPop
  <2>1. head \in Nat /\ Unread \in Nat /\ BUFFER_SIZE \in Nat \ {0} /\ s \in Nat
        /\ s < BUFFER_SIZE
    BY TailPlace, Sizes
  <2>2. Unread = 0
    <3>1. At(0) = head % BUFFER_SIZE /\ 0 \in Slots
      BY <2>1, Sizes DEF At
    <3>2. ~ (0 < Unread)
      BY <3>1, Filled
    <3>3. QED
      BY <2>1, <3>2
  <2>3. PICK k \in Slots : At(k) = s
    <3> DEFINE x == s - head
               j == x % BUFFER_SIZE
               q == x \div BUFFER_SIZE
    <3>1. x \in Int
      BY <2>1
    <3>2. j \in 0 .. BUFFER_SIZE - 1 /\ q \in Int /\ x = BUFFER_SIZE * q + j
      <4> HIDE DEF x
      <4> QED
        BY <2>1, <3>1, ModDef
    <3> HIDE DEF j, q
    <3>3. j \in Slots /\ j \in Int
      BY <3>2 DEF Slots
    <3> DEFINE y == head + j
    <3>4. y \in Int /\ -q \in Int /\ y = BUFFER_SIZE * (-q) + s /\ s \in 0 .. BUFFER_SIZE - 1
      BY <2>1, <3>2, <3>3
    <3> HIDE DEF y
    <3>5. y % BUFFER_SIZE = s
      BY <2>1, <3>4, ModUnique
    <3>6. At(j) = s
      BY <3>5 DEF At, y
    <3>7. QED
      BY <3>3, <3>6
  <2>4. k \in Nat
    BY Sizes
  <2>5. QED
    BY <2>2, <2>3, <2>4, Filled
<1>2. QED
  BY <1>1, KInvariance, PTL

-----------------------------------------------------------------------------
(* The unread keys, the oldest first.                                      *)
Contents == [k \in 1 .. Unread |-> buffer[(head + k - 1) % BUFFER_SIZE]]

(* The contents are a sequence, one key for each place before the tail.    *)
LEMMA ContentsSeq ==
  ASSUME FitsBuffer, KInv
  PROVE  /\ Contents \in Seq(Keys \cup {0}) /\ Len(Contents) = Unread
         /\ \A k \in 1 .. Unread : Contents[k] = buffer[At(k - 1)]
<1>1. Unread \in Nat /\ head \in Nat
  BY TailPlace
<1>2. ASSUME NEW k \in 1 .. Unread
      PROVE  /\ head + k - 1 = head + (k - 1)
             /\ At(k - 1) \in Slots
  <2>1. k \in Int /\ k - 1 \in Int /\ head + k - 1 = head + (k - 1)
    BY <1>1
  <2>2. QED
    BY <2>1, PlaceIsSlot
<1>3. \A k \in 1 .. Unread : Contents[k] = buffer[At(k - 1)] /\ At(k - 1) \in Slots
  BY <1>2 DEF Contents, At
<1>4. Contents \in [1 .. Unread -> Keys \cup {0}]
  BY <1>3 DEF Contents, KInv, TypeOK
<1>5. Contents \in Seq(Keys \cup {0}) /\ Len(Contents) = Unread
  BY <1>1, <1>4
<1>6. QED
  BY <1>3, <1>5

(* A sequence given element by element: one more, one fewer at the front   *)
(* and one fewer at the end.                                               *)
LEMMA SeqAppend ==
  ASSUME NEW S, NEW s \in Seq(S), NEW c \in S,
         NEW t, t = [k \in 1 .. Len(s) + 1 |-> IF k = Len(s) + 1 THEN c ELSE s[k]]
  PROVE  t = Append(s, c)
<1>1. /\ Append(s, c) \in Seq(S) /\ Len(Append(s, c)) = Len(s) + 1
      /\ \A k \in 1 .. Len(s) + 1 :
           Append(s, c)[k] = IF k = Len(s) + 1 THEN c ELSE s[k]
  OBVIOUS
<1>2. /\ t \in Seq(S) /\ Len(t) = Len(s) + 1
      /\ \A k \in 1 .. Len(s) + 1 : t[k] = IF k = Len(s) + 1 THEN c ELSE s[k]
  <2>1. Len(s) + 1 \in Nat /\ \A k \in 1 .. Len(s) : s[k] \in S
    OBVIOUS
  <2>2. t \in [1 .. Len(s) + 1 -> S]
    BY <2>1
  <2>3. QED
    BY <2>1, <2>2
<1>3. QED
  BY <1>1, <1>2, SeqEqual

LEMMA SeqTail ==
  ASSUME NEW S, NEW s \in Seq(S), Len(s) > 0,
         NEW t, t = [k \in 1 .. Len(s) - 1 |-> s[k + 1]]
  PROVE  t = Tail(s) /\ s # << >> /\ Head(s) = s[1]
<1>1. s # << >> /\ Head(s) = s[1] /\ Len(s) \in Nat
  OBVIOUS
<1>2. /\ Tail(s) \in Seq(S) /\ Len(Tail(s)) = Len(s) - 1
      /\ \A k \in 1 .. Len(s) - 1 : Tail(s)[k] = s[k + 1]
  BY <1>1
<1>3. /\ t \in Seq(S) /\ Len(t) = Len(s) - 1
      /\ \A k \in 1 .. Len(s) - 1 : t[k] = s[k + 1]
  <2>1. Len(s) - 1 \in Nat /\ \A k \in 1 .. Len(s) - 1 : s[k + 1] \in S
    BY <1>1
  <2>2. t \in [1 .. Len(s) - 1 -> S]
    BY <2>1
  <2>3. QED
    BY <2>1, <2>2
<1>4. QED
  BY <1>1, <1>2, <1>3, SeqEqual

LEMMA SeqFront ==
  ASSUME NEW S, NEW s \in Seq(S), Len(s) > 0,
         NEW t, t = [k \in 1 .. Len(s) - 1 |-> s[k]]
  PROVE  t = SubSeq(s, 1, Len(s) - 1) /\ s # << >>
OBVIOUS

(* A pushed key joins the end of the queue.                                *)
LEMMA PushAppends ==
  ASSUME FitsBuffer, KInv, NEW c \in Keys, InterruptPushes(c)
  PROVE  Contents' = Append(Contents, c) /\ Len(Contents) < MaxUnread
<1>1. /\ buffer' = [buffer EXCEPT ![At(Unread)] = c] /\ Unread' = Unread + 1
      /\ Unread < MaxUnread /\ head' = head
  BY PushEffect DEF InterruptPushes
<1>2. /\ Unread \in Nat /\ BUFFER_SIZE \in Nat /\ head \in Nat /\ Unread < BUFFER_SIZE
  BY <1>1, TailPlace, Sizes
<1>3. /\ Contents \in Seq(Keys \cup {0}) /\ Len(Contents) = Unread
      /\ \A k \in 1 .. Unread : Contents[k] = buffer[At(k - 1)]
  BY ContentsSeq
<1>4. buffer \in [Slots -> Keys \cup {0}]
  BY DEF KInv, TypeOK
<1>5. ASSUME NEW k \in 1 .. Unread + 1
      PROVE  buffer'[(head + k - 1) % BUFFER_SIZE]
               = IF k = Unread + 1 THEN c ELSE Contents[k]
  <2>1. /\ k \in Int /\ k - 1 \in Int /\ head + k - 1 = head + (k - 1)
        /\ (k - 1) - Unread < BUFFER_SIZE /\ Unread - (k - 1) < BUFFER_SIZE
    BY <1>2
  <2>2. (head + k - 1) % BUFFER_SIZE = At(k - 1)
    BY <2>1 DEF At
  <2>3. At(k - 1) \in Slots
    BY <2>1, PlaceIsSlot
  <2>4. CASE k = Unread + 1
    <3>1. k - 1 = Unread
      BY <2>4, <1>2
    <3>2. QED
      BY <3>1, <2>2, <2>3, <2>4, <1>1, <1>4
  <2>5. CASE k # Unread + 1
    <3>1. k \in 1 .. Unread /\ k - 1 # Unread
      BY <2>5, <1>2
    <3>2. At(k - 1) # At(Unread)
      BY <3>1, <2>1, <1>2, PlacesDiffer
    <3>3. QED
      BY <3>1, <3>2, <2>2, <2>3, <2>5, <1>1, <1>3, <1>4
  <2>6. QED
    BY <2>4, <2>5
<1>6. Contents' = [k \in 1 .. Unread + 1 |-> buffer'[(head + k - 1) % BUFFER_SIZE]]
  BY <1>1 DEF Contents
<1>7. Contents' = [k \in 1 .. Len(Contents) + 1 |->
                     IF k = Len(Contents) + 1 THEN c ELSE Contents[k]]
  BY <1>3, <1>5, <1>6
<1>8. c \in Keys \cup {0}
  OBVIOUS
<1>9. Contents' = Append(Contents, c)
  BY <1>3, <1>7, <1>8, SeqAppend
<1>10. QED
  BY <1>1, <1>3, <1>9

(* A popped key is the head of the queue, and leaves the tail behind.      *)
LEMMA PopReads ==
  ASSUME FitsBuffer, KInv, keyboard_pop
  PROVE  Contents # << >> /\ popped' = Head(Contents) /\ Contents' = Tail(Contents)
<1>1. /\ popped' = buffer[At(0)] /\ buffer' = [buffer EXCEPT ![At(0)] = 0]
      /\ head' \in 0 .. INT_MOD - 1 /\ Unread > 0 /\ Unread' = Unread - 1
      /\ \A k \in Int : (head' + k) % BUFFER_SIZE = At(k + 1)
  BY PopEffect
<1>2. /\ Unread \in Nat /\ BUFFER_SIZE \in Nat /\ Unread <= BUFFER_SIZE
      /\ head' \in Int
  BY <1>1, TailPlace, Sizes
<1>3. /\ Contents \in Seq(Keys \cup {0}) /\ Len(Contents) = Unread
      /\ \A k \in 1 .. Unread : Contents[k] = buffer[At(k - 1)]
  BY ContentsSeq
<1>4. buffer \in [Slots -> Keys \cup {0}]
  BY DEF KInv, TypeOK
<1>5. ASSUME NEW k \in 1 .. Unread - 1
      PROVE  buffer'[(head' + k - 1) % BUFFER_SIZE] = Contents[k + 1]
  <2>1. /\ k \in Int /\ k - 1 \in Int /\ head' + k - 1 = head' + (k - 1)
        /\ (k - 1) + 1 = k /\ k # 0 /\ 0 - k < BUFFER_SIZE /\ k - 0 < BUFFER_SIZE
        /\ k + 1 \in 1 .. Unread /\ (k + 1) - 1 = k
    BY <1>2
  <2>2. (head' + k - 1) % BUFFER_SIZE = At(k)
    BY <2>1, <1>1
  <2>3. At(k) \in Slots /\ At(k) # At(0)
    BY <2>1, PlaceIsSlot, PlacesDiffer
  <2>4. Contents[k + 1] = buffer[At(k)]
    BY <2>1, <1>3
  <2>5. QED
    BY <2>2, <2>3, <2>4, <1>1, <1>4
<1>6. Contents' = [k \in 1 .. Unread - 1 |-> buffer'[(head' + k - 1) % BUFFER_SIZE]]
  BY <1>1 DEF Contents
<1>7. Contents' = [k \in 1 .. Len(Contents) - 1 |-> Contents[k + 1]]
  BY <1>3, <1>5, <1>6
<1>8. 1 \in 1 .. Unread /\ 1 - 1 = 0
  BY <1>1, <1>2
<1>9. Contents[1] = buffer[At(0)]
  BY <1>3, <1>8
<1>10. Len(Contents) > 0
  BY <1>1, <1>3
<1>11. Contents # << >> /\ Head(Contents) = Contents[1] /\ Contents' = Tail(Contents)
  BY <1>3, <1>7, <1>10, SeqTail
<1>12. QED
  BY <1>1, <1>9, <1>11

(* An empty slot under the head means an empty queue.                      *)
LEMMA NothingIsEmpty ==
  ASSUME FitsBuffer, KInv, keyboard_pop_nothing
  PROVE  Contents = << >> /\ Contents' = Contents /\ popped' = 0
<1>1. head \in Nat /\ BUFFER_SIZE \in Nat \ {0} /\ Unread \in Nat
  BY TailPlace, Sizes
<1>2. 0 \in Slots /\ head + 0 = head
  BY <1>1 DEF Slots
<1>3. buffer[At(0)] = 0
  BY <1>2 DEF keyboard_pop_nothing, At
<1>4. ~(0 < Unread)
  BY <1>2, <1>3, Filled
<1>5. Unread = 0
  BY <1>1, <1>4
<1>6. Contents \in Seq(Keys \cup {0}) /\ Len(Contents) = 0
  BY <1>5, ContentsSeq
<1>7. Contents = << >>
  BY <1>6
<1>8. QED
  BY <1>7 DEF keyboard_pop_nothing, Contents, Unread

(* keyboard_backspace takes the youngest key off the queue.                *)
LEMMA EraseDrops ==
  ASSUME FitsBuffer, KInv, keyboard_backspace
  PROVE  Contents # << >> /\ Contents' = SubSeq(Contents, 1, Len(Contents) - 1)
<1>1. /\ buffer' = [buffer EXCEPT ![At(Unread - 1)] = 0]
      /\ Unread > 0 /\ Unread' = Unread - 1 /\ head' = head
  BY EraseEffect DEF keyboard_backspace
<1>2. /\ Unread \in Nat /\ BUFFER_SIZE \in Nat /\ Unread <= BUFFER_SIZE
      /\ head \in Int
  BY <1>1, TailPlace, Sizes
<1>3. /\ Contents \in Seq(Keys \cup {0}) /\ Len(Contents) = Unread
      /\ \A k \in 1 .. Unread : Contents[k] = buffer[At(k - 1)]
  BY ContentsSeq
<1>4. buffer \in [Slots -> Keys \cup {0}]
  BY DEF KInv, TypeOK
<1>5. ASSUME NEW k \in 1 .. Unread - 1
      PROVE  buffer'[(head + k - 1) % BUFFER_SIZE] = Contents[k]
  <2>1. /\ k \in Int /\ k - 1 \in Int /\ head + k - 1 = head + (k - 1)
        /\ Unread - 1 \in Int /\ k - 1 # Unread - 1
        /\ (k - 1) - (Unread - 1) < BUFFER_SIZE /\ (Unread - 1) - (k - 1) < BUFFER_SIZE
        /\ k \in 1 .. Unread
    BY <1>2
  <2>2. (head + k - 1) % BUFFER_SIZE = At(k - 1)
    BY <2>1 DEF At
  <2>3. At(k - 1) \in Slots /\ At(k - 1) # At(Unread - 1)
    BY <2>1, PlaceIsSlot, PlacesDiffer
  <2>4. QED
    BY <2>1, <2>2, <2>3, <1>1, <1>3, <1>4
<1>6. Contents' = [k \in 1 .. Unread - 1 |-> buffer'[(head + k - 1) % BUFFER_SIZE]]
  BY <1>1 DEF Contents
<1>7. Contents' = [k \in 1 .. Len(Contents) - 1 |-> Contents[k]]
  BY <1>3, <1>5, <1>6
<1>8. Len(Contents) > 0
  BY <1>1, <1>3
<1>9. QED
  BY <1>3, <1>7, <1>8, SeqFront

(* keyboard_push, keyboard_pop and keyboard_backspace implement the queue  *)
(* of unread keys: each key is read once, in the order of the interrupts.  *)
THEOREM BufferIsQueue ==
  ASSUME FitsBuffer
  PROVE  Spec => ImplementsQueue
<1>1. Init => Queue!Init
  <2> SUFFICES ASSUME Init PROVE Queue!Init
    OBVIOUS
  <2>1. KInv
    BY InitKInv
  <2>2. Unread = 0
    <3>1. 0 \in Int /\ 0 <= 0 /\ 0 < INT_MOD
      BY KeyboardAssumption
    <3>2. 0 % INT_MOD = 0
      BY <3>1, WrapValue
    <3>3. QED
      BY <3>2 DEF Init, Unread
  <2>3. Contents \in Seq(Keys \cup {0}) /\ Len(Contents) = 0
    BY <2>1, <2>2, ContentsSeq
  <2>4. Contents = << >>
    BY <2>3
  <2>5. QED
    BY <2>4 DEF Queue!Init, Init, Contents
<1>2. KInv /\ [Next]_vars => [Queue!Next]_Queue!vars
  <2> SUFFICES ASSUME KInv, [Next]_vars
               PROVE  \/ \E c \in Keys : /\ Len(Contents) < MaxUnread
                                         /\ Contents' = Append(Contents, c)
                                         /\ popped' = popped
                      \/ /\ Contents # << >> /\ popped' = Head(Contents)
                         /\ Contents' = Tail(Contents)
                      \/ Contents = << >> /\ popped' = 0 /\ Contents' = Contents
                      \/ /\ Contents # << >> /\ popped' = popped
                         /\ Contents' = SubSeq(Contents, 1, Len(Contents) - 1)
                      \/ Contents' = Contents /\ popped' = popped
    BY DEF Queue!Next, Queue!vars, Queue!Press, Queue!Read, Queue!ReadNothing,
           Queue!Erase, Contents
  <2>1. ASSUME NEW c \in Keys, InterruptPushes(c)
        PROVE  /\ Len(Contents) < MaxUnread
               /\ Contents' = Append(Contents, c)
               /\ popped' = popped
    BY <2>1, PushAppends DEF InterruptPushes
  <2>2. ASSUME keyboard_backspace
        PROVE  /\ Contents # << >> /\ popped' = popped
               /\ Contents' = SubSeq(Contents, 1, Len(Contents) - 1)
    BY <2>2, EraseDrops DEF keyboard_backspace
  <2>3. ASSUME UNCHANGED <<buffer, head, tail, popped>>
        PROVE  Contents' = Contents /\ popped' = popped
    BY <2>3 DEF Contents, Unread
  <2>4. ASSUME NEW scancode \in Scancodes, KeyStroke(scancode)
        PROVE  Contents' = Contents /\ popped' = popped
    BY <2>4, <2>3 DEF KeyStroke
  <2>5. ASSUME InterruptIgnored \/ UNCHANGED vars
        PROVE  Contents' = Contents /\ popped' = popped
    BY <2>5, <2>3 DEF InterruptIgnored, vars
  <2>6. QED
    BY <2>1, <2>2, <2>4, <2>5, PopReads, NothingIsEmpty DEF Next
<1>3. Spec => []KInv
  BY KInvariance
<1>4. QED
  BY <1>1, <1>2, <1>3, PTL DEF Spec, ImplementsQueue, Queue!Spec
=============================================================================
