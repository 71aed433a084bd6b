------------------------------ MODULE TtyProofs -----------------------------
(***************************************************************************)
(* The proof that the console's input implements Tty, for any ring size    *)
(* and counter width.  The indices r, w and e of struct cons delimit the   *)
(* lines.  They wrap, so their differences are what matters;               *)
(* INPUT_BUF_SIZE divides WORD, so a place in the buffer survives the      *)
(* wrap.  First sequences and counters that wrap, then what a stretch of   *)
(* the ring holds (Cells), then the steps: a character is read, stored, or *)
(* erased.                                                                 *)
(***************************************************************************)
EXTENDS Console, TLAPS

(* What the proof of the input uses of the theory of numbers.              *)
LeastFact == \A S \in SUBSET Nat : S # {} => \E x \in S : \A y \in S : x <= y

(* Counters that wrap: n after a, how far b is from a, the place of x.     *)
Fwd(a, n) == (a + n) % WORD
Gap(a, b) == (b + WORD - a) % WORD
Spot(x) == x % INPUT_BUF_SIZE

(* The three indices: a line that is ready, of length m, and one being     *)
(* typed, of length n.                                                     *)
InputOf(m, n) ==
  /\ m + n <= INPUT_BUF_SIZE
  /\ r \in 0..(WORD - 1) /\ w = Fwd(r, m) /\ e = Fwd(w, n)
  /\ buf \in [0..(INPUT_BUF_SIZE - 1) -> Stored]
InputOK == \E m, n \in Nat : InputOf(m, n)

(* The buffer with the next character stored.                              *)
Put(k) == [buf EXCEPT ![e % INPUT_BUF_SIZE] = k]

(* The characters of a buffer B from the place a on.                       *)
Cells(B, a, n) == [j \in 1..n |-> B[Spot(a + j - 1)]]

-----------------------------------------------------------------------------
(* Sequences: when two are equal, and what the operators on them return.   *)
LEMMA SeqSame ==
  ASSUME NEW S, NEW s \in Seq(S), NEW t \in Seq(S), Len(s) = Len(t), \A j \in 1..Len(s) : s[j] = t[j]
  PROVE  s = t
OBVIOUS

(* The rest of a sequence that is not empty.                               *)
LEMMA TailOf ==
  ASSUME NEW S, NEW s \in Seq(S), Len(s) # 0
  PROVE  /\ s # <<>> /\ Tail(s) \in Seq(S) /\ Len(Tail(s)) = Len(s) - 1
         /\ \A j \in 1..Len(Tail(s)) : Tail(s)[j] = s[j + 1]
OBVIOUS

(* A sequence with one more element.                                       *)
LEMMA AppendOf ==
  ASSUME NEW S, NEW s \in Seq(S), NEW k \in S
  PROVE  /\ Append(s, k) \in Seq(S) /\ Len(Append(s, k)) = Len(s) + 1
         /\ Append(s, k)[Len(s) + 1] = k /\ \A j \in 1..Len(s) : Append(s, k)[j] = s[j]
OBVIOUS

(* One sequence after the other.                                           *)
LEMMA ConcatOf ==
  ASSUME NEW S, NEW s \in Seq(S), NEW t \in Seq(S)
  PROVE  /\ s \o t \in Seq(S) /\ Len(s \o t) = Len(s) + Len(t)
         /\ \A j \in 1..(Len(s) + Len(t)) : (s \o t)[j] = IF j <= Len(s) THEN s[j] ELSE t[j - Len(s)]
OBVIOUS

(* The remainder is what is left below the divisor.                        *)
LEMMA ModIs ==
  ASSUME NEW m \in Nat \ {0}, NEW q \in Int, NEW rem \in 0..(m - 1), NEW a \in Nat, a = m * q + rem
  PROVE  a % m = rem
OBVIOUS

(* Two positions less than m apart are different modulo m.                 *)
LEMMA ModApart ==
  ASSUME NEW m \in Nat \ {0}, NEW a \in Nat, NEW b \in Nat, a < b, b < a + m
  PROVE  a % m # b % m
<1>1. a = m * (a \div m) + (a % m) /\ a \div m \in Int /\ a % m \in 0..(m - 1)
  OBVIOUS
<1>2. b = m * (b \div m) + (b % m) /\ b \div m \in Int /\ b % m \in 0..(m - 1)
  OBVIOUS
<1>3. ASSUME a % m = b % m PROVE FALSE
  <2>c. PICK c \in Int : a = m * c + (a % m)
    BY <1>1
  <2>d. PICK d \in Int : b = m * d + (b % m)
    BY <1>2
  <2>1. b - a = m * d - m * c
    BY <1>1, <1>2, <1>3, <2>c, <2>d
  <2>2. b - a = m * (d - c) /\ d - c \in Int
    BY <2>1
  <2>3. CASE d - c <= 0
    BY <2>2, <2>3
  <2>4. CASE d - c >= 1
    <3>1. m * (d - c) >= m
      BY <2>4
    <3> QED BY <2>2, <3>1
  <2> QED BY <2>1, <2>3, <2>4
<1> QED BY <1>3

(* The sizes.                                                              *)
LEMMA Sizes ==
  /\ WORD \in Nat \ {0} /\ INPUT_BUF_SIZE \in Nat \ {0} /\ INPUT_BUF_SIZE < WORD
  /\ Start \subseteq 0..(WORD - 1)
BY ConsoleAssumption

(* A counter n further.                                                    *)
LEMMA FwdIs ==
  ASSUME NEW a \in 0..(WORD - 1), NEW n \in 0..WORD
  PROVE  /\ Fwd(a, n) = (IF a + n < WORD THEN a + n ELSE a + n - WORD)
         /\ Fwd(a, n) \in 0..(WORD - 1)
BY Sizes DEF Fwd

(* How far the one counter is behind the other.                            *)
LEMMA GapIs ==
  ASSUME NEW a \in 0..(WORD - 1), NEW b \in 0..(WORD - 1)
  PROVE  /\ Gap(a, b) = (IF b >= a THEN b - a ELSE b + WORD - a)
         /\ Gap(a, b) \in 0..(WORD - 1)
<1>1. PICK y \in 0..(2 * WORD - 1) : y = b + WORD - a
  BY Sizes
<1>2. y % WORD = IF y < WORD THEN y ELSE y - WORD
  BY Sizes
<1>3. Gap(a, b) = y % WORD
  BY <1>1 DEF Gap
<1> QED BY <1>1, <1>2, <1>3, Sizes

(* A place is in the buffer.                                               *)
LEMMA SpotType == ASSUME NEW x \in Nat PROVE Spot(x) \in 0..(INPUT_BUF_SIZE - 1)
BY Sizes DEF Spot

(* A counter that wraps at WORD, a multiple of INPUT_BUF_SIZE, still       *)
(* points to the same place of the buffer.                                 *)
LEMMA SpotWraps ==
  ASSUME NEW x \in Nat, x >= WORD PROVE Spot(x - WORD) = Spot(x)
<1>0. WORD \in Nat \ {0} /\ INPUT_BUF_SIZE \in Nat \ {0} /\ WORD % INPUT_BUF_SIZE = 0
  BY ConsoleAssumption
<1>2. PICK c \in Int : WORD = INPUT_BUF_SIZE * c
  <2>1. WORD = INPUT_BUF_SIZE * (WORD \div INPUT_BUF_SIZE) + (WORD % INPUT_BUF_SIZE)
        /\ WORD \div INPUT_BUF_SIZE \in Int
    BY <1>0
  <2> QED BY <1>0, <2>1
<1>3. x = INPUT_BUF_SIZE * (x \div INPUT_BUF_SIZE) + (x % INPUT_BUF_SIZE) /\ x \div INPUT_BUF_SIZE \in Int
      /\ x % INPUT_BUF_SIZE \in 0..(INPUT_BUF_SIZE - 1)
  BY <1>0
<1>4. PICK d \in Int, rem \in 0..(INPUT_BUF_SIZE - 1) : x = INPUT_BUF_SIZE * d + rem /\ rem = x % INPUT_BUF_SIZE
  BY <1>3
<1>5. x - WORD = INPUT_BUF_SIZE * (d - c) + rem /\ d - c \in Int /\ x - WORD \in Nat
  <2>1. INPUT_BUF_SIZE * (d - c) = INPUT_BUF_SIZE * d - INPUT_BUF_SIZE * c
    BY <1>0
  <2>2. x - WORD = INPUT_BUF_SIZE * d - INPUT_BUF_SIZE * c + rem
    BY <1>0, <1>2, <1>4
  <2> QED BY <1>0, <2>1, <2>2
<1>6. (x - WORD) % INPUT_BUF_SIZE = rem
  BY <1>0, <1>5, ModIs
<1> QED BY <1>4, <1>6 DEF Spot

(* Two places less than the size apart are different.                      *)
LEMMA SpotApart ==
  ASSUME NEW a \in Nat, NEW b \in Nat, a < b, b < a + INPUT_BUF_SIZE PROVE Spot(a) # Spot(b)
<1>1. INPUT_BUF_SIZE \in Nat \ {0}
  BY Sizes
<1> QED BY <1>1, ModApart, Zenon DEF Spot

(* The place a counter has, and the place j after a counter.               *)
LEMMA SpotFwd ==
  ASSUME NEW a \in 0..(WORD - 1), NEW n \in 0..INPUT_BUF_SIZE, NEW j \in 0..INPUT_BUF_SIZE
  PROVE  Spot(Fwd(a, n) + j) = Spot(a + n + j)
<1>1. CASE a + n < WORD
  <2>1. Fwd(a, n) = a + n
    BY <1>1, FwdIs, Sizes
  <2> QED BY <2>1
<1>2. CASE a + n >= WORD
  <2>1. Fwd(a, n) + j = (a + n + j) - WORD /\ a + n + j \in Nat /\ a + n + j >= WORD
    BY <1>2, FwdIs, Sizes
  <2> QED BY <2>1, SpotWraps
<1> QED BY <1>1, <1>2, Sizes

(* Steps along the counters, as long as the buffer is not passed.          *)
LEMMA FwdFwd ==
  ASSUME NEW a \in 0..(WORD - 1), NEW m \in 0..INPUT_BUF_SIZE, NEW n \in 0..INPUT_BUF_SIZE,
         m + n <= INPUT_BUF_SIZE
  PROVE  Fwd(Fwd(a, m), n) = Fwd(a, m + n)
<1>1. m \in 0..WORD /\ n \in 0..WORD /\ m + n \in 0..WORD
  BY Sizes
<1>2. PICK b \in 0..(WORD - 1) : b = Fwd(a, m) /\ b = IF a + m < WORD THEN a + m ELSE a + m - WORD
  BY <1>1, FwdIs, Zenon
<1>3. PICK c \in 0..(WORD - 1) : c = Fwd(b, n) /\ c = IF b + n < WORD THEN b + n ELSE b + n - WORD
  BY <1>1, FwdIs, Zenon
<1>4. PICK d \in 0..(WORD - 1) : /\ d = Fwd(a, m + n)
                                 /\ d = IF a + (m + n) < WORD THEN a + (m + n) ELSE a + (m + n) - WORD
  BY <1>1, FwdIs, Zenon
<1>5. c = d
  BY <1>1, <1>2, <1>3, <1>4, Sizes
<1> QED BY <1>2, <1>3, <1>4, <1>5, Zenon

(* The distance to where n steps lead.                                     *)
LEMMA GapFwd ==
  ASSUME NEW a \in 0..(WORD - 1), NEW n \in 0..INPUT_BUF_SIZE
  PROVE  Gap(a, Fwd(a, n)) = n /\ (Fwd(a, n) = a <=> n = 0)
<1>1. n \in 0..WORD
  BY Sizes
<1>2. PICK b \in 0..(WORD - 1) : b = Fwd(a, n) /\ b = IF a + n < WORD THEN a + n ELSE a + n - WORD
  BY <1>1, FwdIs, Zenon
<1>3. PICK c \in 0..(WORD - 1) : c = Gap(a, b) /\ c = IF b >= a THEN b - a ELSE b + WORD - a
  BY GapIs, Zenon
<1>4. c = n /\ (b = a <=> n = 0)
  BY <1>2, <1>3, Sizes
<1> QED BY <1>2, <1>3, <1>4, Zenon

(* x steps back.                                                           *)
LEMMA FwdBack ==
  ASSUME NEW a \in 0..(WORD - 1), NEW n \in 0..INPUT_BUF_SIZE, NEW x \in 0..n
  PROVE  Gap(x, Fwd(a, n)) = Fwd(a, n - x)
<1>1. n \in 0..WORD /\ n - x \in 0..WORD /\ x \in 0..(WORD - 1)
  BY Sizes
<1>2. PICK b \in 0..(WORD - 1) : b = Fwd(a, n) /\ b = IF a + n < WORD THEN a + n ELSE a + n - WORD
  BY <1>1, FwdIs, Zenon
<1>3. PICK c \in 0..(WORD - 1) : c = Gap(x, b) /\ c = IF b >= x THEN b - x ELSE b + WORD - x
  BY <1>1, GapIs, Zenon
<1>4. PICK d \in 0..(WORD - 1) : /\ d = Fwd(a, n - x)
                                 /\ d = IF a + (n - x) < WORD THEN a + (n - x) ELSE a + (n - x) - WORD
  BY <1>1, FwdIs, Zenon
<1>5. c = d
  BY <1>1, <1>2, <1>3, <1>4, Sizes
<1> QED BY <1>2, <1>3, <1>4, <1>5, Zenon

(* What the indices are in a state with these lengths.                     *)
LEMMA Indices ==
  ASSUME NEW m \in Nat, NEW n \in Nat, InputOf(m, n)
  PROVE  /\ m \in 0..INPUT_BUF_SIZE /\ n \in 0..INPUT_BUF_SIZE /\ m + n \in 0..INPUT_BUF_SIZE
         /\ r \in 0..(WORD - 1) /\ w \in 0..(WORD - 1) /\ e \in 0..(WORD - 1)
         /\ w = Fwd(r, m) /\ e = Fwd(w, n) /\ e = Fwd(r, m + n)
         /\ buf \in [0..(INPUT_BUF_SIZE - 1) -> Stored]
<1>0. r \in 0..(WORD - 1) /\ w = Fwd(r, m) /\ e = Fwd(w, n) /\ m + n <= INPUT_BUF_SIZE
      /\ buf \in [0..(INPUT_BUF_SIZE - 1) -> Stored]
  BY Zenon DEF InputOf
<1>1. m \in 0..INPUT_BUF_SIZE /\ n \in 0..INPUT_BUF_SIZE /\ m + n \in 0..INPUT_BUF_SIZE
  BY <1>0, Sizes
<1>2. \A x \in 0..INPUT_BUF_SIZE : x \in 0..WORD
  BY Sizes
<1>3. w \in 0..(WORD - 1)
  BY <1>0, <1>1, <1>2, FwdIs, Zenon
<1>4. e \in 0..(WORD - 1)
  BY <1>0, <1>1, <1>2, <1>3, FwdIs, Zenon
<1>5. e = Fwd(r, m + n)
  BY <1>0, <1>1, FwdFwd, Zenon
<1> QED BY <1>0, <1>1, <1>3, <1>4, <1>5, Zenon

-----------------------------------------------------------------------------
(* A slice of the buffer between two counters.                             *)
LEMMA SliceIs ==
  ASSUME NEW B, NEW a \in 0..(WORD - 1), NEW n \in 0..INPUT_BUF_SIZE, NEW b, b = Fwd(a, n)
  PROVE  [j \in 1..((b + WORD - a) % WORD) |-> B[((a + j - 1) % WORD) % INPUT_BUF_SIZE]] = Cells(B, a, n)
<1>1. (b + WORD - a) % WORD = n
  BY GapFwd, Zenon DEF Gap
<1>2. ASSUME NEW j \in 1..n PROVE ((a + j - 1) % WORD) % INPUT_BUF_SIZE = Spot(a + j - 1)
  <2>1. PICK i \in 0..INPUT_BUF_SIZE : i \in 0..WORD /\ a + i = a + j - 1 /\ a + i + 0 = a + i
    <3>1. PICK i \in 0..INPUT_BUF_SIZE : i = j - 1
      BY Sizes
    <3> QED BY <3>1, Sizes
  <2>2. Fwd(a, i) \in 0..(WORD - 1)
    BY <2>1, FwdIs, Zenon
  <2>3. Fwd(a, i) + 0 = Fwd(a, i) /\ 0 \in 0..INPUT_BUF_SIZE
    BY <2>2, Sizes
  <2>4. Spot(Fwd(a, i)) = Spot(a + i)
    BY <2>1, <2>3, SpotFwd, Zenon
  <2>5. Fwd(a, i) = (a + j - 1) % WORD
    BY <2>1, Zenon DEF Fwd
  <2>6. Spot(Fwd(a, i)) = ((a + j - 1) % WORD) % INPUT_BUF_SIZE
    BY <2>5, Zenon DEF Spot
  <2> QED BY <2>1, <2>4, <2>6, Zenon
<1> QED BY <1>1, <1>2, Zenon DEF Cells

(* Cells are a sequence of stored characters.                              *)
LEMMA CellsType ==
  ASSUME NEW B \in [0..(INPUT_BUF_SIZE - 1) -> Stored], NEW a \in Nat, NEW n \in Nat
  PROVE  /\ Cells(B, a, n) \in Seq(Stored) /\ Len(Cells(B, a, n)) = n
         /\ \A j \in 1..n : Cells(B, a, n)[j] = B[Spot(a + j - 1)]
<1>1. \A j \in 1..n : Spot(a + j - 1) \in 0..(INPUT_BUF_SIZE - 1)
  <2> TAKE j \in 1..n
  <2>1. a + j - 1 \in Nat
    OBVIOUS
  <2> QED BY <2>1, SpotType
<1>2. Cells(B, a, n) \in [1..n -> Stored]
  BY <1>1, Zenon DEF Cells
<1>3. Cells(B, a, n) \in Seq(Stored) /\ Len(Cells(B, a, n)) = n
  BY <1>2
<1> QED BY <1>3, Zenon DEF Cells

(* The cells after a counter that has wrapped.                             *)
LEMMA CellsWrap ==
  ASSUME NEW B, NEW a \in 0..(WORD - 1), NEW m \in 0..INPUT_BUF_SIZE, NEW n \in 0..INPUT_BUF_SIZE
  PROVE  Cells(B, Fwd(a, m), n) = Cells(B, a + m, n)
<1>0. PICK b \in 0..(WORD - 1) : b = Fwd(a, m)
  <2>1. m \in 0..WORD
    BY Sizes
  <2> QED BY <2>1, FwdIs, Zenon
<1>1. ASSUME NEW j \in 1..n PROVE Spot(b + j - 1) = Spot(a + m + j - 1)
  <2>2. PICK i \in 0..INPUT_BUF_SIZE : i = j - 1
    BY Sizes
  <2>3. b + i = b + j - 1 /\ a + m + i = a + m + j - 1
    BY <2>2
  <2>4. Spot(Fwd(a, m) + i) = Spot(a + m + i)
    BY SpotFwd, Zenon
  <2> QED BY <1>0, <2>3, <2>4, Zenon
<1> QED BY <1>0, <1>1, Zenon DEF Cells

(* Cells whose contents are not written.                                   *)
LEMMA CellsSame ==
  ASSUME NEW B, NEW C, NEW a, NEW n, \A j \in 1..n : C[Spot(a + j - 1)] = B[Spot(a + j - 1)]
  PROVE  Cells(C, a, n) = Cells(B, a, n)
BY Zenon DEF Cells

(* The first of the cells is taken away.                                   *)
LEMMA CellsTail ==
  ASSUME NEW B \in [0..(INPUT_BUF_SIZE - 1) -> Stored], NEW a \in Nat, NEW n \in Nat \ {0}
  PROVE  Cells(B, a + 1, n - 1) = Tail(Cells(B, a, n)) /\ Cells(B, a, n) # <<>>
<1>0. a + 1 \in Nat /\ n - 1 \in Nat /\ n \in Nat
  OBVIOUS
<1>1. PICK s \in Seq(Stored) : /\ s = Cells(B, a, n) /\ Len(s) = n
                               /\ \A j \in 1..n : s[j] = B[Spot(a + j - 1)]
  BY <1>0, CellsType, Zenon
<1>2. PICK t \in Seq(Stored) : /\ t = Cells(B, a + 1, n - 1) /\ Len(t) = n - 1
                               /\ \A j \in 1..(n - 1) : t[j] = B[Spot(a + 1 + j - 1)]
  BY <1>0, CellsType, Zenon
<1>3. ASSUME NEW j \in 1..(n - 1) PROVE t[j] = s[j + 1]
  <2>1. j + 1 \in 1..n /\ a + 1 + j - 1 = a + (j + 1) - 1
    OBVIOUS
  <2> QED BY <1>1, <1>2, <2>1, Zenon
<1>4. s # <<>> /\ Len(s) # 0
  BY <1>1
<1>5. /\ Tail(s) \in Seq(Stored) /\ Len(Tail(s)) = Len(s) - 1
      /\ \A j \in 1..Len(Tail(s)) : Tail(s)[j] = s[j + 1]
  BY <1>4, TailOf, Zenon
<1>6. Len(t) = Len(Tail(s)) /\ \A j \in 1..Len(t) : t[j] = Tail(s)[j]
  <2>1. Len(t) = n - 1 /\ Len(Tail(s)) = n - 1
    BY <1>1, <1>2, <1>5, Zenon
  <2> QED BY <1>3, <1>5, <2>1, Zenon
<1>7. t = Tail(s)
  BY <1>5, <1>6, SeqSame, Zenon
<1> QED BY <1>1, <1>2, <1>4, <1>7, Zenon

(* A character is written after the last of the cells.                     *)
LEMMA CellsAppend ==
  ASSUME NEW B \in [0..(INPUT_BUF_SIZE - 1) -> Stored], NEW a \in Nat, NEW n \in Nat, NEW k \in Stored,
         B[Spot(a + n)] = k
  PROVE  Cells(B, a, n + 1) = Append(Cells(B, a, n), k)
<1>0. n + 1 \in Nat /\ a + (n + 1) - 1 = a + n /\ (\A j \in 1..n : j \in 1..(n + 1)) /\ n + 1 \in 1..(n + 1)
      /\ \A j \in 1..(n + 1) : j \in 1..n \/ j = n + 1
  OBVIOUS
<1>1. PICK s \in Seq(Stored) : /\ s = Cells(B, a, n) /\ Len(s) = n
                               /\ \A j \in 1..n : s[j] = B[Spot(a + j - 1)]
  BY <1>0, CellsType, Zenon
<1>2. PICK t \in Seq(Stored) : /\ t = Cells(B, a, n + 1) /\ Len(t) = n + 1
                               /\ \A j \in 1..(n + 1) : t[j] = B[Spot(a + j - 1)]
  BY <1>0, CellsType, Zenon
<1>3. t[n + 1] = k /\ \A j \in 1..n : t[j] = s[j]
  BY <1>0, <1>1, <1>2, Zenon
<1>4. /\ Append(s, k) \in Seq(Stored) /\ Len(Append(s, k)) = Len(s) + 1
      /\ Append(s, k)[Len(s) + 1] = k /\ \A j \in 1..Len(s) : Append(s, k)[j] = s[j]
  BY <1>1, AppendOf, SMT
<1>5. Len(t) = Len(Append(s, k)) /\ \A j \in 1..Len(t) : t[j] = Append(s, k)[j]
  BY <1>0, <1>1, <1>2, <1>3, <1>4, Zenon
<1>6. t = Append(s, k)
  BY <1>4, <1>5, SeqSame, Zenon
<1> QED BY <1>1, <1>2, <1>6, Zenon

(* Cells that follow each other.                                           *)
LEMMA CellsJoin ==
  ASSUME NEW B \in [0..(INPUT_BUF_SIZE - 1) -> Stored], NEW a \in Nat, NEW m \in Nat, NEW n \in Nat
  PROVE  Cells(B, a, m + n) = Cells(B, a, m) \o Cells(B, a + m, n)
<1>0. m + n \in Nat /\ a + m \in Nat
  OBVIOUS
<1>1. PICK s \in Seq(Stored) : /\ s = Cells(B, a, m) /\ Len(s) = m
                               /\ \A j \in 1..m : s[j] = B[Spot(a + j - 1)]
  BY CellsType, Zenon
<1>2. PICK t \in Seq(Stored) : /\ t = Cells(B, a + m, n) /\ Len(t) = n
                               /\ \A j \in 1..n : t[j] = B[Spot(a + m + j - 1)]
  BY <1>0, CellsType, Zenon
<1>3. PICK u \in Seq(Stored) : /\ u = Cells(B, a, m + n) /\ Len(u) = m + n
                               /\ \A j \in 1..(m + n) : u[j] = B[Spot(a + j - 1)]
  BY <1>0, CellsType, Zenon
<1>4. /\ s \o t \in Seq(Stored) /\ Len(s \o t) = Len(s) + Len(t)
      /\ \A j \in 1..(Len(s) + Len(t)) : (s \o t)[j] = IF j <= Len(s) THEN s[j] ELSE t[j - Len(s)]
  BY ConcatOf, Zenon
<1>5. ASSUME NEW j \in 1..(m + n) PROVE u[j] = (s \o t)[j]
  <2>0. (s \o t)[j] = IF j <= m THEN s[j] ELSE t[j - m]
    BY <1>1, <1>2, <1>4, Zenon
  <2>1. CASE j <= m
    <3>1. j \in 1..m
      BY <2>1
    <3> QED BY <1>1, <1>3, <2>0, <2>1, <3>1, Zenon
  <2>2. CASE ~(j <= m)
    <3>1. j - m \in 1..n /\ a + m + (j - m) - 1 = a + j - 1
      BY <2>2
    <3> QED BY <1>2, <1>3, <2>0, <2>2, <3>1, Zenon
  <2> QED BY <2>1, <2>2, Zenon
<1>6. Len(u) = Len(s \o t) /\ \A j \in 1..Len(u) : u[j] = (s \o t)[j]
  BY <1>1, <1>2, <1>3, <1>4, <1>5, Zenon
<1>7. u = s \o t
  BY <1>4, <1>6, SeqSame, Zenon
<1> QED BY <1>1, <1>2, <1>3, <1>7, Zenon

(* The last x of the cells are left out.                                   *)
LEMMA CellsSub ==
  ASSUME NEW B \in [0..(INPUT_BUF_SIZE - 1) -> Stored], NEW a \in Nat, NEW n \in Nat, NEW x \in 0..n
  PROVE  Cells(B, a, n - x) = SubSeq(Cells(B, a, n), 1, Len(Cells(B, a, n)) - x)
<1>0. n - x \in Nat /\ \A j \in 1..(n - x) : j \in 1..n
  OBVIOUS
<1>1. PICK s \in Seq(Stored) : /\ s = Cells(B, a, n) /\ Len(s) = n
                               /\ \A j \in 1..n : s[j] = B[Spot(a + j - 1)]
  BY CellsType, Zenon
<1>2. PICK t \in Seq(Stored) : /\ t = Cells(B, a, n - x) /\ Len(t) = n - x
                               /\ \A j \in 1..(n - x) : t[j] = B[Spot(a + j - 1)]
  BY <1>0, CellsType, Zenon
<1>3. \A j \in 1..(n - x) : t[j] = s[j]
  BY <1>0, <1>1, <1>2, Zenon
<1>4. SubSeq(s, 1, n - x) \in Seq(Stored) /\ Len(SubSeq(s, 1, n - x)) = n - x
  BY <1>0, <1>1
<1>5. \A j \in 1..(n - x) : SubSeq(s, 1, n - x)[j] = s[j]
  BY <1>0, <1>1
<1>6. Len(t) = Len(SubSeq(s, 1, n - x)) /\ \A j \in 1..Len(t) : t[j] = SubSeq(s, 1, n - x)[j]
  BY <1>2, <1>3, <1>4, <1>5, Zenon
<1>7. t = SubSeq(s, 1, n - x)
  BY <1>4, <1>6, SeqSame, Zenon
<1> QED BY <1>1, <1>2, <1>7, Zenon

-----------------------------------------------------------------------------
(* The mapping, in a state with these lengths.                             *)
LEMMA ReadyIs ==
  ASSUME NEW m \in Nat, NEW n \in Nat, InputOf(m, n)
  PROVE  Ready = Cells(buf, r, m) /\ Edited = Cells(buf, w, n) /\ Edited = Cells(buf, r + m, n)
<1>1. /\ m \in 0..INPUT_BUF_SIZE /\ n \in 0..INPUT_BUF_SIZE /\ r \in 0..(WORD - 1) /\ w \in 0..(WORD - 1)
      /\ w = Fwd(r, m) /\ e = Fwd(w, n)
  BY Indices, Zenon
<1>2. Ready = Cells(buf, r, m)
  <2>1. Ready = [j \in 1..((w + WORD - r) % WORD) |-> buf[((r + j - 1) % WORD) % INPUT_BUF_SIZE]]
    BY Zenon DEF Ready, Slice, At
  <2> QED BY <1>1, <2>1, SliceIs, Zenon
<1>3. Edited = Cells(buf, w, n)
  <2>1. Edited = [j \in 1..((e + WORD - w) % WORD) |-> buf[((w + j - 1) % WORD) % INPUT_BUF_SIZE]]
    BY Zenon DEF Edited, Slice, At
  <2>2. [j \in 1..((e + WORD - w) % WORD) |-> buf[((w + j - 1) % WORD) % INPUT_BUF_SIZE]] = Cells(buf, w, n)
    <3>1. n \in 0..INPUT_BUF_SIZE /\ w \in 0..(WORD - 1) /\ e = Fwd(w, n)
      BY <1>1, Zenon
    <3> QED BY <3>1, SliceIs, Zenon
  <2> QED BY <2>1, <2>2, Zenon
<1>4. Edited = Cells(buf, r + m, n)
  BY <1>1, <1>3, CellsWrap, Zenon
<1> QED BY <1>2, <1>3, <1>4, Zenon

(* What the indices are after a step.                                      *)
LEMMA ReadyIsNext ==
  ASSUME NEW m \in Nat, NEW n \in Nat, InputOf(m, n)'
  PROVE  Ready' = Cells(buf', r', m) /\ Edited' = Cells(buf', w', n) /\ Edited' = Cells(buf', r' + m, n)
<1>1. /\ m \in 0..INPUT_BUF_SIZE /\ n \in 0..INPUT_BUF_SIZE /\ r' \in 0..(WORD - 1) /\ w' \in 0..(WORD - 1)
      /\ w' = Fwd(r', m) /\ e' = Fwd(w', n)
  <2>1. m + n <= INPUT_BUF_SIZE /\ r' \in 0..(WORD - 1) /\ w' = Fwd(r', m) /\ e' = Fwd(w', n)
    BY Zenon DEF InputOf
  <2>2. m \in 0..INPUT_BUF_SIZE /\ n \in 0..INPUT_BUF_SIZE /\ m \in 0..WORD
    BY <2>1, Sizes
  <2> QED BY <2>1, <2>2, FwdIs, Zenon
<1>2. Ready' = Cells(buf', r', m)
  <2>1. Ready' = [j \in 1..((w' + WORD - r') % WORD) |-> buf'[((r' + j - 1) % WORD) % INPUT_BUF_SIZE]]
    BY Zenon DEF Ready, Slice, At
  <2> QED BY <1>1, <2>1, SliceIs, Zenon
<1>3. Edited' = Cells(buf', w', n)
  <2>1. Edited' = [j \in 1..((e' + WORD - w') % WORD) |-> buf'[((w' + j - 1) % WORD) % INPUT_BUF_SIZE]]
    BY Zenon DEF Edited, Slice, At
  <2>2. [j \in 1..((e' + WORD - w') % WORD) |-> buf'[((w' + j - 1) % WORD) % INPUT_BUF_SIZE]] = Cells(buf', w', n)
    <3>1. n \in 0..INPUT_BUF_SIZE /\ w' \in 0..(WORD - 1) /\ e' = Fwd(w', n)
      BY <1>1, Zenon
    <3> QED BY <3>1, SliceIs, Zenon
  <2> QED BY <2>1, <2>2, Zenon
<1>4. Edited' = Cells(buf', r' + m, n)
  <2>1. Cells(buf', Fwd(r', m), n) = Cells(buf', r' + m, n)
    <3>1. r' \in 0..(WORD - 1) /\ m \in 0..INPUT_BUF_SIZE /\ n \in 0..INPUT_BUF_SIZE
      BY <1>1, Zenon
    <3> QED BY <3>1, CellsWrap, Zenon
  <2> QED BY <1>1, <1>3, <2>1, Zenon
<1> QED BY <1>2, <1>3, <1>4, Zenon

(* What the tests of the code say of the lengths.                          *)
LEMMA LengthsAre ==
  ASSUME NEW m \in Nat, NEW n \in Nat, InputOf(m, n)
  PROVE  /\ Size = m + n /\ (Empty <=> m = 0) /\ (e = w <=> n = 0)
         /\ (e + WORD - w) % WORD = n
         /\ Len(Ready) = m /\ Len(Edited) = n
<1>1. Gap(r, e) = m + n /\ (w = r <=> m = 0) /\ (e = w <=> n = 0) /\ Gap(w, e) = n
  <2>1. /\ m \in 0..INPUT_BUF_SIZE /\ n \in 0..INPUT_BUF_SIZE /\ m + n \in 0..INPUT_BUF_SIZE
        /\ r \in 0..(WORD - 1) /\ w \in 0..(WORD - 1) /\ w = Fwd(r, m) /\ e = Fwd(w, n) /\ e = Fwd(r, m + n)
    BY Indices, Zenon
  <2>2. Gap(r, Fwd(r, m + n)) = m + n
    BY <2>1, GapFwd, Zenon
  <2>3. Fwd(r, m) = r <=> m = 0
    BY <2>1, GapFwd, Zenon
  <2>4. Gap(w, Fwd(w, n)) = n /\ (Fwd(w, n) = w <=> n = 0)
    BY <2>1, GapFwd, Zenon
  <2>5. (w = r <=> m = 0) /\ Gap(r, e) = m + n
    BY <2>1, <2>2, <2>3, Zenon
  <2>6. (e = w <=> n = 0) /\ Gap(w, e) = n
    BY <2>1, <2>4, Zenon
  <2> QED BY <2>5, <2>6, Zenon
<1>2. r \in Nat /\ w \in Nat /\ buf \in [0..(INPUT_BUF_SIZE - 1) -> Stored]
  BY Indices
<1>3. Len(Ready) = m /\ Len(Edited) = n
  <2>1. Ready = Cells(buf, r, m) /\ Edited = Cells(buf, w, n)
    BY ReadyIs, Zenon
  <2>2. Len(Cells(buf, r, m)) = m
    BY <1>2, CellsType, Zenon
  <2>3. Len(Cells(buf, w, n)) = n
    BY <1>2, CellsType, Zenon
  <2> QED BY <2>1, <2>2, <2>3, Zenon
<1> QED BY <1>1, <1>3, Zenon DEF Size, Empty, Gap

(* consoleread() takes the first character of a line that is ready.        *)
LEMMA ReadTakes ==
  ASSUME InputOK, ~Empty, r' = (r + 1) % WORD, UNCHANGED <<buf, w, e>>
  PROVE  InputOK' /\ Line!Take
<1>1. PICK m \in Nat, n \in Nat : InputOf(m, n)
  BY Zenon DEF InputOK
<1>2. m # 0
  BY <1>1, LengthsAre, Zenon
<1>3. /\ m \in Nat \ {0} /\ m - 1 \in Nat /\ m - 1 \in 0..INPUT_BUF_SIZE /\ 1 \in 0..INPUT_BUF_SIZE
      /\ 1 + (m - 1) = m /\ (m - 1) + n <= INPUT_BUF_SIZE /\ r \in Nat
      /\ 1 + (m - 1) <= INPUT_BUF_SIZE /\ 1 \in 0..WORD
  <2>1. m \in 0..INPUT_BUF_SIZE /\ m + n \in 0..INPUT_BUF_SIZE /\ r \in 0..(WORD - 1)
    BY <1>1, Indices, Zenon
  <2> QED BY <1>2, <2>1, Sizes
<1>4. /\ r \in 0..(WORD - 1) /\ w = Fwd(r, m) /\ e = Fwd(w, n)
      /\ buf \in [0..(INPUT_BUF_SIZE - 1) -> Stored]
  BY <1>1, Indices, Zenon
<1>5. r' = Fwd(r, 1) /\ r' \in 0..(WORD - 1)
  BY <1>3, <1>4, FwdIs, Zenon DEF Fwd
<1>6. Fwd(r', m - 1) = Fwd(r, m)
  <2>1. Fwd(Fwd(r, 1), m - 1) = Fwd(r, 1 + (m - 1))
    BY <1>3, <1>4, FwdFwd, Zenon
  <2> QED BY <1>3, <1>5, <2>1, Zenon
<1>7. InputOf(m - 1, n)'
  BY <1>3, <1>4, <1>5, <1>6, Zenon DEF InputOf
<1>8. Ready = Cells(buf, r, m) /\ Edited = Cells(buf, w, n)
  BY <1>1, ReadyIs, Zenon
<1>9. Ready' = Cells(buf, r', m - 1) /\ Edited' = Cells(buf, w, n)
  BY <1>3, <1>7, ReadyIsNext, Zenon
<1>10. Cells(buf, r', m - 1) = Cells(buf, r + 1, m - 1)
  <2>1. Cells(buf, Fwd(r, 1), m - 1) = Cells(buf, r + 1, m - 1)
    <3>1. r \in 0..(WORD - 1) /\ 1 \in 0..INPUT_BUF_SIZE /\ m - 1 \in 0..INPUT_BUF_SIZE
      BY <1>3, <1>4, Zenon
    <3> QED BY <3>1, CellsWrap, Zenon
  <2> QED BY <1>5, <2>1, Zenon
<1>11. Ready' = Tail(Ready) /\ Ready # <<>>
  BY <1>3, <1>4, <1>8, <1>9, <1>10, CellsTail, Zenon
<1>12. InputOK'
  BY <1>3, <1>7, Zenon DEF InputOK
<1> QED BY <1>8, <1>9, <1>11, <1>12, Zenon DEF Line!Take

(* The place the next character goes to is none of those in use.           *)
LEMMA NewPlace ==
  ASSUME NEW m \in Nat, NEW n \in Nat, InputOf(m, n), m + n < INPUT_BUF_SIZE, NEW k \in Stored
  PROVE  /\ Put(k) \in [0..(INPUT_BUF_SIZE - 1) -> Stored]
         /\ \A j \in 1..(m + n) : Put(k)[Spot(r + j - 1)] = buf[Spot(r + j - 1)]
         /\ Put(k)[Spot(r + (m + n))] = k
<1>1. /\ m + n \in 0..INPUT_BUF_SIZE /\ r \in 0..(WORD - 1) /\ e \in 0..(WORD - 1) /\ e = Fwd(r, m + n)
      /\ buf \in [0..(INPUT_BUF_SIZE - 1) -> Stored]
  BY Indices, Zenon
<1>2. Spot(e) = Spot(r + (m + n))
  <2>1. e + 0 = e /\ r + (m + n) + 0 = r + (m + n) /\ 0 \in 0..INPUT_BUF_SIZE
    BY <1>1, Sizes
  <2>2. Spot(Fwd(r, m + n) + 0) = Spot(r + (m + n) + 0)
    BY <1>1, <2>1, SpotFwd, Zenon
  <2> QED BY <1>1, <2>1, <2>2, Zenon
<1>3. PICK y \in 0..(INPUT_BUF_SIZE - 1) : y = Spot(e)
  <2>1. e \in Nat
    BY <1>1
  <2> QED BY <2>1, SpotType, Zenon
<1>4. Put(k) = [buf EXCEPT ![y] = k]
  BY <1>3, Zenon DEF Spot, Put
<1>5. ASSUME NEW j \in 1..(m + n)
      PROVE  Put(k)[Spot(r + j - 1)] = buf[Spot(r + j - 1)]
  <2>1. PICK a \in Nat, b \in Nat : a = r + j - 1 /\ b = r + (m + n) /\ a < b /\ b < a + INPUT_BUF_SIZE
    BY <1>1, Sizes
  <2>2. Spot(a) # Spot(b) /\ Spot(a) \in 0..(INPUT_BUF_SIZE - 1)
    BY <2>1, SpotApart, SpotType, Zenon
  <2>3. Spot(r + j - 1) # y /\ Spot(r + j - 1) \in 0..(INPUT_BUF_SIZE - 1)
    BY <1>2, <1>3, <2>1, <2>2, Zenon
  <2> QED BY <1>1, <1>4, <2>3, Zenon
<1>6. Put(k) \in [0..(INPUT_BUF_SIZE - 1) -> Stored] /\ Put(k)[y] = k
  BY <1>1, <1>4, Zenon
<1> QED BY <1>2, <1>3, <1>5, <1>6, Zenon

(* What the lines are with that character.                                 *)
LEMMA LineGrows ==
  ASSUME NEW m \in Nat, NEW n \in Nat, InputOf(m, n), m + n < INPUT_BUF_SIZE, NEW k \in Stored
  PROVE  /\ Cells(Put(k), r, m) = Ready /\ Cells(Put(k), r + m, n + 1) = Append(Edited, k)
         /\ Cells(Put(k), r, m + (n + 1)) = Ready \o Append(Edited, k)
<1>0. PICK C : C = Put(k)
  BY Zenon
<1>1. /\ C \in [0..(INPUT_BUF_SIZE - 1) -> Stored]
      /\ \A j \in 1..(m + n) : C[Spot(r + j - 1)] = buf[Spot(r + j - 1)]
      /\ C[Spot(r + (m + n))] = k
  <2>1. C \in [0..(INPUT_BUF_SIZE - 1) -> Stored]
    BY <1>0, NewPlace, Zenon
  <2>2. \A j \in 1..(m + n) : C[Spot(r + j - 1)] = buf[Spot(r + j - 1)]
    BY <1>0, NewPlace, Zenon
  <2>3. C[Spot(r + (m + n))] = k
    BY <1>0, NewPlace, Zenon
  <2> QED BY <2>1, <2>2, <2>3, Zenon
<1>2. Ready = Cells(buf, r, m) /\ Edited = Cells(buf, r + m, n)
  BY ReadyIs, Zenon
<1>3. r \in Nat /\ r + m \in Nat /\ n + 1 \in Nat /\ r + m + n = r + (m + n)
  <2>1. r \in 0..(WORD - 1) /\ WORD \in Nat
    BY Indices, Sizes, Zenon
  <2> QED BY <2>1
<1>4. Cells(C, r, m) = Cells(buf, r, m)
  <2>1. \A j \in 1..m : j \in 1..(m + n)
    OBVIOUS
  <2> QED BY <1>1, <2>1, Zenon DEF Cells
<1>5. Cells(C, r + m, n) = Cells(buf, r + m, n)
  <2>1. ASSUME NEW j \in 1..n PROVE C[Spot(r + m + j - 1)] = buf[Spot(r + m + j - 1)]
    <3>1. m + j \in 1..(m + n) /\ r + (m + j) - 1 = r + m + j - 1
      BY <1>3
    <3> QED BY <1>1, <3>1, Zenon
  <2> QED BY <2>1, Zenon DEF Cells
<1>6. Cells(C, r + m, n + 1) = Append(Cells(C, r + m, n), k)
  <2>1. C[Spot(r + m + n)] = k
    BY <1>1, <1>3, Zenon
  <2> QED BY <1>1, <1>3, <2>1, CellsAppend, Zenon
<1>7. Cells(C, r, m + (n + 1)) = Cells(C, r, m) \o Cells(C, r + m, n + 1)
  <2>1. C \in [0..(INPUT_BUF_SIZE - 1) -> Stored] /\ r \in Nat /\ n + 1 \in Nat
    BY <1>1, <1>3, Zenon
  <2>2. PICK q \in Nat : q = n + 1
    BY <2>1, Zenon
  <2>3. Cells(C, r, m + q) = Cells(C, r, m) \o Cells(C, r + m, q)
    BY <2>1, CellsJoin, Zenon
  <2> QED BY <2>2, <2>3, Zenon
<1> QED BY <1>0, <1>2, <1>4, <1>5, <1>6, <1>7, Zenon

(* consoleintr() stores a character: the line grows, and is ready when the *)
(* character ends it.                                                      *)
LEMMA StoreTypes ==
  ASSUME InputOK, NEW k \in Stored, Size < INPUT_BUF_SIZE,
         buf' = Put(k), e' = (e + 1) % WORD, r' = r,
         w' = IF k \in {"nl", "D"} \/ Size + 1 = INPUT_BUF_SIZE THEN e' ELSE w
  PROVE  InputOK' /\ Line!Type(k)
<1>1. PICK m \in Nat, n \in Nat : InputOf(m, n)
  BY Zenon DEF InputOK
<1>2. /\ Size = m + n /\ Len(Ready) = m /\ Len(Edited) = n
      /\ Ready = Cells(buf, r, m) /\ Edited = Cells(buf, r + m, n)
  BY <1>1, LengthsAre, ReadyIs, Zenon
<1>3. /\ m \in 0..INPUT_BUF_SIZE /\ n \in 0..INPUT_BUF_SIZE /\ m + n \in 0..INPUT_BUF_SIZE
      /\ r \in 0..(WORD - 1) /\ w \in 0..(WORD - 1) /\ e \in 0..(WORD - 1)
      /\ w = Fwd(r, m) /\ e = Fwd(w, n) /\ e = Fwd(r, m + n)
  BY <1>1, Indices, Zenon
<1>4. /\ m + n < INPUT_BUF_SIZE /\ n + 1 \in Nat /\ n + 1 \in 0..INPUT_BUF_SIZE /\ 1 \in 0..INPUT_BUF_SIZE
      /\ n + 1 <= INPUT_BUF_SIZE /\ m + (n + 1) <= INPUT_BUF_SIZE /\ m + (n + 1) \in 0..INPUT_BUF_SIZE
      /\ m + (n + 1) \in Nat /\ 0 \in Nat /\ m + (n + 1) + 0 <= INPUT_BUF_SIZE /\ 0 \in 0..WORD
      /\ r \in Nat /\ r + m \in Nat /\ r + m + n = r + (m + n) /\ 1 \in 0..WORD
  BY <1>2, <1>3, Sizes
<1>5. buf' \in [0..(INPUT_BUF_SIZE - 1) -> Stored]
  BY <1>1, <1>4, NewPlace, Zenon
<1>6. e' = Fwd(w, n + 1) /\ e' \in 0..(WORD - 1) /\ e' = Fwd(r, m + (n + 1))
  <2>1. e' = Fwd(e, 1)
    BY Zenon DEF Fwd
  <2>2. e' \in 0..(WORD - 1)
    BY <1>3, <1>4, <2>1, FwdIs, Zenon
  <2>3. e' = Fwd(w, n + 1)
    <3>1. Fwd(Fwd(w, n), 1) = Fwd(w, n + 1)
      BY <1>3, <1>4, FwdFwd, Zenon
    <3> QED BY <1>3, <2>1, <3>1, Zenon
  <2>4. Fwd(Fwd(r, m), n + 1) = Fwd(r, m + (n + 1))
    BY <1>3, <1>4, FwdFwd, Zenon
  <2> QED BY <1>3, <2>2, <2>3, <2>4, Zenon
<1>7. /\ Cells(buf', r, m) = Ready /\ Cells(buf', r + m, n + 1) = Append(Edited, k)
      /\ Cells(buf', r, m + (n + 1)) = Ready \o Append(Edited, k)
  <2>1. m + n < INPUT_BUF_SIZE
    BY <1>4, Zenon
  <2>2. /\ Cells(Put(k), r, m) = Ready /\ Cells(Put(k), r + m, n + 1) = Append(Edited, k)
        /\ Cells(Put(k), r, m + (n + 1)) = Ready \o Append(Edited, k)
    BY <1>1, <2>1, LineGrows, Zenon
  <2> QED BY <2>2, Zenon
<1>9. Len(Ready) + Len(Edited) = Size
  BY <1>2, Zenon
<1>10. CASE ~(k \in {"nl", "D"} \/ Size + 1 = INPUT_BUF_SIZE)
  <2>1. w' = w
    BY <1>10, Zenon
  <2>2. InputOf(m, n + 1)'
    BY <1>3, <1>4, <1>5, <1>6, <2>1, Zenon DEF InputOf
  <2>3. Ready' = Ready /\ Edited' = Append(Edited, k)
    BY <1>4, <1>7, <2>2, ReadyIsNext, Zenon
  <2>4. InputOK'
    BY <1>4, <2>2, Zenon DEF InputOK
  <2> QED BY <1>9, <1>10, <2>3, <2>4, Zenon DEF Line!Type
<1>11. CASE k \in {"nl", "D"} \/ Size + 1 = INPUT_BUF_SIZE
  <2>1. w' = e'
    BY <1>11, Zenon
  <2>2. Fwd(w', 0) = w'
    <3>1. 0 \in 0..INPUT_BUF_SIZE
      BY Sizes
    <3> QED BY <1>6, <2>1, <3>1, GapFwd, Zenon
  <2>3. InputOf(m + (n + 1), 0)'
    BY <1>3, <1>4, <1>5, <1>6, <2>1, <2>2, Zenon DEF InputOf
  <2>4. Ready' = Cells(buf', r, m + (n + 1)) /\ Edited' = Cells(buf', w', 0)
    BY <1>4, <2>3, ReadyIsNext, Zenon
  <2>5. Edited' = <<>>
    BY <2>4 DEF Cells
  <2>6. Ready' = Ready \o Append(Edited, k)
    BY <1>7, <2>4, Zenon
  <2>7. InputOK'
    BY <1>4, <2>3, Zenon DEF InputOK
  <2> QED BY <1>9, <1>11, <2>5, <2>6, <2>7, Zenon DEF Line!Type
<1> QED BY <1>10, <1>11, Zenon

(* What ^U erases, or what ^H does, is of the line being typed.            *)
LEMMA ErasedIs ==
  ASSUME LeastFact, NEW m \in Nat, NEW n \in Nat, InputOf(m, n), NEW k
  PROVE  Erased(k) \in 0..n
<1>1. (e + WORD - w) % WORD = n /\ (e = w <=> n = 0)
  BY LengthsAre, Zenon
<1>2. KillLength \in 0..n
  <2>1. PICK T : T = {x \in 0..n : x = n \/ At((e + WORD - (x + 1)) % WORD) = "nl"}
    BY Zenon
  <2>2. T \in SUBSET Nat /\ T # {}
    <3>1. n \in 0..n /\ 0..n \subseteq Nat
      OBVIOUS
    <3> QED BY <2>1, <3>1, Zenon
  <2>3. PICK x \in T : \A y \in T : x <= y
    BY <2>2, Zenon DEF LeastFact
  <2>4. x \in 0..n /\ (x = n \/ At((e + WORD - (x + 1)) % WORD) = "nl")
    BY <2>1, Zenon
  <2>5. ASSUME NEW j \in 1..x PROVE At((e + WORD - j) % WORD) # "nl"
    <3>1. PICK y \in Nat : y + 1 = j /\ y \in 0..n /\ ~(x <= y)
      <4>1. j - 1 \in Nat /\ (j - 1) + 1 = j /\ j - 1 \in 0..n /\ ~(x <= j - 1)
        BY <2>4
      <4> QED BY <4>1, Zenon
    <3>2. y \notin T
      BY <2>3, <3>1, Zenon
    <3> QED BY <2>1, <3>1, <3>2, Zenon
  <2>6. \E z \in 0..n : /\ \A j \in 1..z : At((e + WORD - j) % WORD) # "nl"
                        /\ z = n \/ At((e + WORD - (z + 1)) % WORD) = "nl"
    BY <2>4, <2>5, Zenon
  <2>7. KillLength = CHOOSE z \in 0..n : /\ \A j \in 1..z : At((e + WORD - j) % WORD) # "nl"
                                         /\ z = n \/ At((e + WORD - (z + 1)) % WORD) = "nl"
    BY <1>1, Zenon DEF KillLength
  <2> QED BY <2>6, <2>7, Zenon
<1>3. 0 \in 0..n /\ (n # 0 => 1 \in 0..n)
  OBVIOUS
<1> QED BY <1>1, <1>2, <1>3, Zenon DEF Erased

(* consoleintr() erases characters, or leaves the line as it is.           *)
LEMMA StoreErases ==
  ASSUME LeastFact, InputOK, NEW k, e' = (e + WORD - Erased(k)) % WORD, UNCHANGED <<buf, r, w>>
  PROVE  InputOK' /\ [Line!Next]_<<Ready, Edited>>
<1>1. PICK m \in Nat, n \in Nat : InputOf(m, n)
  BY Zenon DEF InputOK
<1>2. PICK x \in 0..n : x = Erased(k)
  BY <1>1, ErasedIs, Zenon
<1>3. /\ n \in 0..INPUT_BUF_SIZE /\ m + n \in 0..INPUT_BUF_SIZE /\ r \in 0..(WORD - 1) /\ w \in 0..(WORD - 1)
      /\ w = Fwd(r, m) /\ e = Fwd(w, n) /\ buf \in [0..(INPUT_BUF_SIZE - 1) -> Stored]
  BY <1>1, Indices, Zenon
<1>4. n - x \in Nat /\ m + (n - x) <= INPUT_BUF_SIZE /\ w \in Nat /\ (x # 0 => x \in 1..n) /\ (x = 0 => n - x = n)
  <2>1. INPUT_BUF_SIZE \in Nat /\ WORD \in Nat
    BY Sizes
  <2>2. m + n \in 0..INPUT_BUF_SIZE /\ w \in 0..(WORD - 1)
    BY <1>3, Zenon
  <2> QED BY <2>1, <2>2
<1>5. e' = Fwd(w, n - x)
  <2>1. e' = Gap(x, e)
    BY <1>2, Zenon DEF Gap
  <2> QED BY <1>3, <2>1, FwdBack, Zenon
<1>6. InputOf(m, n - x)'
  BY <1>3, <1>4, <1>5, Zenon DEF InputOf
<1>7. Ready = Cells(buf, r, m) /\ Edited = Cells(buf, w, n) /\ Len(Edited) = n
  BY <1>1, ReadyIs, LengthsAre, Zenon
<1>8. Ready' = Cells(buf, r, m) /\ Edited' = Cells(buf, w, n - x)
  BY <1>4, <1>6, ReadyIsNext, Zenon
<1>9. InputOK'
  BY <1>4, <1>6, Zenon DEF InputOK
<1>10. CASE x = 0
  BY <1>4, <1>7, <1>8, <1>9, <1>10, Zenon
<1>11. CASE x # 0
  <2>1. Edited' = SubSeq(Edited, 1, Len(Edited) - x) /\ Ready' = Ready /\ x \in 1..Len(Edited)
    BY <1>3, <1>4, <1>7, <1>8, <1>11, CellsSub, Zenon
  <2> QED BY <1>9, <2>1, Zenon DEF Line!Next, Line!Erase
<1> QED BY <1>10, <1>11, Zenon

(* A step that leaves struct cons alone.                                   *)
LEMMA InputSame ==
  ASSUME InputOK, UNCHANGED cons PROVE InputOK' /\ UNCHANGED <<Ready, Edited>>
BY DEF InputOK, InputOf, cons, Ready, Edited, Slice, At

(* Every step is one of Tty or is not seen there.                          *)
LEMMA InputStep ==
  ASSUME LeastFact, InputOK, [Next]_vars
  PROVE  InputOK' /\ [Line!Next]_<<Ready, Edited>>
<1>1. CASE UNCHANGED cons
  BY <1>1, InputSame
<1>2. CASE ~Empty /\ r' = (r + 1) % WORD /\ UNCHANGED <<buf, w, e>>
  BY <1>2, ReadTakes DEF Line!Next
<1>3. ASSUME NEW c \in CPU, ConsoleintrStore(c) PROVE InputOK' /\ [Line!Next]_<<Ready, Edited>>
  <2>1. CASE Fits(key[c])
    <3>1. /\ key[c] \in Stored /\ Size < INPUT_BUF_SIZE /\ r' = r
          /\ buf' = Put(key[c]) /\ e' = (e + 1) % WORD
          /\ w' = IF key[c] \in {"nl", "D"} \/ Size + 1 = INPUT_BUF_SIZE THEN e' ELSE w
      BY <1>3, <2>1, Zenon DEF ConsoleintrStore, Fits, EndsLine, Put
    <3>2. InputOK' /\ Line!Type(key[c])
      BY <3>1, StoreTypes, Zenon
    <3> QED BY <3>1, <3>2, Zenon DEF Line!Next
  <2>2. CASE ~Fits(key[c])
    <3>1. e' = (e + WORD - Erased(key[c])) % WORD /\ UNCHANGED <<buf, r, w>>
      BY <1>3, <2>2, Zenon DEF ConsoleintrStore
    <3> QED BY <3>1, StoreErases, Zenon
  <2> QED BY <2>1, <2>2
<1>4. ASSUME NEW c \in CPU, ReadLoop(c)
      PROVE  \/ UNCHANGED cons
             \/ ~Empty /\ r' = (r + 1) % WORD /\ UNCHANGED <<buf, w, e>>
  BY <1>4, Zenon DEF ReadLoop, ReadChar, AfterEof, cons
<1>5. ASSUME NEW x \in Ctx, Common(x) PROVE UNCHANGED cons
  BY <1>5, Zenon DEF Common, Acquire, Uartstart, StartTHR, SyncWait, SyncTHR, PrintDone
<1>6. ASSUME NEW c \in CPU, Calls(c) \/ ReadSleep(c) \/ Woken(c) \/ WriteMore(c) \/ Uartputc(c) \/ Interrupt(c)
                             \/ Uartintr(c) \/ ConsoleintrEcho(c) \/ Kill(c)
      PROVE  UNCHANGED cons
  BY <1>6, Zenon DEF Calls, Read, Write, Printf, ReadSleep, Woken, WriteMore, Uartputc, Interrupt, Uartintr,
     ConsoleintrEcho, Kill
<1>7. CASE Send \/ Press
  BY <1>1, <1>7, Zenon DEF Send, Press
<1>8. CASE UNCHANGED vars
  BY <1>1, <1>8, Zenon DEF vars
<1>9. \A c \in CPU : P(c) \in Ctx /\ I(c) \in Ctx
  BY Zenon DEF P, I, Ctx
<1> QED BY <1>1, <1>2, <1>3, <1>4, <1>5, <1>6, <1>7, <1>8, <1>9, ConsoleAssumption, Zenon
        DEF Next, ProcStep, IntrStep

(* The indices at first.                                                   *)
LEMMA InputInit ==
  ASSUME Init PROVE InputOK /\ Line!Init
<1>1. r \in 0..(WORD - 1) /\ w = r /\ e = r /\ buf \in [0..(INPUT_BUF_SIZE - 1) -> Stored]
  BY Sizes, Zenon DEF Init, Stored
<1>2. Fwd(r, 0) = r
  BY <1>1, FwdIs, Sizes
<1>3. InputOf(0, 0)
  BY <1>1, <1>2, Sizes DEF InputOf
<1>4. Ready = <<>> /\ Edited = <<>>
  BY <1>3, ReadyIs DEF Cells
<1> QED BY <1>3, <1>4 DEF InputOK, Line!Init

-----------------------------------------------------------------------------
INSTANCE FiniteSetTheorems
INSTANCE WellFoundedInduction

(* The least element of a set of numbers.                                  *)
LEMMA LeastIn ==
  ASSUME NEW S \in SUBSET Nat, S # {} PROVE \E x \in S : \A y \in S : x <= y
<1>1. PICK T : T = {0..x : x \in S}
  BY Zenon
<1>2. \A x \in Nat : 0..x \subseteq Nat /\ IsFiniteSet(0..x)
  BY FS_Interval
<1>3. T \subseteq FiniteSubsetsOf(Nat) /\ T # {}
  BY <1>1, <1>2, Zenon DEF FiniteSubsetsOf
<1>4. PICK U \in T : \A V \in T : ~(<<V, U>> \in StrictSubsetOrdering(Nat))
  BY <1>3, FS_StrictSubsetOrderingWellFounded, WFMin, Zenon
<1>5. PICK x \in S : U = 0..x
  BY <1>1, Zenon
<1>6. ASSUME NEW y \in S, y < x PROVE FALSE
  <2>1. 0..y \in T /\ 0..y \subseteq U /\ x \in U /\ x \notin 0..y
    BY <1>1, <1>5, <1>6
  <2>2. U \subseteq Nat
    BY <1>5
  <2> QED BY <2>1, <2>2, <1>4, Zenon DEF StrictSubsetOrdering
<1> QED BY <1>6

(* cons.buf with its three wrapping indices is a line editor: what is      *)
(* typed can be erased until its line is ended, an ended line is read      *)
(* once, in the order typed, and no later key press overwrites it.         *)
THEOREM ConsoleIsTty == Spec => IsTty
<1>0. LeastFact
  BY LeastIn, Zenon DEF LeastFact
<1>1. Init => InputOK /\ Line!Init
  BY InputInit
<1>2. InputOK /\ [Next]_vars => InputOK' /\ [Line!Next]_<<Ready, Edited>>
  BY <1>0, InputStep
<1>3. Spec => [][Line!Next]_<<Ready, Edited>>
  BY <1>1, <1>2, PTL DEF Spec
<1>4. Spec => Line!Init
  BY <1>1 DEF Spec
<1> QED BY <1>3, <1>4, PTL DEF IsTty, Line!Spec
=============================================================================
