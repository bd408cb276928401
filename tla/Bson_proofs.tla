----------------------------- MODULE Bson_proofs -----------------------------
(***************************************************************************)
(* Theorems about the modules of Bson, for all keys and values, all widths *)
(* of the counter, every set of threads and any depth of nesting.          *)
(***************************************************************************)
EXTENDS Bson, Integers, CommonTheorems, FiniteSetTheorems, SequenceTheorems, TLAPS

-----------------------------------------------------------------------------
(* Arithmetic *)

\* Division with remainder.
LEMMA Division ==
  ASSUME NEW x \in Nat, NEW m \in Nat \ {0}
  PROVE  /\ x \div m \in Int /\ x % m \in 0 .. m - 1
         /\ x = m * (x \div m) + (x % m)
  BY SMT

\* A remainder is the only number in its range.
LEMMA RemainderUnique ==
  ASSUME NEW m \in Nat \ {0}, NEW q \in Int, NEW r \in 0 .. m - 1,
         NEW k \in Int, NEW s \in 0 .. m - 1, q * m + r = k * m + s
  PROVE  r = s
  BY SMT

\* Numbers that differ by a multiple have the same remainder, and only those.
LEMMA RemainderShift ==
  ASSUME NEW x \in Nat, NEW y \in Nat, NEW m \in Nat \ {0}, NEW k \in Int, x = y + k * m
  PROVE  x % m = y % m
<1> DEFINE a == x \div m
           r == x % m
           b == y \div m
           s == y % m
<1>1. /\ a \in Int /\ r \in 0 .. m - 1 /\ x = m * a + r
      /\ b \in Int /\ s \in 0 .. m - 1 /\ y = m * b + s
  BY Division
<1> HIDE DEF a, r, b, s
<1>2. b + k \in Int /\ a * m + r = (b + k) * m + s
  BY <1>1
<1>3. r = s
  BY <1>1, <1>2, RemainderUnique
<1> QED BY <1>3 DEF r, s

LEMMA RemainderSame ==
  ASSUME NEW x \in Nat, NEW y \in Nat, NEW m \in Nat \ {0}, x % m = y % m
  PROVE  \E k \in Int : x = y + k * m
<1> DEFINE a == x \div m
           r == x % m
           b == y \div m
<1>1. /\ a \in Int /\ r \in 0 .. m - 1 /\ x = m * a + r
      /\ b \in Int /\ y = m * b + r
  BY Division
<1> HIDE DEF a, r, b
<1>2. a - b \in Int /\ x = y + (a - b) * m
  BY <1>1
<1> QED BY <1>2

LEMMA RemainderNext ==
  ASSUME NEW x \in Nat, NEW y \in Nat, NEW m \in Nat \ {0}, x % m = y % m
  PROVE  (x + 1) % m = (y + 1) % m
<1>1. PICK k \in Int : x = y + k * m
  BY RemainderSame
<1> DEFINE a == x + 1
           b == y + 1
<1>2. a \in Nat /\ b \in Nat /\ a = b + k * m
  BY <1>1
<1> HIDE DEF a, b
<1>3. a % m = b % m
  BY <1>2, RemainderShift, ZenonT(60)
<1> QED BY <1>3 DEF a, b

LEMMA RemainderAround ==
  ASSUME NEW x \in Nat, NEW m \in Nat \ {0}
  PROVE  (x + m) % m = x % m
<1> DEFINE a == x + m
<1>1. PICK k \in Int : k = 1 /\ a = x + k * m
  OBVIOUS
<1> HIDE DEF a
<1>2. a \in Nat
  BY <1>1 DEF a
<1>3. a % m = x % m
  BY <1>1, <1>2, RemainderShift
<1> QED BY <1>3 DEF a

LEMMA RemainderApart ==
  ASSUME NEW x \in Nat, NEW y \in Nat, NEW m \in Nat \ {0}, x < y, x % m = y % m
  PROVE  y - x >= m
<1>1. PICK k \in Int : y = x + k * m
  BY RemainderSame
<1>2. k >= 1
  BY <1>1
<1>3. k * m >= m
  BY <1>2
<1> QED BY <1>1, <1>3

\* A remainder of a remainder, where one divisor divides the other.
LEMMA RemainderTwice ==
  ASSUME NEW x \in Nat, NEW m \in Nat \ {0}, NEW word \in Nat \ {0},
         NEW w \in Int, word = w * m
  PROVE  x % word \in Nat /\ (x % word) % m = x % m
<1> DEFINE q == x \div word
           r == x % word
<1>1. q \in Int /\ r \in 0 .. word - 1 /\ x = word * q + r
  BY Division
<1> HIDE DEF q, r
<1>2. w * q \in Int /\ r \in Nat /\ x = r + (w * q) * m
  BY <1>1
<1>3. x % m = r % m
  BY <1>2, RemainderShift
<1> QED BY <1>2, <1>3 DEF r

-----------------------------------------------------------------------------
(* ObjectIdCounter *)

IdTypes ==
  /\ counter \in Nat
  /\ recent \in Seq(Nat)

\* The ids show one number after the other, up to multiples of M, but for the 0
\* of a reset; the counter is at the next one.
InARow ==
  \E s \in Nat :
    /\ counter % M = (s + Len(recent) + 1) % M
    /\ \A i \in 1 .. Len(recent) : recent[i] = (s + i) % M \/ (i = 1 /\ recent[1] = 0)

IdInv == IdTypes /\ InARow

LEMMA Widths ==
  /\ M \in Nat \ {0} /\ M - 2 \in Nat
  /\ Word \in Nat \ {0} /\ \E w \in Int : Word = w * M
<1>1. M \in Nat /\ M > 1 /\ Word \in Nat /\ Word % M = 0 /\ Word >= M
  BY BsonAssumption DEF Ids!WidthAssumption
<1>2. Word \div M \in Int /\ Word = M * (Word \div M) + (Word % M)
  BY <1>1, Division
<1>3. Word = (Word \div M) * M
  BY <1>1, <1>2
<1> QED BY <1>1, <1>2, <1>3

\* The word is a multiple of what an id shows, so that its overflow is not seen.
LEMMA WordIsNotSeen == ASSUME NEW x \in Nat PROVE x % Word \in Nat /\ (x % Word) % M = x % M
  BY Widths, RemainderTwice

LEMMA IdStep == ASSUME IdInv, [Ids!Next]_(Ids!vars) PROVE IdInv'
<1> USE DEF IdInv, IdTypes, InARow
<1>1. PICK s \in Nat :
        /\ counter % M = (s + Len(recent) + 1) % M
        /\ \A i \in 1 .. Len(recent) : recent[i] = (s + i) % M \/ (i = 1 /\ recent[1] = 0)
  OBVIOUS
<1>2. CASE UNCHANGED <<counter, recent>>
  BY <1>2
<1>3. ASSUME NEW t \in Threads, Ids!Reset(t) PROVE IdInv'
  <2>1. counter' = 0 /\ recent' = <<0>>
    BY <1>3 DEF Ids!Reset
  <2>2. (0 + M) % M = 0 % M /\ 0 + M = M
    BY Widths, RemainderAround
  <2>3. M - 2 \in Nat /\ (M - 2) + 1 + 1 = M
    BY Widths
  <2> QED BY <2>1, <2>2, <2>3
<1>4. ASSUME NEW t \in Threads, Ids!Add(t) PROVE IdInv'
  <2> DEFINE n == Len(recent)
             next_ == s + n + 1
  <2>1. counter' = (counter + 1) % Word /\ recent' = Append(recent, counter % M) /\ n \in Nat
    BY <1>4 DEF Ids!Add
  <2>2. counter % M \in Nat
    BY Widths, Division
  <2>3. /\ recent' \in Seq(Nat) /\ Len(recent') = n + 1
        /\ \A i \in 1 .. n : recent'[i] = recent[i]
        /\ recent'[n + 1] = next_ % M
    BY <1>1, <2>1, <2>2
  <2>4. counter' \in Nat /\ counter' % M = (counter + 1) % M
    BY <2>1, WordIsNotSeen
  <2>5. (counter + 1) % M = (next_ + 1) % M
    <3>1. next_ \in Nat /\ counter \in Nat /\ counter % M = next_ % M
      BY <1>1, <2>1
    <3> QED BY <3>1, Widths, RemainderNext
  <2>6. \A i \in 1 .. n + 1 : recent'[i] = (s + i) % M \/ (i = 1 /\ recent'[1] = 0)
    <3>1. ASSUME NEW i \in 1 .. n
          PROVE  recent'[i] = (s + i) % M \/ (i = 1 /\ recent'[1] = 0)
      BY <1>1, <2>1, <2>3
    <3>2. recent'[n + 1] = (s + (n + 1)) % M
      BY <2>1, <2>3
    <3>3. \A i \in 1 .. n + 1 : i \in 1 .. n \/ i = n + 1
      BY <2>1
    <3> QED BY <3>1, <3>2, <3>3
  <2>7. counter' % M = (s + (n + 1) + 1) % M
    BY <2>1, <2>4, <2>5
  <2> QED BY <2>3, <2>4, <2>6, <2>7
<1>5. ASSUME NEW t \in Threads, Ids!Load(t) PROVE UNCHANGED <<counter, recent>>
  BY <1>5 DEF Ids!Load
<1> QED BY <1>2, <1>3, <1>4, <1>5 DEF Ids!Next, Ids!vars

\* Of M ids created in a row no two show the same, but for the 0 of a reset.
THEOREM IdsAreDistinct == Spec => []DistinctInARow
<1>1. Init => IdInv
  <2> SUFFICES ASSUME Init PROVE IdInv
    OBVIOUS
  <2>1. counter \in 0 .. M - 1 /\ recent = <<>>
    BY DEF Init, Ids!Init
  <2>2. M \in Nat \ {0} /\ M - 2 \in Nat /\ counter \in Nat
    BY <2>1, Widths
  <2> DEFINE s == counter + (M - 2) + 1
  <2>3. s \in Nat /\ s + 0 + 1 = counter + M
    BY <2>2
  <2>4. <<>> \in Seq(Nat) /\ Len(<<>>) = 0
    BY EmptySeq
  <2> HIDE DEF s
  <2>5. (counter + M) % M = counter % M
    BY <2>2, RemainderAround
  <2>6. Len(recent) = 0 /\ counter % M = (s + Len(recent) + 1) % M
    BY <2>1, <2>3, <2>4, <2>5
  <2>7. 1 .. Len(recent) = {}
    BY <2>6
  <2> QED BY <2>1, <2>2, <2>3, <2>4, <2>6, <2>7 DEF IdInv, IdTypes, InARow
<1>2. IdInv /\ [Next]_vars => IdInv'
  BY IdStep DEF Next, vars, ids, Ids!vars
<1>3. IdInv => DistinctInARow
  <2> SUFFICES ASSUME IdInv, NEW i \in DOMAIN recent, NEW j \in DOMAIN recent,
                      i < j, j - i < M, recent[i] = recent[j]
               PROVE  i = 1 /\ recent[1] = 0
    BY DEF DistinctInARow, Ids!DistinctInARow
  <2>1. PICK s \in Nat :
          \A k \in 1 .. Len(recent) : recent[k] = (s + k) % M \/ (k = 1 /\ recent[1] = 0)
    BY DEF IdInv, InARow
  <2>2. DOMAIN recent = 1 .. Len(recent) /\ Len(recent) \in Nat
    BY DEF IdInv, IdTypes
  <2>3. recent[j] = (s + j) % M
    BY <2>1, <2>2
  <2>4. SUFFICES ASSUME (s + i) % M = (s + j) % M PROVE FALSE
    BY <2>1, <2>2, <2>3
  <2>5. s + i \in Nat /\ s + j \in Nat /\ s + i < s + j
    BY <2>2
  <2>6. (s + j) - (s + i) >= M
    BY <2>4, <2>5, Widths, RemainderApart
  <2> QED BY <2>2, <2>6, Widths
<1> QED BY <1>1, <1>2, <1>3, PTL DEF Spec

-----------------------------------------------------------------------------
(* Reading *)

Cells == Seq(Nat)

LEMMA NulFromFacts ==
  ASSUME NEW c \in Cells, NEW i \in Nat \ {0}, NulFrom(c, i) # 0
  PROVE  NulFrom(c, i) \in i .. Len(c) /\ c[NulFrom(c, i)] = NUL
<1> DEFINE at == {j \in i .. Len(c) : c[j] = NUL}
<1>1. at # {} /\ NulFrom(c, i) = CHOOSE j \in at : \A k \in at : j <= k
  BY DEF NulFrom
<1>2. at \in SUBSET Nat
  BY DEF Cells
<1>3. \E j \in at : \A k \in at : j <= k
  <2> HIDE DEF at
  <2> QED BY <1>1, <1>2, Least
<1>4. NulFrom(c, i) \in at
  <2> HIDE DEF at
  <2> QED BY <1>1, <1>3
<1> QED BY <1>4

\* A key of one cell.
LEMMA NulAfterKey ==
  ASSUME NEW c \in Cells, NEW i \in Nat \ {0}, i + 1 <= Len(c), c[i] # NUL, c[i + 1] = NUL
  PROVE  NulFrom(c, i) = i + 1
<1> DEFINE at == {j \in i .. Len(c) : c[j] = NUL}
<1>1. i + 1 \in at /\ \A k \in at : k # i /\ k \in Nat /\ k >= i
  BY DEF Cells
<1>2. \A k \in at : i + 1 <= k
  BY <1>1
<1>3. NulFrom(c, i) = CHOOSE j \in at : \A k \in at : j <= k
  BY <1>1 DEF NulFrom
<1>4. \A j \in at : (\A k \in at : j <= k) => j = i + 1
  BY <1>1, <1>2
<1> HIDE DEF at
<1> QED BY <1>1, <1>2, <1>3, <1>4

LEMMA SizeFacts ==
  ASSUME NEW c \in Cells, NEW i \in Nat \ {0}, NEW id, Readable(id, c, i)
  PROVE  ValueSize(id, c, i) \in Nat /\ i + ValueSize(id, c, i) <= Len(c) + 1
<1> USE DEF F64, Str, Doc, Array, Binary, ObjectId, Bool, DateTime, Null, Regex, JavaScript,
            JavaScriptWithScope, I32, Timestamp, I64, F128
<1>0. Len(c) \in Nat
  BY DEF Cells
<1>1. CASE id \in DOMAIN FixedSize
  <2>1. ValueSize(id, c, i) = FixedSize[id]
    BY <1>1 DEF ValueSize, FixedSize
  <2>2. FixedSize[id] \in {0, 1}
    BY <1>1 DEF FixedSize
  <2> QED BY <1>0, <2>1, <2>2 DEF Readable
<1>2. CASE id \in {Str, Doc, Array, Binary, JavaScript, JavaScriptWithScope}
  <2>1. id \notin DOMAIN FixedSize /\ id # Null /\ id # Regex
    BY <1>2 DEF FixedSize
  <2>2. c[i] \in Nat
    BY <2>1 DEF Readable, Cells
  <2>3. ValueSize(id, c, i) \in {2 + c[i], 1 + c[i], c[i]}
    BY <1>2, <2>1 DEF ValueSize
  <2> QED BY <1>0, <2>2, <2>3 DEF Readable
<1>3. CASE id = Regex
  <2>1. id \notin DOMAIN FixedSize
    BY <1>3 DEF FixedSize
  <2> DEFINE n == NulFrom(c, i)
             m == NulFrom(c, n + 1)
  <2>2. n # 0 /\ m # 0
    BY <1>3 DEF Readable
  <2>3. n \in i .. Len(c)
    BY <2>2, NulFromFacts
  <2>4. m \in n + 1 .. Len(c)
    BY <2>2, <2>3, NulFromFacts
  <2>5. ValueSize(id, c, i) = m - i
    BY <1>3, <2>1 DEF ValueSize
  <2> HIDE DEF n, m
  <2> QED BY <1>0, <2>3, <2>4, <2>5 DEF Readable
<1> QED BY <1>1, <1>2, <1>3 DEF Readable

-----------------------------------------------------------------------------
(* Iterate *)

\* What the iterator does at i, and where it goes on from what it was given.
Good(c, i) == NulFrom(c, i + 1) = i + 2 /\ Readable(c[i], c, i + 3)

After(c, i) == i + 3 + ValueSize(c[i], c, i + 3)

\* An element all of whose cells are its own: of a regular expression one is not.
Proper(c, i) ==
  /\ i <= Len(c) /\ c[i] # NUL /\ c[i] # Regex /\ Good(c, i)
  /\ c[i] # Null => After(c, i) > i + 3

ElementAt(c, i) ==
  [key |-> c[i + 1], id |-> c[i], cells |-> SubSeq(c, i + 3, i + 2 + ValueSize(c[i], c, i + 3))]

Walked(c, i, rest) == [rest EXCEPT !.elements = <<ElementAt(c, i)>> \o @]

WalkBody(walk, cells, i) ==
  IF i > Len(cells) THEN Panic
  ELSE IF cells[i] = NUL THEN [ok |-> TRUE, elements |-> <<>>, stop |-> i]
  ELSE LET key == NulFrom(cells, i + 1)
           size == ValueSize(cells[i], cells, key + 1)
       IN  IF key # i + 2 \/ ~Readable(cells[i], cells, key + 1) THEN Panic
           ELSE LET rest == walk[key + 1 + size]
                IN  [rest EXCEPT !.elements =
                       <<[key |-> cells[i + 1], id |-> cells[i],
                          cells |-> SubSeq(cells, key + 1, key + size)]>> \o @]

Walk(cells, start) ==
  CHOOSE walk : walk = [i \in start .. Len(cells) + 1 |-> WalkBody(walk, cells, i)]

IsWalk(w, c, start) == w = [i \in start .. Len(c) + 1 |-> WalkBody(w, c, i)]

LEMMA IterateIsWalk == ASSUME NEW c, NEW start PROVE Iterate(c, start) = Walk(c, start)[start]
  BY Zenon DEF Iterate, Walk, WalkBody

LEMMA GoodFacts ==
  ASSUME NEW c \in Cells, NEW i \in 1 .. Len(c), Good(c, i)
  PROVE  ValueSize(c[i], c, i + 3) \in Nat /\ After(c, i) \in i + 3 .. Len(c) + 1
<1>1. Len(c) \in Nat /\ i + 3 \in Nat \ {0}
  BY DEF Cells
<1>2. ValueSize(c[i], c, i + 3) \in Nat /\ i + 3 + ValueSize(c[i], c, i + 3) <= Len(c) + 1
  BY <1>1, SizeFacts DEF Good
<1> QED BY <1>1, <1>2 DEF After

LEMMA BodyCases ==
  ASSUME NEW c \in Cells, NEW i \in 1 .. Len(c) + 1, NEW w
  PROVE  /\ i > Len(c) => WalkBody(w, c, i) = Panic
         /\ i <= Len(c) /\ c[i] = NUL => WalkBody(w, c, i) = [ok |-> TRUE, elements |-> <<>>, stop |-> i]
         /\ i <= Len(c) /\ c[i] # NUL /\ ~Good(c, i) => WalkBody(w, c, i) = Panic
         /\ i <= Len(c) /\ c[i] # NUL /\ Good(c, i) =>
              WalkBody(w, c, i) = Walked(c, i, w[After(c, i)])
<1>0. Len(c) \in Nat
  BY DEF Cells
<1>1. ASSUME i > Len(c) PROVE WalkBody(w, c, i) = Panic
  BY <1>1 DEF WalkBody
<1>2. ASSUME i <= Len(c), c[i] = NUL
      PROVE  WalkBody(w, c, i) = [ok |-> TRUE, elements |-> <<>>, stop |-> i]
  BY <1>0, <1>2 DEF WalkBody
<1>3. ASSUME i <= Len(c), c[i] # NUL
      PROVE  /\ ~Good(c, i) => WalkBody(w, c, i) = Panic
             /\ Good(c, i) => WalkBody(w, c, i) = Walked(c, i, w[After(c, i)])
  <2> DEFINE key == NulFrom(c, i + 1)
             sz == ValueSize(c[i], c, key + 1)
             rest == w[key + 1 + sz]
  <2>1. WalkBody(w, c, i) =
          IF key # i + 2 \/ ~Readable(c[i], c, key + 1) THEN Panic
          ELSE [rest EXCEPT !.elements =
                  <<[key |-> c[i + 1], id |-> c[i], cells |-> SubSeq(c, key + 1, key + sz)]>> \o @]
    BY <1>0, <1>3 DEF WalkBody
  <2>2. (i + 2) + 1 = i + 3
    BY <1>0
  <2>3. ASSUME ~Good(c, i) PROVE key # i + 2 \/ ~Readable(c[i], c, key + 1)
    BY <2>2, <2>3 DEF Good
  <2>4. ASSUME Good(c, i)
        PROVE  /\ key = i + 2 /\ key + 1 = i + 3 /\ Readable(c[i], c, key + 1)
               /\ key + 1 + sz = After(c, i) /\ key + sz = i + 2 + ValueSize(c[i], c, i + 3)
    BY <2>2, <2>4 DEF Good, After
  <2>5. ASSUME Good(c, i) PROVE WalkBody(w, c, i) = Walked(c, i, w[After(c, i)])
    <3> HIDE DEF key, sz
    <3> QED BY <2>1, <2>4, <2>5 DEF Walked, ElementAt, sz
  <2>6. ASSUME ~Good(c, i) PROVE WalkBody(w, c, i) = Panic
    <3> HIDE DEF key, sz
    <3> QED BY <2>1, <2>3, <2>6
  <2> QED BY <2>5, <2>6
<1> QED BY <1>0, <1>1, <1>2, <1>3

LEMMA WalkLocal ==
  ASSUME NEW c \in Cells, NEW i \in 1 .. Len(c) + 1, NEW f, NEW g,
         \A j \in i + 1 .. Len(c) + 1 : f[j] = g[j]
  PROVE  WalkBody(f, c, i) = WalkBody(g, c, i)
<1>0. Len(c) \in Nat
  BY DEF Cells
<1>1. CASE i <= Len(c) /\ c[i] # NUL /\ Good(c, i)
  <2>1. i \in 1 .. Len(c)
    BY <1>0, <1>1
  <2>2. After(c, i) \in i + 3 .. Len(c) + 1
    BY <1>1, <2>1, GoodFacts
  <2>3. f[After(c, i)] = g[After(c, i)]
    BY <1>0, <2>2
  <2> QED BY <1>1, <2>3, BodyCases
<1>2. CASE i > Len(c)
  BY <1>2, BodyCases
<1>3. CASE i <= Len(c) /\ c[i] = NUL
  BY <1>3, BodyCases
<1>4. CASE i <= Len(c) /\ c[i] # NUL /\ ~Good(c, i)
  BY <1>4, BodyCases
<1> QED BY <1>0, <1>1, <1>2, <1>3, <1>4

LEMMA WalkAt ==
  ASSUME NEW c, NEW start, NEW w, IsWalk(w, c, start), NEW i \in start .. Len(c) + 1
  PROVE  w[i] = WalkBody(w, c, i)
<1> DEFINE W(j) == WalkBody(w, c, j)
<1>1. w = [j \in start .. Len(c) + 1 |-> W(j)]
  BY DEF IsWalk
<1> HIDE DEF W
<1>2. w[i] = W(i)
  BY <1>1
<1> QED BY <1>2 DEF W

LEMMA WalkExists ==
  ASSUME NEW c \in Cells, NEW start \in 1 .. Len(c) + 1
  PROVE  IsWalk(Walk(c, start), c, start)
<1> DEFINE L == Len(c) + 1
           U == {k \in Nat : k < L => \E w : IsWalk(w, c, L - k)}
<1>0. L \in Nat /\ L >= 1
  BY DEF Cells
<1>1. 0 \in U
  <2> DEFINE w == [i \in L .. L |-> Panic]
  <2>1. w = [i \in L .. L |-> WalkBody(w, c, i)]
    <3>1. \A i \in L .. L : i \in 1 .. Len(c) + 1 /\ i > Len(c)
      BY <1>0
    <3> HIDE DEF L
    <3>2. \A i \in L .. L : WalkBody(w, c, i) = Panic
      BY <3>1, BodyCases
    <3> QED BY <3>2
  <2>2. L - 0 = L
    BY <1>0
  <2> HIDE DEF w
  <2>3. IsWalk(w, c, L)
    BY <2>1 DEF IsWalk
  <2> QED BY <2>2, <2>3
<1>2. ASSUME NEW k \in U PROVE k + 1 \in U
  <2> SUFFICES ASSUME k + 1 < L PROVE \E w : IsWalk(w, c, L - (k + 1))
    OBVIOUS
  <2> DEFINE a == L - k
             b == L - (k + 1)
  <2>1. PICK g : IsWalk(g, c, a)
    BY <1>0
  <2>2. a \in 1 .. L /\ b \in 1 .. L /\ a = b + 1
    BY <1>0
  <2> DEFINE w == [i \in b .. L |-> IF i = b THEN WalkBody(g, c, b) ELSE g[i]]
  <2> HIDE DEF a, b
  <2>3. \A i \in b .. L : i = b \/ i \in a .. L
    BY <1>0, <2>2
  <2>4. ASSUME NEW i \in a .. L PROVE w[i] = g[i] /\ g[i] = WalkBody(g, c, i)
    <3>1. i \in b .. L /\ i # b
      BY <1>0, <2>2
    <3>2. w[i] = g[i]
      BY <3>1
    <3> HIDE DEF w
    <3> QED BY <2>1, <3>2, WalkAt
  <2>5. w[b] = WalkBody(g, c, b)
    BY <1>0, <2>2
  <2>6. ASSUME NEW i \in b .. L PROVE w[i] = WalkBody(w, c, i)
    <3>1. i \in 1 .. Len(c) + 1 /\ \A j \in i + 1 .. Len(c) + 1 : j \in a .. L
      BY <1>0, <2>2
    <3>2. w[i] = WalkBody(g, c, i)
      BY <2>3, <2>4, <2>5
    <3>3. \A j \in i + 1 .. Len(c) + 1 : g[j] = w[j]
      BY <2>4, <3>1
    <3> HIDE DEF w
    <3> QED BY <3>1, <3>2, <3>3, WalkLocal
  <2>7. w = [i \in b .. L |-> WalkBody(w, c, i)]
    <3> DEFINE W(i) == WalkBody(w, c, i)
    <3>1. w = [i \in b .. L |-> w[i]]
      OBVIOUS
    <3>2. \A i \in b .. L : w[i] = W(i)
      BY <2>6
    <3> HIDE DEF w, W
    <3>3. w = [i \in b .. L |-> W(i)]
      BY <3>1, <3>2
    <3> QED BY <3>3 DEF W
  <2> QED BY <2>7 DEF IsWalk, b
<1>3. U = Nat
  <2>1. U \in SUBSET Nat
    OBVIOUS
  <2> HIDE DEF U
  <2> QED BY <1>1, <1>2, <2>1, Induction
<1>4. \E w : IsWalk(w, c, start)
  <2>1. L - start \in Nat /\ L - start < L /\ L - (L - start) = start
    BY <1>0
  <2>2. L - start \in U
    BY <1>3, <2>1
  <2>3. \E w : IsWalk(w, c, L - (L - start))
    BY <2>1, <2>2
  <2> QED BY <2>1, <2>3
<1> QED BY <1>4 DEF IsWalk, Walk

LEMMA WalkUnique ==
  ASSUME NEW c \in Cells, NEW a \in 1 .. Len(c) + 1, NEW b \in a .. Len(c) + 1,
         NEW f, NEW g, IsWalk(f, c, a), IsWalk(g, c, b)
  PROVE  \A i \in b .. Len(c) + 1 : f[i] = g[i]
<1> DEFINE L == Len(c) + 1
           U == {k \in Nat : \A i \in b .. L : i >= L - k => f[i] = g[i]}
<1>0. L \in Nat /\ L >= 1 /\ b \in 1 .. L /\ a <= b
  BY DEF Cells
<1>1. ASSUME NEW i \in b .. L, \A j \in i + 1 .. L : f[j] = g[j]
      PROVE  f[i] = g[i]
  <2>1. i \in 1 .. Len(c) + 1 /\ i \in a .. Len(c) + 1
    BY <1>0
  <2>2. WalkBody(f, c, i) = WalkBody(g, c, i)
    BY <1>1, <2>1, WalkLocal
  <2> QED BY <2>1, <2>2, WalkAt
<1>2. 0 \in U
  <2> SUFFICES ASSUME NEW i \in b .. L, i >= L - 0 PROVE f[i] = g[i]
    OBVIOUS
  <2>1. \A j \in i + 1 .. L : FALSE
    BY <1>0
  <2> QED BY <1>1, <2>1
<1>3. ASSUME NEW k \in U PROVE k + 1 \in U
  <2> SUFFICES ASSUME NEW i \in b .. L, i >= L - (k + 1) PROVE f[i] = g[i]
    OBVIOUS
  <2>1. \A j \in i + 1 .. L : j \in b .. L /\ j >= L - k
    BY <1>0
  <2>2. \A j \in i + 1 .. L : f[j] = g[j]
    BY <2>1
  <2> QED BY <1>1, <2>2
<1>4. U = Nat
  <2>1. U \in SUBSET Nat
    OBVIOUS
  <2> HIDE DEF U
  <2> QED BY <1>2, <1>3, <2>1, Induction
<1>5. L \in U /\ \A i \in b .. L : i >= L - L
  BY <1>0, <1>4
<1> QED BY <1>5

\* What the iterator yields from i on, by what it yields from the next element on.
LEMMA IterateUnfolds ==
  ASSUME NEW c \in Cells, NEW i \in 1 .. Len(c) + 1
  PROVE  /\ i > Len(c) => Iterate(c, i) = Panic
         /\ i <= Len(c) /\ c[i] = NUL =>
              Iterate(c, i) = [ok |-> TRUE, elements |-> <<>>, stop |-> i]
         /\ i <= Len(c) /\ c[i] # NUL /\ ~Good(c, i) => Iterate(c, i) = Panic
         /\ i <= Len(c) /\ c[i] # NUL /\ Good(c, i) =>
              Iterate(c, i) = Walked(c, i, Iterate(c, After(c, i)))
<1> DEFINE w == Walk(c, i)
<1>0. Len(c) \in Nat /\ i \in i .. Len(c) + 1
  BY DEF Cells
<1>1. IsWalk(w, c, i) /\ Iterate(c, i) = w[i]
  BY WalkExists, IterateIsWalk
<1> HIDE DEF w
<1>2. Iterate(c, i) = WalkBody(w, c, i)
  BY <1>0, <1>1, WalkAt
<1>3. ASSUME i <= Len(c), c[i] # NUL, Good(c, i)
      PROVE  w[After(c, i)] = Iterate(c, After(c, i))
  <2> DEFINE j == After(c, i)
             v == Walk(c, j)
  <2>1. i \in 1 .. Len(c)
    BY <1>0, <1>3
  <2>2. j \in i + 3 .. Len(c) + 1
    BY <1>3, <2>1, GoodFacts
  <2>3. j \in 1 .. Len(c) + 1 /\ j \in i .. Len(c) + 1 /\ j \in j .. Len(c) + 1
    BY <1>0, <2>2
  <2>4. IsWalk(v, c, j) /\ Iterate(c, j) = v[j]
    BY <2>3, WalkExists, IterateIsWalk
  <2> HIDE DEF j, v
  <2>5. w[j] = v[j]
    BY <1>1, <2>3, <2>4, WalkUnique
  <2> QED BY <2>4, <2>5 DEF j
<1> QED BY <1>2, <1>3, BodyCases

-----------------------------------------------------------------------------
(* What is read depends on the cells that are read, and not on where they are. *)

\* The cells of c from i to hi are those of d from j on.
Same(c, i, hi, d, j) ==
  /\ hi <= Len(c) /\ j + (hi - i) <= Len(d)
  /\ \A x \in i .. hi : d[j + (x - i)] = c[x]

LEMMA NulShift ==
  ASSUME NEW c \in Cells, NEW d \in Cells, NEW i \in Nat \ {0}, NEW j \in Nat \ {0}, NEW hi \in Nat,
         Same(c, i, hi, d, j), NulFrom(c, i) # 0, NulFrom(c, i) <= hi
  PROVE  NulFrom(d, j) = j + (NulFrom(c, i) - i)
<1> DEFINE n == NulFrom(c, i)
           m == j + (n - i)
           at(s, k) == {x \in k .. Len(s) : s[x] = NUL}
           Min(s, k) == CHOOSE x \in at(s, k) : \A y \in at(s, k) : x <= y
<1>0. Len(c) \in Nat /\ Len(d) \in Nat
  BY DEF Cells
<1>1. n = Min(c, i) /\ at(c, i) # {}
  BY DEF NulFrom
<1>2. at(c, i) \in SUBSET Nat
  BY <1>0
<1>3. n \in at(c, i) /\ \A y \in at(c, i) : n <= y
  <2>1. \E x \in at(c, i) : \A y \in at(c, i) : x <= y
    <3> HIDE DEF at
    <3> QED BY <1>1, <1>2, Least
  <2> HIDE DEF at, n
  <2> QED BY <1>1, <2>1
<1>4. n \in i .. hi /\ n <= Len(c) /\ c[n] = NUL
  BY <1>0, <1>3
<1>5. m \in at(d, j)
  <2>1. m \in j .. Len(d)
    BY <1>0, <1>4 DEF Same
  <2>2. d[m] = NUL
    BY <1>4 DEF Same
  <2> QED BY <2>1, <2>2
<1>6. ASSUME NEW y \in at(d, j), y < m PROVE FALSE
  <2> DEFINE x == i + (y - j)
  <2>1. x \in i .. hi /\ x < n /\ j + (x - i) = y /\ x \in i .. Len(c)
    BY <1>0, <1>4, <1>6
  <2>2. c[x] = d[y]
    BY <2>1 DEF Same
  <2>3. x \in at(c, i)
    BY <1>6, <2>1, <2>2
  <2> QED BY <1>0, <1>3, <1>4, <2>1, <2>3
<1>7. \A y \in at(d, j) : m <= y
  BY <1>0, <1>4, <1>6
<1>8. NulFrom(d, j) = Min(d, j)
  BY <1>5 DEF NulFrom
<1>9. \A x \in at(d, j) : (\A y \in at(d, j) : x <= y) => x = m
  BY <1>0, <1>5, <1>7
<1> HIDE DEF at, m
<1>10. Min(d, j) = m
  BY <1>5, <1>7, <1>9
<1> QED BY <1>8, <1>10 DEF m

LEMMA SizeShift ==
  ASSUME NEW c \in Cells, NEW d \in Cells, NEW i \in Nat \ {0}, NEW j \in Nat \ {0}, NEW hi \in Nat,
         NEW id, Readable(id, c, i), Same(c, i, hi, d, j),
         hi >= i + ValueSize(id, c, i) - 1, id # Null => hi >= i,
         id = Regex => hi >= i + ValueSize(id, c, i)
  PROVE  Readable(id, d, j) /\ ValueSize(id, d, j) = ValueSize(id, c, i)
<1> USE DEF F64, Str, Doc, Array, Binary, ObjectId, Bool, DateTime, Null, Regex, JavaScript,
            JavaScriptWithScope, I32, Timestamp, I64, F128
<1> DEFINE size == ValueSize(id, c, i)
<1>0. Len(c) \in Nat /\ Len(d) \in Nat /\ size \in Nat
  BY SizeFacts DEF Cells
<1>1. ASSUME ValueSize(id, d, j) = size, id # Regex
      PROVE  Readable(id, d, j)
  <2> HIDE DEF size
  <2>1. j + size - 1 <= Len(d) /\ (id # Null => j <= Len(d))
    BY <1>0 DEF Same, size
  <2> QED BY <1>1, <2>1 DEF Readable
<1>2. CASE id \in DOMAIN FixedSize
  <2>1. ValueSize(id, d, j) = size /\ id # Regex
    BY <1>2 DEF ValueSize, FixedSize
  <2> QED BY <1>1, <2>1
<1>3. CASE id \in {Str, Doc, Array, Binary, JavaScript, JavaScriptWithScope}
  <2>1. id \notin DOMAIN FixedSize /\ id # Null /\ id # Regex
    BY <1>3 DEF FixedSize
  <2>2. i \in i .. hi /\ j + (i - i) = j
    BY <2>1
  <2>3. d[j] = c[i]
    BY <2>2 DEF Same
  <2>4. ValueSize(id, d, j) = size
    BY <1>3, <2>1, <2>3 DEF ValueSize
  <2> QED BY <1>1, <2>1, <2>4
<1>4. CASE id = Regex
  <2>1. id \notin DOMAIN FixedSize
    BY <1>4 DEF FixedSize
  <2> DEFINE n == NulFrom(c, i)
             m == NulFrom(c, n + 1)
             k == j + (n - i)
  <2>2. n # 0 /\ m # 0
    BY <1>4 DEF Readable
  <2>3. n \in i .. Len(c)
    BY <2>2, NulFromFacts
  <2>4. m \in n + 1 .. Len(c) /\ n + 1 \in Nat \ {0}
    BY <2>2, <2>3, NulFromFacts
  <2>5. size = m - i /\ m <= hi
    <3>1. size = m - i
      BY <1>4, <2>1 DEF ValueSize
    <3> HIDE DEF size, m
    <3> QED BY <1>0, <1>4, <2>3, <2>4, <3>1 DEF size
  <2>6. NulFrom(d, j) = k
    <3>1. n <= hi
      BY <1>0, <2>3, <2>4, <2>5
    <3> QED BY <2>2, <3>1, NulShift
  <2>7. k \in Nat \ {0} /\ Same(c, n + 1, hi, d, k + 1)
    <3> HIDE DEF m
    <3>1. n \in Nat
      BY <1>0, <2>3
    <3> HIDE DEF n
    <3>2. \A x \in n + 1 .. hi : x \in i .. hi /\ j + (x - i) = (k + 1) + (x - (n + 1))
      BY <1>0, <2>3, <3>1
    <3> QED BY <1>0, <2>3, <3>1, <3>2 DEF Same
  <2>8. NulFrom(d, k + 1) = (k + 1) + (m - (n + 1))
    <3> HIDE DEF n, k
    <3>1. n + 1 \in Nat \ {0} /\ k + 1 \in Nat \ {0}
      BY <2>4, <2>7
    <3> QED BY <2>2, <2>5, <2>7, <3>1, NulShift
  <2>9. NulFrom(d, k + 1) = j + size
    <3> HIDE DEF n, m, size
    <3>1. n \in Nat /\ m \in Nat
      BY <1>0, <2>3, <2>4
    <3> QED BY <2>5, <2>8, <3>1
  <2>10. ValueSize(id, d, j) = size
    <3>1. ValueSize(id, d, j) = NulFrom(d, NulFrom(d, j) + 1) - j
      BY <1>4, <2>1 DEF ValueSize
    <3> HIDE DEF k, size
    <3> QED BY <1>0, <2>6, <2>9, <3>1
  <2>11. NulFrom(d, j) # 0 /\ NulFrom(d, NulFrom(d, j) + 1) # 0
    <3> HIDE DEF k, size
    <3> QED BY <1>0, <2>6, <2>7, <2>9
  <2>12. j + size - 1 <= Len(d) /\ j <= Len(d)
    <3> HIDE DEF size
    <3> QED BY <1>0, <1>4 DEF Same, size
  <2> QED BY <1>4, <2>10, <2>11, <2>12 DEF Readable
<1> QED BY <1>2, <1>3, <1>4 DEF Readable

\* An element is read alike in the same cells.
LEMMA ElementShift ==
  ASSUME NEW c \in Cells, NEW d \in Cells, NEW i \in 1 .. Len(c), NEW j \in Nat \ {0}, NEW hi \in Nat,
         Good(c, i), c[i] # NUL, Same(c, i, hi, d, j), hi >= After(c, i) - 1,
         hi >= After(c, i) \/ Proper(c, i)
  PROVE  /\ Good(d, j) /\ d[j] = c[i] /\ j <= Len(d)
         /\ Proper(c, i) => Proper(d, j)
         /\ After(d, j) = j + (After(c, i) - i)
         /\ ElementAt(d, j) = ElementAt(c, i)
<1> DEFINE size == ValueSize(c[i], c, i + 3)
<1>1. /\ Len(c) \in Nat /\ Len(d) \in Nat /\ i \in Nat \ {0} /\ size \in Nat
      /\ After(c, i) = i + 3 + size /\ hi >= i + 2 + size
  <2>1. Len(c) \in Nat /\ Len(d) \in Nat /\ i \in Nat \ {0} /\ size \in Nat
    BY GoodFacts, SMTT(30) DEF Cells
  <2>2. After(c, i) = i + 3 + size
    BY DEF After
  <2> HIDE DEF size
  <2> QED BY <2>1, <2>2
<1> HIDE DEF size
<1>b. (c[i] # Null => hi >= i + 3) /\ (c[i] = Regex => hi >= i + 3 + size)
  BY <1>1 DEF Proper, Null, Regex
<1>2. /\ d[j] = c[i] /\ d[j + 1] = c[i + 1]
      /\ j <= Len(d)
  <2>1. i \in i .. hi /\ i + 1 \in i .. hi /\ j + (i - i) = j /\ j + ((i + 1) - i) = j + 1
    BY <1>1
  <2> QED BY <1>1, <2>1 DEF Same
<1>3. NulFrom(d, j + 1) = j + 2
  <2>1. Same(c, i + 1, hi, d, j + 1)
    <3>1. \A x \in i + 1 .. hi : x \in i .. hi /\ (j + 1) + (x - (i + 1)) = j + (x - i)
      BY <1>1
    <3> QED BY <1>1, <3>1 DEF Same
  <2>2. NulFrom(c, i + 1) = i + 2 /\ i + 2 # 0 /\ i + 2 <= hi
    BY <1>1 DEF Good
  <2>3. NulFrom(d, j + 1) = (j + 1) + (NulFrom(c, i + 1) - (i + 1))
    BY <1>1, <2>1, <2>2, NulShift
  <2> QED BY <1>1, <2>2, <2>3
<1>4. Same(c, i + 3, hi, d, j + 3)
  <2>1. \A x \in i + 3 .. hi : x \in i .. hi /\ (j + 3) + (x - (i + 3)) = j + (x - i)
    BY <1>1
  <2> QED BY <1>1, <2>1 DEF Same
<1>5. Readable(c[i], d, j + 3) /\ ValueSize(c[i], d, j + 3) = size
  <2>1. Readable(c[i], c, i + 3)
    BY DEF Good
  <2>2. /\ hi >= (i + 3) + size - 1 /\ i + 3 \in Nat \ {0} /\ j + 3 \in Nat \ {0}
    BY <1>1
  <2> QED BY <1>1, <1>4, <1>b, <2>1, <2>2, SizeShift DEF size
<1>6. Good(d, j) /\ After(d, j) = j + 3 + size
  BY <1>2, <1>3, <1>5 DEF Good, After
<1>7. SubSeq(d, j + 3, j + 2 + size) = SubSeq(c, i + 3, i + 2 + size)
  <2>1. \A x \in i + 3 .. i + 2 + size : x \in 1 .. Len(c)
    BY <1>1 DEF Same
  <2>2. \A x \in j + 3 .. j + 2 + size : x \in 1 .. Len(d)
    BY <1>1 DEF Same
  <2>3. /\ SubSeq(c, i + 3, i + 2 + size) = [x \in 1 .. size |-> c[x + i + 2]]
        /\ SubSeq(d, j + 3, j + 2 + size) = [x \in 1 .. size |-> d[x + j + 2]]
    <3>1. (i + 2 + size) - (i + 3) + 1 = size /\ (j + 2 + size) - (j + 3) + 1 = size
      BY <1>1
    <3>2. /\ \A x \in 1 .. size : x + (i + 3) - 1 = x + i + 2
          /\ \A x \in 1 .. size : x + (j + 3) - 1 = x + j + 2
      BY <1>1
    <3> QED BY <1>1, <3>1, <3>2
  <2>4. ASSUME NEW x \in 1 .. size PROVE d[x + j + 2] = c[x + i + 2]
    <3>1. x + i + 2 \in i .. hi /\ j + ((x + i + 2) - i) = x + j + 2
      BY <1>1
    <3> QED BY <3>1 DEF Same
  <2> QED BY <2>3, <2>4
<1>8. ElementAt(c, i) = [key |-> c[i + 1], id |-> c[i], cells |-> SubSeq(c, i + 3, i + 2 + size)]
  BY DEF ElementAt, size
<1>9. ElementAt(d, j) = [key |-> d[j + 1], id |-> d[j], cells |-> SubSeq(d, j + 3, j + 2 + size)]
  BY <1>2, <1>5 DEF ElementAt
<1>10. After(d, j) = j + (After(c, i) - i)
  BY <1>1, <1>6
<1>11. ASSUME Proper(c, i) PROVE Proper(d, j)
  <2>1. d[j] # Null => After(d, j) > j + 3
    BY <1>1, <1>2, <1>10, <1>11 DEF Proper
  <2> QED BY <1>2, <1>6, <1>11, <2>1 DEF Proper
<1> QED BY <1>2, <1>6, <1>7, <1>8, <1>9, <1>10, <1>11

-----------------------------------------------------------------------------
ElementRecord == [key : Nat, id : Nat, cells : Cells]

LEMMA ElementType ==
  ASSUME NEW c \in Cells, NEW i \in 1 .. Len(c), Good(c, i)
  PROVE  ElementAt(c, i) \in ElementRecord
<1> DEFINE size == ValueSize(c[i], c, i + 3)
<1>1. Len(c) \in Nat /\ i \in Nat \ {0} /\ size \in Nat /\ i + 3 + size <= Len(c) + 1
  BY GoodFacts DEF Cells, After
<1>2. c[i] \in Nat /\ c[i + 1] \in Nat
  BY <1>1 DEF Cells
<1> HIDE DEF size
<1>3. SubSeq(c, i + 3, i + 2 + size) \in Cells
  <2>1. \A x \in i + 3 .. i + 2 + size : x \in 1 .. Len(c) /\ c[x] \in Nat
    BY <1>1 DEF Cells
  <2>2. i + 3 \in Int /\ i + 2 + size \in Int
    BY <1>1
  <2> QED BY <2>1, <2>2, SubSeqProperties DEF Cells
<1> QED BY <1>2, <1>3 DEF ElementAt, ElementRecord, size

\* What the iterator does from i on, for a document that it can read.
LEMMA IterateFacts ==
  ASSUME NEW c \in Cells, NEW i \in 1 .. Len(c) + 1
  PROVE  /\ Iterate(c, i) \in [ok : BOOLEAN, elements : Seq(ElementRecord), stop : Nat]
         /\ Iterate(c, i).ok => Iterate(c, i).stop \in i .. Len(c) /\ c[Iterate(c, i).stop] = NUL
<1> DEFINE L == Len(c) + 1
           Run == [ok : BOOLEAN, elements : Seq(ElementRecord), stop : Nat]
           Holds(p) == /\ Iterate(c, p) \in Run
                       /\ Iterate(c, p).ok =>
                            Iterate(c, p).stop \in p .. Len(c) /\ c[Iterate(c, p).stop] = NUL
           U == {k \in Nat : \A p \in 1 .. L : p >= L - k => Holds(p)}
<1>0. L \in Nat /\ L >= 1 /\ Len(c) \in Nat
  BY DEF Cells
<1>1. Panic \in Run /\ ~Panic.ok
  BY EmptySeq DEF Panic
<1>2. ASSUME NEW p \in 1 .. L, \A q \in p + 1 .. L : Holds(q)
      PROVE  Holds(p)
  <2> HIDE DEF Holds
  <2>1. CASE p > Len(c) \/ (p <= Len(c) /\ c[p] # NUL /\ ~Good(c, p))
    <3>1. Iterate(c, p) = Panic
      BY <1>0, <2>1, IterateUnfolds
    <3> QED BY <1>1, <3>1 DEF Holds
  <2>2. CASE p <= Len(c) /\ c[p] = NUL
    <3>1. Iterate(c, p) = [ok |-> TRUE, elements |-> <<>>, stop |-> p]
      BY <2>2, IterateUnfolds
    <3>2. p \in p .. Len(c) /\ p \in Nat /\ <<>> \in Seq(ElementRecord)
      BY <1>0, <2>2, EmptySeq
    <3> QED BY <2>2, <3>1, <3>2 DEF Holds
  <2>3. CASE p <= Len(c) /\ c[p] # NUL /\ Good(c, p)
    <3> DEFINE q == After(c, p)
               r == Iterate(c, q)
               e == ElementAt(c, p)
    <3>1. p \in 1 .. Len(c)
      BY <1>0, <2>3
    <3>2. q \in p + 1 .. L /\ e \in ElementRecord
      BY <1>0, <2>3, <3>1, GoodFacts, ElementType
    <3>3. Iterate(c, p) = [r EXCEPT !.elements = <<e>> \o @]
      BY <2>3, IterateUnfolds DEF Walked
    <3> HIDE DEF e, q
    <3>4. r \in Run /\ (r.ok => r.stop \in q .. Len(c) /\ c[r.stop] = NUL)
      BY <1>2, <3>2 DEF Holds
    <3> HIDE DEF r
    <3>5. <<e>> \o r.elements \in Seq(ElementRecord)
      BY <3>2, <3>4
    <3>6. Iterate(c, p) = [ok |-> r.ok, elements |-> <<e>> \o r.elements, stop |-> r.stop]
      BY <3>3, <3>4
    <3>7. r.ok => r.stop \in p .. Len(c)
      BY <1>0, <3>2, <3>4
    <3>8. r.ok \in BOOLEAN /\ r.stop \in Nat
      BY <3>4
    <3> QED BY <3>4, <3>5, <3>6, <3>7, <3>8 DEF Holds
  <2> QED BY <1>0, <2>1, <2>2, <2>3
<1> HIDE DEF Holds
<1>3. 0 \in U
  <2> SUFFICES ASSUME NEW p \in 1 .. L, p >= L - 0 PROVE Holds(p)
    OBVIOUS
  <2>1. \A q \in p + 1 .. L : FALSE
    BY <1>0
  <2> QED BY <1>2, <2>1
<1>4. ASSUME NEW k \in U PROVE k + 1 \in U
  <2> SUFFICES ASSUME NEW p \in 1 .. L, p >= L - (k + 1) PROVE Holds(p)
    OBVIOUS
  <2>1. \A q \in p + 1 .. L : q \in 1 .. L /\ q >= L - k
    BY <1>0
  <2> QED BY <1>2, <2>1
<1>5. U = Nat
  <2>1. U \in SUBSET Nat
    OBVIOUS
  <2> HIDE DEF U
  <2> QED BY <1>3, <1>4, <2>1, Induction
<1>6. L \in U /\ i >= L - L
  BY <1>0, <1>5
<1>7. Holds(i)
  BY <1>6
<1> QED BY <1>7 DEF Holds

\* A document is read alike in the same cells.
LEMMA IterateShift ==
  ASSUME NEW c \in Cells, NEW d \in Cells, NEW i \in 1 .. Len(c), NEW j \in Nat \ {0},
         Iterate(c, i).ok, Same(c, i, Iterate(c, i).stop, d, j)
  PROVE  Iterate(d, j) = [Iterate(c, i) EXCEPT !.stop = j + (@ - i)]
<1> DEFINE hi == Iterate(c, i).stop
           Moved(p) == j + (p - i)
           Holds(p) ==
             Iterate(c, p).ok /\ Iterate(c, p).stop = hi =>
               Iterate(d, Moved(p)) = [Iterate(c, p) EXCEPT !.stop = Moved(hi)]
           U == {k \in Nat : \A p \in i .. hi : p >= hi - k => Holds(p)}
           Run == [ok : BOOLEAN, elements : Seq(ElementRecord), stop : Nat]
<1>0. /\ Len(c) \in Nat /\ Len(d) \in Nat /\ i \in Nat \ {0} /\ hi \in i .. Len(c)
      /\ i \in 1 .. Len(c) + 1 /\ hi \in Nat
  <2>1. Len(c) \in Nat /\ Len(d) \in Nat /\ i \in 1 .. Len(c) + 1
    BY DEF Cells
  <2>2. hi \in i .. Len(c)
    BY <2>1, IterateFacts
  <2> HIDE DEF hi
  <2> QED BY <2>1, <2>2
<1>a. Same(c, i, hi, d, j)
  OBVIOUS
<1> HIDE DEF hi
<1>1. ASSUME NEW p \in i .. hi
      PROVE  /\ p \in 1 .. Len(c) /\ Moved(p) \in 1 .. Len(d) /\ Moved(p) \in Nat \ {0}
             /\ d[Moved(p)] = c[p] /\ Same(c, p, hi, d, Moved(p))
  <2>1. p \in 1 .. Len(c) /\ Moved(p) \in 1 .. Len(d) /\ d[Moved(p)] = c[p]
    BY <1>0, <1>a DEF Same
  <2>2. \A x \in p .. hi : x \in i .. hi /\ Moved(p) + (x - p) = j + (x - i)
    BY <1>0
  <2> QED BY <1>0, <1>a, <2>1, <2>2 DEF Same
<1>2. ASSUME NEW p \in i .. hi, \A q \in p + 1 .. hi : Holds(q)
      PROVE  Holds(p)
  <2> HIDE DEF Holds
  <2> SUFFICES ASSUME Iterate(c, p).ok, Iterate(c, p).stop = hi
               PROVE  Iterate(d, Moved(p)) = [Iterate(c, p) EXCEPT !.stop = Moved(hi)]
    BY DEF Holds
  <2>1. /\ p \in 1 .. Len(c) /\ p \in 1 .. Len(c) + 1 /\ p <= Len(c)
        /\ Moved(p) \in 1 .. Len(d) + 1 /\ Moved(p) <= Len(d)
    BY <1>0, <1>1
  <2>2. CASE c[p] = NUL
    <3>1. Iterate(c, p) = [ok |-> TRUE, elements |-> <<>>, stop |-> p]
      BY <2>1, <2>2, IterateUnfolds
    <3>2. d[Moved(p)] = NUL
      BY <1>1, <2>2
    <3> DEFINE m == Moved(p)
    <3> HIDE DEF m
    <3>3. Iterate(d, m) = [ok |-> TRUE, elements |-> <<>>, stop |-> m]
      BY <2>1, <3>2, IterateUnfolds DEF m
    <3>4. m = Moved(hi)
      BY <3>1 DEF m
    <3> DEFINE r == Iterate(c, p)
    <3>5. r = [ok |-> TRUE, elements |-> <<>>, stop |-> p]
      BY <3>1
    <3>6. r \in Run
      BY <2>1, IterateFacts
    <3> HIDE DEF r, Moved
    <3>7. [r EXCEPT !.stop = m] = [ok |-> r.ok, elements |-> r.elements, stop |-> m]
      BY <3>6
    <3>8. r.ok = TRUE /\ r.elements = <<>>
      BY <3>5
    <3> QED BY <3>3, <3>4, <3>7, <3>8 DEF r, m
  <2>3. CASE c[p] # NUL
    <3>1. Good(c, p)
      BY <2>1, <2>3, IterateUnfolds DEF Panic
    <3> DEFINE q == After(c, p)
               r == Iterate(c, q)
               e == ElementAt(c, p)
               m == Moved(p)
               s == Iterate(d, Moved(q))
    <3>2. q \in p + 1 .. Len(c) + 1 /\ q \in 1 .. Len(c) + 1
      BY <2>1, <3>1, <1>0, GoodFacts
    <3>3. Iterate(c, p) = [r EXCEPT !.elements = <<e>> \o @]
      BY <2>1, <2>3, <3>1, IterateUnfolds DEF Walked
    <3>4. r \in Run /\ (r.ok => r.stop \in q .. Len(c))
      BY <3>2, IterateFacts
    <3> HIDE DEF e, q, r
    <3>5. r.ok /\ r.stop = hi
      BY <3>3, <3>4
    <3>6. q \in p + 1 .. hi
      BY <1>0, <3>2, <3>4, <3>5
    <3>7. s = [r EXCEPT !.stop = Moved(hi)]
      BY <1>2, <3>5, <3>6 DEF Holds, r
    <3>8. /\ Good(d, m) /\ d[m] # NUL /\ After(d, m) = m + (q - p) /\ ElementAt(d, m) = e
      <4>1. hi >= After(c, p) /\ hi >= After(c, p) - 1 /\ Same(c, p, hi, d, m) /\ m \in Nat \ {0}
        BY <1>0, <1>1, <3>6 DEF q
      <4> HIDE DEF m
      <4> QED BY <1>0, <2>1, <2>3, <3>1, <4>1, ElementShift DEF q, e
    <3>9. m + (q - p) = Moved(q)
      BY <1>0, <3>2
    <3>10. Iterate(d, m) = [s EXCEPT !.elements = <<e>> \o @]
      <4>1. m \in 1 .. Len(d) + 1 /\ m <= Len(d) /\ After(d, m) = Moved(q)
        BY <2>1, <3>8, <3>9
      <4> HIDE DEF m, Moved
      <4> QED BY <3>8, <4>1, IterateUnfolds, SMTT(30) DEF Walked
    <3> HIDE DEF s, m
    <3> QED BY <3>3, <3>4, <3>7, <3>10 DEF m
  <2> QED BY <2>2, <2>3
<1> HIDE DEF Holds
<1>3. 0 \in U
  <2> SUFFICES ASSUME NEW p \in i .. hi, p >= hi - 0 PROVE Holds(p)
    OBVIOUS
  <2>1. \A q \in p + 1 .. hi : FALSE
    BY <1>0
  <2> QED BY <1>2, <2>1
<1>4. ASSUME NEW k \in U PROVE k + 1 \in U
  <2> SUFFICES ASSUME NEW p \in i .. hi, p >= hi - (k + 1) PROVE Holds(p)
    OBVIOUS
  <2>1. \A q \in p + 1 .. hi : q \in i .. hi /\ q >= hi - k
    BY <1>0
  <2> QED BY <1>2, <2>1
<1>5. U = Nat
  <2>1. U \in SUBSET Nat
    OBVIOUS
  <2> HIDE DEF U
  <2> QED BY <1>3, <1>4, <2>1, Induction
<1>6. hi \in U /\ i \in i .. hi /\ i >= hi - hi
  BY <1>0, <1>5
<1>7. Holds(i)
  BY <1>6
<1>8. Moved(i) = j /\ Moved(hi) = j + (hi - i)
  BY <1>0
<1> QED BY <1>7, <1>8 DEF Holds, hi

-----------------------------------------------------------------------------
(* Layout: which elements lie between two places of a buffer *)

\* f gives the place of each of the elements A, and the place after the last one.
Layout(c, p, q, A, f) ==
  /\ f \in [1 .. Len(A) + 1 -> p .. q]
  /\ f[1] = p /\ f[Len(A) + 1] = q
  /\ \A k \in 1 .. Len(A) :
       /\ Proper(c, f[k]) /\ A[k] = ElementAt(c, f[k])
       /\ f[k + 1] = After(c, f[k])
  /\ \A k, l \in 1 .. Len(A) + 1 : k < l => f[k] < f[l]

Laid(c, p, q, A) ==
  /\ p \in Nat \ {0} /\ q \in Nat /\ A \in Seq(ElementRecord)
  /\ \E f : Layout(c, p, q, A, f)

LEMMA ProperFacts ==
  ASSUME NEW c \in Cells, NEW i \in Nat \ {0}, Proper(c, i)
  PROVE  /\ i \in 1 .. Len(c) /\ i + 2 <= Len(c)
         /\ ValueSize(c[i], c, i + 3) \in Nat
         /\ After(c, i) \in i + 3 .. Len(c) + 1
         /\ ElementAt(c, i) \in ElementRecord
         /\ NulFrom(c, i + 1) = i + 2 /\ Readable(c[i], c, i + 3)
<1>1. i \in 1 .. Len(c) /\ Len(c) \in Nat
  BY DEF Cells, Proper
<1>2. Good(c, i)
  BY DEF Proper
<1>3. NulFrom(c, i + 1) = i + 2 /\ Readable(c[i], c, i + 3)
  BY <1>2 DEF Good
<1>4. NulFrom(c, i + 1) # 0 /\ i + 1 \in Nat \ {0}
  BY <1>1, <1>3
<1>5. i + 2 \in i + 1 .. Len(c)
  BY <1>3, <1>4, NulFromFacts
<1> QED BY <1>1, <1>2, <1>3, <1>5, GoodFacts, ElementType

LEMMA LaidNone ==
  ASSUME NEW c, NEW p \in Nat \ {0}
  PROVE  Laid(c, p, p, <<>>)
<1> DEFINE f == [k \in 1 .. 1 |-> p]
<1>1. Len(<<>>) = 0 /\ <<>> \in Seq(ElementRecord)
  BY EmptySeq
<1>2. Layout(c, p, p, <<>>, f)
  BY <1>1 DEF Layout
<1> QED BY <1>1, <1>2 DEF Laid

LEMMA LaidOne ==
  ASSUME NEW c \in Cells, NEW p \in Nat \ {0}, Proper(c, p)
  PROVE  Laid(c, p, After(c, p), <<ElementAt(c, p)>>)
<1> DEFINE q == After(c, p)
           e == ElementAt(c, p)
           f == [k \in 1 .. 2 |-> IF k = 1 THEN p ELSE q]
<1>1. q \in p + 3 .. Len(c) + 1 /\ Len(c) \in Nat /\ e \in ElementRecord
  BY ProperFacts DEF Cells
<1>2. q = After(c, p) /\ e = ElementAt(c, p)
  OBVIOUS
<1> HIDE DEF q, e
<1>3. Len(<<e>>) = 1 /\ <<e>> \in Seq(ElementRecord) /\ <<e>>[1] = e
  BY <1>1
<1>4. f[1] = p /\ f[2] = q /\ f \in [1 .. 2 -> p .. q]
  BY <1>1
<1> HIDE DEF f
<1>5. Layout(c, p, q, <<e>>, f)
  <2>1. 1 .. Len(<<e>>) = {1} /\ 1 .. Len(<<e>>) + 1 = 1 .. 2
    BY <1>3
  <2>2. \A k \in 1 .. Len(<<e>>) : k = 1 /\ k + 1 = 2
    BY <2>1
  <2>3. \A k, l \in 1 .. 2 : k < l => k = 1 /\ l = 2
    OBVIOUS
  <2>4. p < q
    BY <1>1
  <2> QED BY <1>2, <1>3, <1>4, <2>1, <2>2, <2>3, <2>4 DEF Layout
<1> QED BY <1>1, <1>3, <1>5 DEF Laid, q, e

\* What lies before a place and what lies after it.
LEMMA LaidConcat ==
  ASSUME NEW c, NEW p, NEW q, NEW r, NEW A, NEW B, Laid(c, p, q, A), Laid(c, q, r, B)
  PROVE  Laid(c, p, r, A \o B)
<1> DEFINE a == Len(A)
           b == Len(B)
           C == A \o B
<1>1. PICK f : Layout(c, p, q, A, f)
  BY DEF Laid
<1>2. PICK g : Layout(c, q, r, B, g)
  BY DEF Laid
<1>3. /\ p \in Nat \ {0} /\ q \in Nat /\ r \in Nat
      /\ A \in Seq(ElementRecord) /\ B \in Seq(ElementRecord)
  BY DEF Laid
<1>4. /\ a \in Nat /\ b \in Nat /\ C \in Seq(ElementRecord) /\ Len(C) = a + b
      /\ \A k \in 1 .. a : C[k] = A[k]
      /\ \A k \in 1 .. b : C[a + k] = B[k]
  BY <1>3
<1> DEFINE h == [k \in 1 .. a + b + 1 |-> IF k <= a THEN f[k] ELSE g[k - a]]
<1> HIDE DEF C
<1>5. /\ f \in [1 .. a + 1 -> p .. q] /\ f[1] = p /\ f[a + 1] = q
      /\ \A k \in 1 .. a : /\ Proper(c, f[k]) /\ A[k] = ElementAt(c, f[k])
                           /\ f[k + 1] = After(c, f[k])
      /\ \A k, l \in 1 .. a + 1 : k < l => f[k] < f[l]
  BY <1>1 DEF Layout
<1>6. /\ g \in [1 .. b + 1 -> q .. r] /\ g[1] = q /\ g[b + 1] = r
      /\ \A k \in 1 .. b : /\ Proper(c, g[k]) /\ B[k] = ElementAt(c, g[k])
                           /\ g[k + 1] = After(c, g[k])
      /\ \A k, l \in 1 .. b + 1 : k < l => g[k] < g[l]
  BY <1>2 DEF Layout
<1> HIDE DEF a, b
<1>7. p <= q /\ q <= r
  <2>1. 1 \in 1 .. a + 1 /\ 1 \in 1 .. b + 1
    BY <1>4
  <2>2. f[1] \in p .. q /\ g[1] \in q .. r
    BY <1>5, <1>6, <2>1
  <2> QED BY <1>3, <2>2
<1>8. ASSUME NEW k \in 1 .. a + 1 PROVE h[k] = f[k] /\ k \in 1 .. a + b + 1
  <2>1. k \in 1 .. a + b + 1 /\ (k <= a \/ (k = a + 1 /\ k - a = 1))
    BY <1>4
  <2> QED BY <1>4, <1>5, <1>6, <2>1
<1>9. ASSUME NEW k \in 1 .. b + 1 PROVE h[a + k] = g[k] /\ a + k \in 1 .. a + b + 1
  <2>1. a + k \in 1 .. a + b + 1 /\ ~(a + k <= a) /\ (a + k) - a = k
    BY <1>4
  <2> QED BY <2>1
<1>10. \A k \in 1 .. a + b + 1 : k \in 1 .. a \/ \E l \in 1 .. b + 1 : k = a + l
  <2>1. ASSUME NEW k \in 1 .. a + b + 1, ~(k <= a)
        PROVE  k - a \in 1 .. b + 1 /\ k = a + (k - a)
    BY <1>4, <2>1
  <2> QED BY <1>4, <2>1
<1>11. h \in [1 .. a + b + 1 -> p .. r]
  <2>1. ASSUME NEW k \in 1 .. a PROVE h[k] \in p .. r
    <3>1. k \in 1 .. a + 1
      BY <1>4
    <3>2. f[k] \in p .. q
      BY <1>5, <3>1
    <3> QED BY <1>3, <1>7, <1>8, <3>1, <3>2
  <2>2. ASSUME NEW l \in 1 .. b + 1 PROVE h[a + l] \in p .. r
    <3>1. g[l] \in q .. r
      BY <1>6
    <3> QED BY <1>3, <1>7, <1>9, <3>1, SMTT(30)
  <2>3. \A k \in 1 .. a + b + 1 : h[k] \in p .. r
    BY <1>10, <2>1, <2>2
  <2>4. h = [k \in 1 .. a + b + 1 |-> h[k]]
    OBVIOUS
  <2> HIDE DEF h
  <2> QED BY <2>3, <2>4
<1> HIDE DEF h
<1>12. h[1] = p /\ h[a + b + 1] = r
  <2>1. 1 \in 1 .. a + 1 /\ b + 1 \in 1 .. b + 1 /\ a + (b + 1) = a + b + 1
    BY <1>4
  <2> QED BY <1>5, <1>6, <1>8, <1>9, <2>1
<1>13. ASSUME NEW k \in 1 .. a + b
       PROVE  Proper(c, h[k]) /\ C[k] = ElementAt(c, h[k]) /\ h[k + 1] = After(c, h[k])
  <2>1. CASE k \in 1 .. a
    <3>1. k \in 1 .. a + 1 /\ k + 1 \in 1 .. a + 1
      BY <1>4, <2>1
    <3> QED BY <1>4, <1>5, <1>8, <2>1, <3>1
  <2>2. ASSUME NEW l \in 1 .. b, k = a + l PROVE Proper(c, h[k]) /\ C[k] = ElementAt(c, h[k]) /\ h[k + 1] = After(c, h[k])
    <3>1. l \in 1 .. b + 1 /\ l + 1 \in 1 .. b + 1 /\ k + 1 = a + (l + 1)
      BY <1>4, <2>2
    <3>2. h[k] = g[l] /\ h[k + 1] = g[l + 1]
      BY <1>9, <2>2, <3>1
    <3> QED BY <1>4, <1>6, <2>2, <3>2
  <2>3. k \in 1 .. a \/ (k - a \in 1 .. b /\ k = a + (k - a))
    BY <1>4
  <2> QED BY <2>1, <2>2, <2>3
<1>14. ASSUME NEW k \in 1 .. a + b + 1, NEW l \in 1 .. a + b + 1, k < l
       PROVE  h[k] < h[l]
  <2>1. CASE l \in 1 .. a + 1
    <3>1. k \in 1 .. a + 1
      BY <1>4, <1>14, <2>1
    <3> QED BY <1>5, <1>8, <1>14, <2>1, <3>1
  <2>2. CASE l \notin 1 .. a + 1
    <3> DEFINE m == l - a
    <3>1. m \in 1 .. b + 1 /\ l = a + m /\ 1 < m /\ 1 \in 1 .. b + 1
      BY <1>4, <2>2
    <3>2. h[l] = g[m] /\ g[m] \in q .. r /\ q < g[m]
      BY <1>6, <1>9, <3>1
    <3>3. CASE k \in 1 .. a + 1
      <4>1. h[k] = f[k] /\ f[k] \in p .. q
        BY <1>5, <1>8, <3>3
      <4> QED BY <1>3, <3>2, <4>1
    <3>4. CASE k \notin 1 .. a + 1
      <4>1. k - a \in 1 .. b + 1 /\ k = a + (k - a) /\ k - a < m
        BY <1>4, <1>14, <3>4
      <4> QED BY <1>6, <1>9, <3>1, <3>2, <4>1
    <3> QED BY <3>3, <3>4
  <2> QED BY <2>1, <2>2
<1>15. Layout(c, p, r, C, h)
  BY <1>4, <1>11, <1>12, <1>13, <1>14 DEF Layout
<1> QED BY <1>3, <1>4, <1>15 DEF Laid, C

LEMMA LayoutPart ==
  ASSUME NEW c, NEW p \in Nat \ {0}, NEW q \in Nat, NEW A \in Seq(ElementRecord), NEW f,
         Layout(c, p, q, A, f),
         NEW a \in 1 .. Len(A) + 1, NEW b \in a .. Len(A) + 1
  PROVE  Laid(c, f[a], f[b], SubSeq(A, a, b - 1))
<1> DEFINE n == Len(A)
           m == b - a
           B == SubSeq(A, a, b - 1)
           g == [k \in 1 .. m + 1 |-> f[a + k - 1]]
<1>1. n \in Nat /\ a \in 1 .. n + 1 /\ b \in a .. n + 1 /\ m \in Nat /\ b \in 1 .. n + 1
  OBVIOUS
<1>2. /\ f \in [1 .. n + 1 -> p .. q]
      /\ \A k \in 1 .. n : Proper(c, f[k]) /\ A[k] = ElementAt(c, f[k]) /\ f[k + 1] = After(c, f[k])
      /\ \A k, l \in 1 .. n + 1 : k < l => f[k] < f[l]
  BY DEF Layout
<1>3. B \in Seq(ElementRecord) /\ Len(B) = m /\ \A k \in 1 .. m : B[k] = A[a + k - 1]
  <2>1. \A k \in a .. b - 1 : k \in 1 .. n
    BY <1>1
  <2>2. a \in Int /\ b - 1 \in Int
    BY <1>1
  <2>3. /\ B \in Seq(ElementRecord)
        /\ Len(B) = IF a <= b - 1 THEN (b - 1) - a + 1 ELSE 0
        /\ \A k \in 1 .. (b - 1) - a + 1 : B[k] = A[a + k - 1]
    BY <2>1, <2>2, SubSeqProperties, SMTT(30)
  <2>4. (IF a <= b - 1 THEN (b - 1) - a + 1 ELSE 0) = m /\ (b - 1) - a + 1 = m
    BY <1>1
  <2> HIDE DEF B, m, n
  <2> QED BY <2>3, <2>4
<1> HIDE DEF n, B
<1>13. \A y \in 1 .. n + 1 : f[y] \in Nat /\ f[y] \in p .. q
  BY <1>2
<1>4. \A k \in 1 .. m + 1 : a + k - 1 \in 1 .. n + 1 /\ g[k] = f[a + k - 1]
  BY <1>1
<1>5. ASSUME NEW k \in 1 .. m + 1 PROVE g[k] \in f[a] .. f[b]
  <2>1. /\ a + k - 1 \in 1 .. n + 1
        /\ a + k - 1 = a \/ a < a + k - 1
        /\ a + k - 1 = b \/ a + k - 1 < b
    BY <1>1
  <2> HIDE DEF g
  <2> DEFINE x == a + k - 1
  <2>2. x \in 1 .. n + 1 /\ (x = a \/ a < x) /\ (x = b \/ x < b) /\ g[k] = f[x]
    BY <1>4, <2>1
  <2> HIDE DEF x
  <2>3. f[a] \in Nat /\ f[b] \in Nat /\ f[x] \in Nat
    BY <1>1, <1>13, <2>2
  <2>4. (a < x => f[a] < f[x]) /\ (x < b => f[x] < f[b])
    BY <1>1, <1>2, <2>2
  <2>5. f[a] <= f[x] /\ f[x] <= f[b]
    BY <2>2, <2>3, <2>4
  <2> QED BY <2>2, <2>3, <2>5
<1>6. g \in [1 .. m + 1 -> f[a] .. f[b]]
  <2>1. g = [k \in 1 .. m + 1 |-> g[k]]
    OBVIOUS
  <2> HIDE DEF g
  <2> QED BY <1>5, <2>1
<1>7. g[1] = f[a] /\ g[m + 1] = f[b]
  <2>1. 1 \in 1 .. m + 1 /\ m + 1 \in 1 .. m + 1 /\ a + 1 - 1 = a /\ a + (m + 1) - 1 = b
    BY <1>1
  <2> HIDE DEF g, m
  <2> QED BY <1>4, <2>1
<1>8. ASSUME NEW k \in 1 .. m
      PROVE  Proper(c, g[k]) /\ B[k] = ElementAt(c, g[k]) /\ g[k + 1] = After(c, g[k])
  <2>1. /\ k \in 1 .. m + 1 /\ k + 1 \in 1 .. m + 1
        /\ a + k - 1 \in 1 .. n /\ a + (k + 1) - 1 = (a + k - 1) + 1
    BY <1>1
  <2> HIDE DEF g, m
  <2> QED BY <1>2, <1>3, <1>4, <2>1
<1>9. ASSUME NEW k \in 1 .. m + 1, NEW l \in 1 .. m + 1, k < l PROVE g[k] < g[l]
  <2>1. a + k - 1 \in 1 .. n + 1 /\ a + l - 1 \in 1 .. n + 1 /\ a + k - 1 < a + l - 1
    BY <1>1, <1>9
  <2> HIDE DEF g, m
  <2> QED BY <1>2, <1>4, <2>1
<1> HIDE DEF g, m
<1>10. Layout(c, f[a], f[b], B, g)
  BY <1>3, <1>6, <1>7, <1>8, <1>9 DEF Layout
<1>11. f[a] \in p .. q /\ f[b] \in p .. q
  BY <1>1, <1>2
<1>12. f[a] \in Nat \ {0} /\ f[b] \in Nat
  BY <1>11
<1> QED BY <1>3, <1>10, <1>12 DEF Laid, B

\* One of the elements, and those before and after it.
LEMMA LaidSplit ==
  ASSUME NEW c \in Cells, NEW p, NEW q, NEW A, Laid(c, p, q, A), NEW k \in 1 .. Len(A)
  PROVE  \E x \in p .. q :
           /\ x \in Nat \ {0}
           /\ Laid(c, p, x, SubSeq(A, 1, k - 1))
           /\ Proper(c, x) /\ A[k] = ElementAt(c, x)
           /\ Laid(c, After(c, x), q, SubSeq(A, k + 1, Len(A)))
           /\ x < After(c, x) /\ After(c, x) <= q
<1>1. PICK f : Layout(c, p, q, A, f)
  BY DEF Laid
<1>2. p \in Nat \ {0} /\ q \in Nat /\ A \in Seq(ElementRecord)
  BY DEF Laid
<1>3. /\ Len(A) \in Nat /\ 1 \in 1 .. Len(A) + 1 /\ k \in 1 .. Len(A) + 1
      /\ k + 1 \in 1 .. Len(A) + 1 /\ Len(A) + 1 \in k + 1 .. Len(A) + 1 /\ k < k + 1
      /\ (Len(A) + 1) - 1 = Len(A)
  BY <1>2
<1>4. /\ f \in [1 .. Len(A) + 1 -> p .. q] /\ f[1] = p /\ f[Len(A) + 1] = q
      /\ Proper(c, f[k]) /\ A[k] = ElementAt(c, f[k]) /\ f[k + 1] = After(c, f[k])
      /\ f[k] < f[k + 1]
  BY <1>1, <1>3 DEF Layout
<1>5. Laid(c, f[1], f[k], SubSeq(A, 1, k - 1))
  <2>1. k \in 1 .. Len(A) + 1
    BY <1>3
  <2> QED BY <1>1, <1>2, <1>3, <2>1, LayoutPart
<1>6. Laid(c, f[k + 1], f[Len(A) + 1], SubSeq(A, k + 1, (Len(A) + 1) - 1))
  BY <1>1, <1>2, <1>3, LayoutPart
<1>7. f[k] \in p .. q /\ f[k + 1] \in p .. q
  BY <1>3, <1>4
<1>8. f[k] \in Nat \ {0} /\ f[k + 1] <= q
  BY <1>2, <1>7
<1>9. Laid(c, f[k + 1], q, SubSeq(A, k + 1, Len(A)))
  BY <1>3, <1>4, <1>6
<1>10. Laid(c, p, f[k], SubSeq(A, 1, k - 1))
  BY <1>4, <1>5
<1> QED BY <1>4, <1>7, <1>8, <1>9, <1>10

\* The same cells hold the same elements.
LEMMA LaidShift ==
  ASSUME NEW c \in Cells, NEW d \in Cells, NEW p, NEW q, NEW A, Laid(c, p, q, A),
         NEW j \in Nat \ {0}, Same(c, p, q - 1, d, j)
  PROVE  Laid(d, j, j + (q - p), A)
<1> DEFINE n == Len(A)
<1>1. PICK f : Layout(c, p, q, A, f)
  BY DEF Laid
<1>2. p \in Nat \ {0} /\ q \in Nat /\ A \in Seq(ElementRecord) /\ n \in Nat
  BY DEF Laid
<1>3. /\ f \in [1 .. n + 1 -> p .. q] /\ f[1] = p /\ f[n + 1] = q
      /\ \A k \in 1 .. n : Proper(c, f[k]) /\ A[k] = ElementAt(c, f[k]) /\ f[k + 1] = After(c, f[k])
      /\ \A k, l \in 1 .. n + 1 : k < l => f[k] < f[l]
  BY <1>1 DEF Layout
<1> HIDE DEF n
<1> DEFINE g == [k \in 1 .. n + 1 |-> j + (f[k] - p)]
<1>4. \A k \in 1 .. n + 1 : f[k] \in p .. q
  BY <1>3
<1>5. g \in [1 .. n + 1 -> j .. j + (q - p)]
  <2>1. \A k \in 1 .. n + 1 : g[k] \in j .. j + (q - p)
    BY <1>2, <1>4
  <2>2. g = [k \in 1 .. n + 1 |-> g[k]]
    OBVIOUS
  <2> HIDE DEF g
  <2> QED BY <2>1, <2>2
<1>6. g[1] = j /\ g[n + 1] = j + (q - p)
  <2>1. 1 \in 1 .. n + 1 /\ n + 1 \in 1 .. n + 1
    BY <1>2
  <2> QED BY <1>2, <1>3, <2>1
<1>7. \A k, l \in 1 .. n + 1 : k < l => g[k] < g[l]
  BY <1>2, <1>3, <1>4
<1>8. ASSUME NEW k \in 1 .. n
      PROVE  Proper(d, g[k]) /\ A[k] = ElementAt(d, g[k]) /\ g[k + 1] = After(d, g[k])
  <2> DEFINE x == f[k]
             y == f[k + 1]
             z == j + (x - p)
             hi == q - 1
  <2>1. /\ k \in 1 .. n + 1 /\ k + 1 \in 1 .. n + 1
        /\ g[k] = z /\ g[k + 1] = j + (y - p)
    BY <1>2
  <2>2. x \in p .. q /\ y \in p .. q /\ x \in Nat \ {0}
    BY <1>2, <1>4, <2>1
  <2>3. Proper(c, x) /\ A[k] = ElementAt(c, x) /\ y = After(c, x)
    BY <1>3
  <2> HIDE DEF x, y, g
  <2>4. x \in 1 .. Len(c) /\ y \in x + 3 .. Len(c) + 1 /\ Good(c, x) /\ c[x] # NUL
    BY <2>2, <2>3, ProperFacts DEF Proper
  <2>5. hi \in Nat /\ hi >= After(c, x) - 1 /\ z \in Nat \ {0}
    BY <1>2, <2>2, <2>3, <2>4 DEF Cells
  <2>6. Same(c, x, hi, d, z)
    <3>1. \A w \in x .. hi : w \in p .. hi /\ z + (w - x) = j + (w - p)
      BY <1>2, <2>2
    <3>2. z + (hi - x) = j + (hi - p)
      BY <1>2, <2>2
    <3> QED BY <3>1, <3>2 DEF Same
  <2> HIDE DEF z, hi
  <2>7. /\ Proper(d, z) /\ After(d, z) = z + (After(c, x) - x)
        /\ ElementAt(d, z) = ElementAt(c, x)
    BY <2>3, <2>4, <2>5, <2>6, ElementShift
  <2>8. j + (y - p) = z + (y - x)
    BY <1>2, <2>2 DEF z
  <2> QED BY <2>1, <2>3, <2>7, <2>8
<1> HIDE DEF g
<1>9. Layout(d, j, j + (q - p), A, g)
  BY <1>5, <1>6, <1>7, <1>8 DEF Layout, n
<1>10. j + (q - p) \in Nat
  <2>1. 1 \in 1 .. n + 1
    BY <1>2
  <2>2. p <= q
    BY <1>2, <1>4, <2>1
  <2> QED BY <1>2, <2>2
<1> QED BY <1>2, <1>9, <1>10 DEF Laid

LEMMA LaidEmpty == ASSUME NEW c, NEW p, NEW q, Laid(c, p, q, <<>>) PROVE p = q
<1>1. Len(<<>>) = 0
  BY EmptySeq
<1>2. PICK f : Layout(c, p, q, <<>>, f)
  BY DEF Laid
<1> QED BY <1>1, <1>2 DEF Layout

\* The first element, and those after it.
LEMMA LaidFirst ==
  ASSUME NEW c \in Cells, NEW p, NEW q, NEW A, Laid(c, p, q, A), A # <<>>
  PROVE  /\ Proper(c, p) /\ A[1] = ElementAt(c, p)
         /\ Laid(c, After(c, p), q, Tail(A))
         /\ p \in Nat \ {0} /\ p < After(c, p) /\ After(c, p) <= q
         /\ Tail(A) \in Seq(ElementRecord) /\ Len(A) = Len(Tail(A)) + 1
         /\ A = <<A[1]>> \o Tail(A)
<1>1. p \in Nat \ {0} /\ q \in Nat /\ A \in Seq(ElementRecord)
  BY DEF Laid
<1>2. 1 \in 1 .. Len(A) /\ Len(A) \in Nat /\ Len(A) >= 1
  BY <1>1, EmptySeq
<1>3. PICK x \in p .. q :
        /\ x \in Nat \ {0}
        /\ Laid(c, p, x, SubSeq(A, 1, 1 - 1))
        /\ Proper(c, x) /\ A[1] = ElementAt(c, x)
        /\ Laid(c, After(c, x), q, SubSeq(A, 1 + 1, Len(A)))
        /\ x < After(c, x) /\ After(c, x) <= q
  BY <1>2, LaidSplit
<1>4. SubSeq(A, 1, 1 - 1) = <<>>
  BY SubSeqEmpty
<1>5. x = p
  BY <1>3, <1>4, LaidEmpty
<1>6. Tail(A) = SubSeq(A, 1 + 1, Len(A))
  BY <1>1, <1>2
<1>7. /\ Tail(A) \in Seq(ElementRecord) /\ Len(A) = Len(Tail(A)) + 1
      /\ A = <<A[1]>> \o Tail(A)
  BY <1>1, <1>2
<1> QED BY <1>1, <1>3, <1>5, <1>6, <1>7

LEMMA RunExcept ==
  ASSUME NEW r \in [ok : BOOLEAN, elements : Seq(ElementRecord), stop : Nat], NEW B
  PROVE  [r EXCEPT !.elements = B] = [ok |-> r.ok, elements |-> B, stop |-> r.stop]
  OBVIOUS

LEMMA WalkedRun ==
  ASSUME NEW c, NEW x, NEW B \in Seq(ElementRecord), NEW q \in Nat
  PROVE  Walked(c, x, [ok |-> TRUE, elements |-> B, stop |-> q]) =
           [ok |-> TRUE, elements |-> <<ElementAt(c, x)>> \o B, stop |-> q]
<1> DEFINE e == ElementAt(c, x)
           r == [ok |-> TRUE, elements |-> B, stop |-> q]
           C == <<e>> \o r.elements
<1>1. r \in [ok : BOOLEAN, elements : Seq(ElementRecord), stop : Nat]
  OBVIOUS
<1>2. r.ok = TRUE /\ r.elements = B /\ r.stop = q
  OBVIOUS
<1> HIDE DEF r, C
<1>3. Walked(c, x, r) = [r EXCEPT !.elements = C]
  BY DEF Walked, C
<1>4. [r EXCEPT !.elements = C] = [ok |-> TRUE, elements |-> C, stop |-> q]
  BY <1>1, <1>2, RunExcept
<1>5. C = <<e>> \o B
  BY <1>2 DEF C
<1> QED BY <1>3, <1>4, <1>5 DEF r

\* What the iterator yields: the elements up to the terminator.
LEMMA LaidIterates ==
  ASSUME NEW c \in Cells, NEW p, NEW q \in 1 .. Len(c), NEW A, Laid(c, p, q, A), c[q] = NUL
  PROVE  Iterate(c, p) = [ok |-> TRUE, elements |-> A, stop |-> q]
<1> DEFINE Run(B) == [ok |-> TRUE, elements |-> B, stop |-> q]
           Holds(B, x) == Laid(c, x, q, B) => Iterate(c, x) = Run(B)
           U == {n \in Nat : \A B \in Seq(ElementRecord), x \in Nat : Len(B) = n => Holds(B, x)}
<1>0. Len(c) \in Nat /\ q \in 1 .. Len(c) + 1 /\ q \in Nat
  BY DEF Cells
<1>1. ASSUME NEW x \in Nat PROVE Holds(<<>>, x)
  <2> SUFFICES ASSUME Laid(c, x, q, <<>>) PROVE Iterate(c, x) = Run(<<>>)
    OBVIOUS
  <2>1. x = q
    BY LaidEmpty
  <2> QED BY <1>0, <2>1, IterateUnfolds
<1>2. ASSUME NEW n \in U PROVE n + 1 \in U
  <2> SUFFICES ASSUME NEW B \in Seq(ElementRecord), NEW x \in Nat, Len(B) = n + 1, Laid(c, x, q, B)
               PROVE  Iterate(c, x) = Run(B)
    OBVIOUS
  <2> DEFINE y == After(c, x)
             C == Tail(B)
  <2>1. B # <<>>
    BY EmptySeq
  <2>2. /\ Proper(c, x) /\ B[1] = ElementAt(c, x) /\ Laid(c, y, q, C)
        /\ C \in Seq(ElementRecord) /\ Len(B) = Len(C) + 1 /\ B = <<B[1]>> \o C
        /\ x \in Nat \ {0} /\ x < y
    <3> HIDE DEF U
    <3> QED BY <2>1, LaidFirst
  <2> HIDE DEF C, y
  <2>3. y \in Nat /\ Len(C) = n
    <3>1. Len(C) \in Nat /\ n \in Nat
      BY <2>2
    <3> QED BY <2>2, <3>1 DEF Laid
  <2>4. Iterate(c, y) = Run(C)
    BY <2>2, <2>3
  <2>5. x \in 1 .. Len(c) + 1 /\ x <= Len(c) /\ c[x] # NUL /\ Good(c, x)
    BY <1>0, <2>2, ProperFacts DEF Proper
  <2>6. Iterate(c, x) = Walked(c, x, Run(C))
    <3> HIDE DEF Run, U
    <3> QED BY <2>4, <2>5, IterateUnfolds DEF y
  <2>7. Walked(c, x, Run(C)) = Run(<<ElementAt(c, x)>> \o C)
    <3> HIDE DEF U
    <3> QED BY <1>0, <2>2, WalkedRun
  <2> QED BY <2>2, <2>6, <2>7
<1>3. U = Nat
  <2>1. U \in SUBSET Nat
    OBVIOUS
  <2>2. 0 \in U
    <3>1. \A B \in Seq(ElementRecord) : Len(B) = 0 => B = <<>>
      BY EmptySeq
    <3> QED BY <1>1, <3>1
  <2> HIDE DEF U
  <2> QED BY <1>2, <2>1, <2>2, Induction
<1>4. A \in Seq(ElementRecord) /\ p \in Nat
  BY DEF Laid
<1>5. Len(A) \in U
  BY <1>3, <1>4
<1> QED BY <1>4, <1>5

-----------------------------------------------------------------------------
(* What is written *)

\* A value that is written whole, and is no regular expression, makes an element.
LEMMA ElementWritten ==
  ASSUME NEW d \in Cells, NEW q \in Nat \ {0}, NEW v, IsWhole(v), v.id # Regex,
         NEW key \in Nat \ {NUL},
         q + 2 + Len(v.cells) <= Len(d),
         d[q] = v.id, d[q + 1] = key, d[q + 2] = NUL,
         Same(v.cells, 1, Len(v.cells), d, q + 3)
  PROVE  LET e == [key |-> key, id |-> v.id, cells |-> v.cells]
         IN  Laid(d, q, q + 3 + Len(v.cells), <<e>>)
<1> DEFINE w == v.cells
           id == v.id
           n == Len(w)
           e == [key |-> key, id |-> id, cells |-> w]
<1>0. /\ w \in Seq(Nat) /\ Readable(id, w, 1) /\ ValueSize(id, w, 1) = n
      /\ id # Regex /\ q + 2 + n <= Len(d)
      /\ d[q] = id /\ Same(w, 1, n, d, q + 3)
  BY DEF IsWhole
<1> SUFFICES Laid(d, q, q + 3 + n, <<e>>)
  OBVIOUS
<1> HIDE DEF w, id
<1>1. w \in Cells /\ n \in Nat /\ Len(d) \in Nat /\ q + 2 <= Len(d)
  <2>1. w \in Cells
    BY <1>0 DEF Cells
  <2>2. n \in Nat /\ Len(d) \in Nat
    BY <1>0 DEF Cells
  <2> QED BY <1>0, <2>1, <2>2
<1>2. id # Null => 1 <= n
  BY <1>0 DEF Readable
<1>3. Readable(id, d, q + 3) /\ ValueSize(id, d, q + 3) = n
  <2>1. /\ n >= 1 + n - 1 /\ q + 3 \in Nat \ {0} /\ 1 \in Nat \ {0}
    BY <1>1
  <2> HIDE DEF n
  <2> QED BY <1>0, <1>1, <1>2, <2>1, SizeShift
<1> HIDE DEF n
<1>4. id # NUL
  <2>1. id \in DOMAIN FixedSize \cup {Str, Doc, Array, Binary, Regex, JavaScript, JavaScriptWithScope}
    BY <1>0 DEF Readable
  <2> QED BY <2>1 DEF FixedSize, NUL, F64, Str, Doc, Array, Binary, ObjectId, Bool, DateTime,
              Null, Regex, JavaScript, JavaScriptWithScope, I32, Timestamp, I64, F128
<1>5. NulFrom(d, q + 1) = q + 2
  <2>1. q + 1 \in Nat \ {0} /\ (q + 1) + 1 <= Len(d) /\ (q + 1) + 1 = q + 2
    BY <1>1
  <2>2. NulFrom(d, q + 1) = (q + 1) + 1
    BY <2>1, NulAfterKey
  <2> QED BY <2>1, <2>2
<1>6. Good(d, q) /\ After(d, q) = q + 3 + n
  BY <1>0, <1>3, <1>5 DEF Good, After
<1>7. Proper(d, q)
  <2>1. q <= Len(d)
    BY <1>1
  <2>2. id # Null => q + 3 + n > q + 3
    BY <1>1, <1>2
  <2> QED BY <1>0, <1>4, <1>6, <2>1, <2>2 DEF Proper
<1>8. SubSeq(d, q + 3, q + 2 + n) = w
  <2>1. SubSeq(d, q + 3, q + 2 + n) = [x \in 1 .. n |-> d[x + q + 2]]
    <3>1. (q + 2 + n) - (q + 3) + 1 = n
      BY <1>1
    <3>2. \A x \in 1 .. n : x + (q + 3) - 1 = x + q + 2
      BY <1>1
    <3> QED BY <1>1, <3>1, <3>2
  <2>2. ASSUME NEW x \in 1 .. n PROVE d[x + q + 2] = w[x]
    <3>1. (q + 3) + (x - 1) = x + q + 2
      BY <1>1
    <3> QED BY <1>0, <3>1 DEF Same
  <2>3. w = [x \in 1 .. n |-> w[x]]
    BY <1>0 DEF n
  <2> QED BY <2>1, <2>2, <2>3
<1>9. ElementAt(d, q) = e
  BY <1>0, <1>3, <1>8 DEF ElementAt
<1> QED BY <1>6, <1>7, <1>9, LaidOne

-----------------------------------------------------------------------------
(* Find *)

SearchBody(search, c, key, off) ==
  IF off > Len(c) \/ c[off] = NUL THEN Buffer!NotFound
  ELSE LET val_off == NulFrom(c, off) + 1
       IN  IF SubSeq(c, off + 1, val_off - 2) = <<key>>
             THEN [key_off |-> off, val_off |-> val_off]
           ELSE IF val_off < off \/ ~Readable(c[off], c, val_off) THEN Buffer!NotFound
           ELSE search[val_off + ValueSize(c[off], c, val_off)]

IsSearch(w, c, key, start) == w = [off \in start .. Len(c) + 1 |-> SearchBody(w, c, key, off)]

Search(c, key) == CHOOSE w : w = [off \in 2 .. Len(c) + 1 |-> SearchBody(w, c, key, off)]

\* The instance has the definitions of BsonValues for its own.
LEMMA BufferReads ==
  /\ Buffer!NUL = NUL /\ Buffer!Regex = Regex /\ Buffer!Doc = Doc /\ Buffer!Array = Array
  /\ \A c, i : Buffer!NulFrom(c, i) = NulFrom(c, i)
  /\ \A id, c, i : /\ Buffer!ValueSize(id, c, i) = ValueSize(id, c, i)
                   /\ Buffer!Readable(id, c, i) = Readable(id, c, i)
  /\ \A c, i : Buffer!Iterate(c, i) = Iterate(c, i)
  /\ \A v : Buffer!IsWhole(v) = IsWhole(v)
  /\ \A key, v : Buffer!Element(key, v) = Element(key, v)
  /\ \A id, body : Buffer!DocValue(id, body) = DocValue(id, body)
  BY DEF Buffer!F64, Buffer!Str, Buffer!Doc, Buffer!Array, Buffer!Binary, Buffer!ObjectId,
         Buffer!Bool, Buffer!DateTime, Buffer!Null, Buffer!Regex, Buffer!JavaScript,
         Buffer!JavaScriptWithScope, Buffer!I32, Buffer!Timestamp, Buffer!I64, Buffer!F128,
         Buffer!NUL, Buffer!FixedSize, Buffer!NulFrom, Buffer!ValueSize, Buffer!Readable,
         Buffer!Panic, Buffer!Iterate, Buffer!IsWhole, Buffer!Element, Buffer!DocValue,
         F64, Str, Doc, Array, Binary, ObjectId, Bool, DateTime, Null, Regex, JavaScript,
         JavaScriptWithScope, I32, Timestamp, I64, F128,
         NUL, FixedSize, NulFrom, ValueSize, Readable, Panic, Iterate, IsWhole, Element, DocValue

LEMMA FindIsSearch == ASSUME NEW key PROVE Buffer!Find(key) = Search(buf, key)[2]
  BY Zenon
     DEF Buffer!Find, Search, SearchBody,
         Buffer!F64, Buffer!Str, Buffer!Doc, Buffer!Array, Buffer!Binary, Buffer!ObjectId,
         Buffer!Bool, Buffer!DateTime, Buffer!Null, Buffer!Regex, Buffer!JavaScript,
         Buffer!JavaScriptWithScope, Buffer!I32, Buffer!Timestamp, Buffer!I64, Buffer!F128,
         Buffer!NUL, Buffer!FixedSize, Buffer!NulFrom, Buffer!ValueSize, Buffer!Readable,
         F64, Str, Doc, Array, Binary, ObjectId, Bool, DateTime, Null, Regex, JavaScript,
         JavaScriptWithScope, I32, Timestamp, I64, F128,
         NUL, FixedSize, NulFrom, ValueSize, Readable

LEMMA NulSkip ==
  ASSUME NEW c \in Cells, NEW i \in Nat \ {0}, c[i] # NUL
  PROVE  NulFrom(c, i) = NulFrom(c, i + 1)
<1> DEFINE at == {j \in i .. Len(c) : c[j] = NUL}
           bt == {j \in i + 1 .. Len(c) : c[j] = NUL}
<1>1. at = bt
  <2>1. \A j \in i .. Len(c) : j = i \/ j \in i + 1 .. Len(c)
    BY DEF Cells
  <2>2. \A j \in i + 1 .. Len(c) : j \in i .. Len(c)
    BY DEF Cells
  <2> QED BY <2>1, <2>2
<1>2. NulFrom(c, i) = IF at = {} THEN 0 ELSE CHOOSE j \in at : \A k \in at : j <= k
  BY DEF NulFrom
<1>3. NulFrom(c, i + 1) = IF bt = {} THEN 0 ELSE CHOOSE j \in bt : \A k \in bt : j <= k
  BY DEF NulFrom
<1> HIDE DEF at, bt
<1> QED BY <1>1, <1>2, <1>3

\* Where the search goes on is further on.
LEMMA SearchGoesOn ==
  ASSUME NEW c \in Cells, NEW i \in 2 .. Len(c), c[i] # NUL,
         ~(NulFrom(c, i) + 1 < i \/ ~Readable(c[i], c, NulFrom(c, i) + 1))
  PROVE  LET v == NulFrom(c, i) + 1
         IN  v + ValueSize(c[i], c, v) \in i + 1 .. Len(c) + 1
<1> DEFINE n == NulFrom(c, i)
<1>1. Len(c) \in Nat /\ i \in Nat \ {0} /\ i >= 2
  BY DEF Cells
<1>2. n # 0
  BY <1>1
<1>3. n \in i .. Len(c)
  BY <1>1, <1>2, NulFromFacts
<1>4. n + 1 \in Nat \ {0}
  BY <1>1, <1>3
<1>5. ValueSize(c[i], c, n + 1) \in Nat /\ n + 1 + ValueSize(c[i], c, n + 1) <= Len(c) + 1
  BY <1>4, SizeFacts
<1> QED BY <1>1, <1>3, <1>5

LEMMA SearchLocal ==
  ASSUME NEW c \in Cells, NEW key, NEW i \in 2 .. Len(c) + 1, NEW f, NEW g,
         \A j \in i + 1 .. Len(c) + 1 : f[j] = g[j]
  PROVE  SearchBody(f, c, key, i) = SearchBody(g, c, key, i)
<1>1. Len(c) \in Nat
  BY DEF Cells
<1> DEFINE v == NulFrom(c, i) + 1
           next_ == v + ValueSize(c[i], c, v)
<1>2. CASE i > Len(c) \/ c[i] = NUL
  BY <1>2 DEF SearchBody
<1>3. CASE ~(i > Len(c) \/ c[i] = NUL)
  <2>1. ~(v < i \/ ~Readable(c[i], c, v)) => next_ \in i + 1 .. Len(c) + 1
    BY <1>1, <1>3, SearchGoesOn
  <2> HIDE DEF v, next_
  <2>2. ~(v < i \/ ~Readable(c[i], c, v)) => f[next_] = g[next_]
    BY <2>1
  <2> QED BY <1>3, <2>2 DEF SearchBody, v, next_
<1> QED BY <1>2, <1>3

LEMMA SearchAt ==
  ASSUME NEW c, NEW key, NEW start, NEW w, IsSearch(w, c, key, start), NEW i \in start .. Len(c) + 1
  PROVE  w[i] = SearchBody(w, c, key, i)
<1> DEFINE W(j) == SearchBody(w, c, key, j)
<1>1. w = [j \in start .. Len(c) + 1 |-> W(j)]
  BY DEF IsSearch
<1> HIDE DEF W
<1>2. w[i] = W(i)
  BY <1>1
<1> QED BY <1>2 DEF W

LEMMA SearchExists ==
  ASSUME NEW c \in Cells, NEW key, Len(c) >= 1
  PROVE  IsSearch(Search(c, key), c, key, 2)
<1> DEFINE L == Len(c) + 1
           U == {k \in Nat : L - k >= 2 => \E w : IsSearch(w, c, key, L - k)}
<1>0. L \in Nat /\ L >= 2
  BY DEF Cells
<1>1. 0 \in U
  <2> DEFINE w == [i \in L .. L |-> Buffer!NotFound]
  <2>1. w = [i \in L .. L |-> SearchBody(w, c, key, i)]
    <3>1. \A i \in L .. L : i > Len(c)
      BY <1>0
    <3> HIDE DEF L
    <3>2. \A i \in L .. L : SearchBody(w, c, key, i) = Buffer!NotFound
      BY <3>1 DEF SearchBody
    <3> QED BY <3>2
  <2>2. L - 0 = L
    BY <1>0
  <2> HIDE DEF w
  <2>3. IsSearch(w, c, key, L)
    BY <2>1 DEF IsSearch
  <2> QED BY <2>2, <2>3
<1>2. ASSUME NEW k \in U PROVE k + 1 \in U
  <2> SUFFICES ASSUME L - (k + 1) >= 2 PROVE \E w : IsSearch(w, c, key, L - (k + 1))
    OBVIOUS
  <2> DEFINE a == L - k
             b == L - (k + 1)
  <2>1. PICK g : IsSearch(g, c, key, a)
    BY <1>0
  <2>2. a \in 2 .. L /\ b \in 2 .. L /\ a = b + 1
    BY <1>0
  <2> DEFINE w == [i \in b .. L |-> IF i = b THEN SearchBody(g, c, key, b) ELSE g[i]]
  <2> HIDE DEF a, b
  <2>3. \A i \in b .. L : i = b \/ i \in a .. L
    BY <1>0, <2>2
  <2>4. ASSUME NEW i \in a .. L PROVE w[i] = g[i] /\ g[i] = SearchBody(g, c, key, i)
    <3>1. i \in b .. L /\ i # b
      BY <1>0, <2>2
    <3>2. w[i] = g[i]
      BY <3>1
    <3> HIDE DEF w
    <3> QED BY <2>1, <3>2, SearchAt
  <2>5. w[b] = SearchBody(g, c, key, b)
    BY <1>0, <2>2
  <2>6. ASSUME NEW i \in b .. L PROVE w[i] = SearchBody(w, c, key, i)
    <3>1. i \in 2 .. Len(c) + 1 /\ \A j \in i + 1 .. Len(c) + 1 : j \in a .. L
      BY <1>0, <2>2
    <3>2. w[i] = SearchBody(g, c, key, i)
      BY <2>3, <2>4, <2>5
    <3>3. \A j \in i + 1 .. Len(c) + 1 : g[j] = w[j]
      BY <2>4, <3>1
    <3> HIDE DEF w
    <3> QED BY <3>1, <3>2, <3>3, SearchLocal
  <2>7. w = [i \in b .. L |-> SearchBody(w, c, key, i)]
    <3> DEFINE W(i) == SearchBody(w, c, key, i)
    <3>1. w = [i \in b .. L |-> w[i]]
      OBVIOUS
    <3>2. \A i \in b .. L : w[i] = W(i)
      BY <2>6
    <3> HIDE DEF w, W
    <3>3. w = [i \in b .. L |-> W(i)]
      BY <3>1, <3>2
    <3> QED BY <3>3 DEF W
  <2> QED BY <2>7 DEF IsSearch, b
<1>3. U = Nat
  <2>1. U \in SUBSET Nat
    OBVIOUS
  <2> HIDE DEF U
  <2> QED BY <1>1, <1>2, <2>1, Induction
<1>4. \E w : IsSearch(w, c, key, 2)
  <2>1. L - 2 \in Nat /\ L - (L - 2) = 2
    BY <1>0
  <2>2. L - 2 \in U
    BY <1>3, <2>1
  <2>3. \E w : IsSearch(w, c, key, L - (L - 2))
    BY <2>1, <2>2
  <2> QED BY <2>1, <2>3
<1> QED BY <1>4 DEF IsSearch, Search

LEMMA SubSeqOne ==
  ASSUME NEW c \in Cells, NEW i \in 1 .. Len(c)
  PROVE  SubSeq(c, i, i) = <<c[i]>>
<1> DEFINE s == SubSeq(c, i, i)
<1>1. i \in Int /\ \A j \in i .. i : c[j] \in Nat
  BY DEF Cells
<1>2. i \in Int /\ i <= i /\ i - i + 1 = 1 /\ i + 1 - 1 = i /\ 1 \in 1 .. 1
  BY DEF Cells
<1>3. s \in Seq(Nat) /\ Len(s) = 1 /\ s[1] = c[i]
  <2>1. /\ s \in Seq(Nat)
        /\ Len(s) = IF i <= i THEN i - i + 1 ELSE 0
        /\ \A j \in 1 .. i - i + 1 : s[j] = c[i + j - 1]
    BY <1>1, SubSeqProperties
  <2> HIDE DEF s
  <2> QED BY <1>2, <2>1
<1> DEFINE x == c[i]
           t == <<x>>
<1>4. x \in Nat
  BY <1>1, <1>2
<1> HIDE DEF x
<1>5. t \in Seq(Nat) /\ Len(t) = 1 /\ t[1] = x
  BY <1>4
<1> HIDE DEF s, t
<1>6. Len(s) = Len(t) /\ \A j \in 1 .. Len(s) : s[j] = t[j]
  <2>1. \A j \in 1 .. 1 : j = 1
    OBVIOUS
  <2> QED BY <1>3, <1>5, <2>1 DEF x
<1>7. s = t
  BY <1>3, <1>5, <1>6, SeqEqual
<1> QED BY <1>7 DEF s, t, x

LEMMA Associative ==
  \A s, t, u \in Seq(ElementRecord) : (s \o t) \o u = s \o (t \o u)
  BY ConcatAssociative

LEMMA Around ==
  ASSUME NEW e \in ElementRecord, NEW g \in ElementRecord,
         NEW D \in Seq(ElementRecord), NEW E \in Seq(ElementRecord)
  PROVE  <<e>> \o (D \o <<g>> \o E) = (<<e>> \o D) \o <<g>> \o E
<1> DEFINE a == <<e>>
           b == <<g>>
           S == Seq(ElementRecord)
           f == D \o b
<1>1. a \in S /\ b \in S /\ f \in S
  OBVIOUS
<1>2. a \o f = (a \o D) \o b
  <2> HIDE DEF a, b
  <2> QED BY <1>1, Associative, SMTT(30)
<1> HIDE DEF a, b, f
<1>3. a \o (f \o E) = (a \o f) \o E
  BY <1>1, Associative, ZenonT(60)
<1> QED BY <1>2, <1>3 DEF a, b, f

LEMMA Prefixed ==
  ASSUME NEW e \in ElementRecord, NEW D \in Seq(ElementRecord)
  PROVE  /\ <<e>> \o D \in Seq(ElementRecord) /\ Len(<<e>> \o D) = Len(D) + 1
         /\ (<<e>> \o D)[1] = e
         /\ \A i \in 1 .. Len(D) + 1 : i = 1 \/ (i - 1 \in 1 .. Len(D) /\ (<<e>> \o D)[i] = D[i - 1])
  OBVIOUS

\* A search that ends at r: nothing before, and what lies around it.
Hit(c, p, q, A, key, r) ==
  \/ /\ r = Buffer!NotFound
     /\ \A i \in 1 .. Len(A) : A[i].key # key
  \/ \E x \in Nat \ {0}, B, C \in Seq(ElementRecord) :
       /\ r = [key_off |-> x, val_off |-> x + 3]
       /\ Laid(c, p, x, B) /\ \A i \in 1 .. Len(B) : B[i].key # key
       /\ Proper(c, x) /\ c[x + 1] = key
       /\ Laid(c, After(c, x), q, C)
       /\ A = B \o <<ElementAt(c, x)>> \o C

LEMMA SearchHits ==
  ASSUME NEW c \in Cells, NEW key \in Nat, NEW q \in 2 .. Len(c), c[q] = NUL,
         NEW p \in 2 .. Len(c), NEW A, Laid(c, p, q, A)
  PROVE  Hit(c, p, q, A, key, Search(c, key)[p])
<1> DEFINE w == Search(c, key)
           Holds(B, x) == x \in 2 .. Len(c) /\ Laid(c, x, q, B) => Hit(c, x, q, B, key, w[x])
           U == {n \in Nat : \A B \in Seq(ElementRecord), x \in Nat : Len(B) = n => Holds(B, x)}
<1>0. Len(c) \in Nat /\ Len(c) >= 1 /\ q \in Nat
  BY DEF Cells
<1>1. IsSearch(w, c, key, 2)
  BY <1>0, SearchExists
<1> HIDE DEF w
<1>2. ASSUME NEW x \in 2 .. Len(c) PROVE w[x] = SearchBody(w, c, key, x)
  BY <1>0, <1>1, SearchAt
<1>3. ASSUME NEW x \in Nat PROVE Holds(<<>>, x)
  <2> SUFFICES ASSUME x \in 2 .. Len(c), Laid(c, x, q, <<>>) PROVE Hit(c, x, q, <<>>, key, w[x])
    OBVIOUS
  <2>1. x = q
    BY LaidEmpty
  <2>2. w[x] = Buffer!NotFound
    BY <1>2, <2>1 DEF SearchBody
  <2>3. \A i \in 1 .. Len(<<>>) : FALSE
    BY EmptySeq
  <2> QED BY <2>2, <2>3 DEF Hit
<1>4. ASSUME NEW n \in U PROVE n + 1 \in U
  <2> SUFFICES ASSUME NEW B \in Seq(ElementRecord), NEW x \in 2 .. Len(c), Len(B) = n + 1,
                      Laid(c, x, q, B)
               PROVE  Hit(c, x, q, B, key, w[x])
    OBVIOUS
  <2> DEFINE y == After(c, x)
             e == ElementAt(c, x)
             C == Tail(B)
  <2>1. B # <<>>
    BY EmptySeq
  <2>2. /\ Proper(c, x) /\ B[1] = e /\ Laid(c, y, q, C)
        /\ C \in Seq(ElementRecord) /\ Len(B) = Len(C) + 1 /\ B = <<e>> \o C
        /\ x \in Nat \ {0} /\ x < y /\ y <= q
    <3> HIDE DEF U
    <3> QED BY <2>1, LaidFirst
  <2>3. NulFrom(c, x) = x + 2 /\ Readable(c[x], c, x + 3)
    BY <2>2, ProperFacts, NulSkip DEF Proper
  <2>4. x \in 1 .. Len(c) /\ x + 2 <= Len(c) /\ c[x] # NUL /\ e \in ElementRecord
    BY <2>2, ProperFacts DEF Proper
  <2>5. SubSeq(c, x + 1, (x + 3) - 2) = <<c[x + 1]>>
    <3>1. (x + 3) - 2 = x + 1 /\ x + 1 \in 1 .. Len(c)
      BY <1>0, <2>2, <2>4
    <3>2. SubSeq(c, x + 1, x + 1) = <<c[x + 1]>>
      BY <3>1, SubSeqOne
    <3> QED BY <3>1, <3>2
  <2>6. w[x] = IF <<c[x + 1]>> = <<key>> THEN [key_off |-> x, val_off |-> x + 3] ELSE w[y]
    <3>1. (x + 2) + 1 = x + 3 /\ ~(x + 3 < x) /\ ~(x > Len(c))
      BY <1>0, <2>2, <2>4
    <3>2. w[x] = SearchBody(w, c, key, x)
      BY <1>2
    <3> HIDE DEF U, e
    <3> QED BY <2>3, <2>4, <2>5, <3>1, <3>2 DEF SearchBody, After
  <2>7. e.key = c[x + 1]
    BY DEF ElementAt
  <2>8. y \in Nat /\ y \in 2 .. Len(c) /\ Len(C) = n
    <3>1. n \in Nat /\ Len(C) \in Nat
      BY <2>2
    <3>2. y \in Nat
      BY <2>2 DEF Laid
    <3> HIDE DEF U, y, C
    <3> QED BY <1>0, <2>2, <3>1, <3>2
  <2>9. Laid(c, x, y, <<e>>)
    BY <2>2, LaidOne
  <2> HIDE DEF e, C
  <2>10. CASE c[x + 1] = key
    <3>1. w[x] = [key_off |-> x, val_off |-> x + 3]
      BY <2>6, <2>10
    <3>2. Laid(c, x, x, <<>>) /\ \A i \in 1 .. Len(<<>>) : FALSE
      BY <2>2, LaidNone, EmptySeq
    <3>3. B = <<>> \o <<e>> \o C /\ <<>> \in Seq(ElementRecord)
      BY <2>2, <2>4, EmptySeq
    <3>4. /\ Laid(c, x, x, <<>>) /\ \A i \in 1 .. Len(<<>>) : <<>>[i].key # key
          /\ Laid(c, After(c, x), q, C) /\ B = <<>> \o <<ElementAt(c, x)>> \o C
      BY <2>2, <3>2, <3>3 DEF e
    <3> HIDE DEF U
    <3> QED BY <2>2, <2>10, <3>1, <3>3, <3>4 DEF Hit
  <2>11. CASE c[x + 1] # key
    <3>1. w[x] = w[y]
      BY <2>6, <2>11
    <3>2. Hit(c, y, q, C, key, w[y])
      BY <2>2, <2>8
    <3>3. CASE w[y] = Buffer!NotFound /\ \A i \in 1 .. Len(C) : C[i].key # key
      <4>1. ASSUME NEW i \in 1 .. Len(B) PROVE B[i].key # key
        <5>1. i = 1 \/ (i - 1 \in 1 .. Len(C) /\ B[i] = C[i - 1])
          BY <2>2, <2>4
        <5> QED BY <2>2, <2>7, <2>11, <3>3, <5>1
      <4> QED BY <3>1, <3>3, <4>1 DEF Hit
    <3>4. ASSUME NEW z \in Nat \ {0}, NEW D \in Seq(ElementRecord), NEW E \in Seq(ElementRecord),
                 w[y] = [key_off |-> z, val_off |-> z + 3],
                 Laid(c, y, z, D), \A i \in 1 .. Len(D) : D[i].key # key,
                 Proper(c, z), c[z + 1] = key, Laid(c, After(c, z), q, E),
                 C = D \o <<ElementAt(c, z)>> \o E
          PROVE  Hit(c, x, q, B, key, w[x])
      <4> DEFINE F == <<e>> \o D
                 g == ElementAt(c, z)
      <4>1. Laid(c, x, z, F)
        BY <2>9, <3>4, LaidConcat
      <4>2. F \in Seq(ElementRecord) /\ \A i \in 1 .. Len(F) : F[i].key # key
        <5>1. /\ F \in Seq(ElementRecord) /\ Len(F) = Len(D) + 1 /\ F[1] = e
              /\ \A i \in 1 .. Len(D) + 1 : i = 1 \/ (i - 1 \in 1 .. Len(D) /\ F[i] = D[i - 1])
          BY <2>4, Prefixed
        <5> HIDE DEF F
        <5> QED BY <2>7, <2>11, <3>4, <5>1
      <4>3. g \in ElementRecord
        BY <3>4, ProperFacts
      <4>4. B = F \o <<g>> \o E
        <5> HIDE DEF g
        <5>1. B = <<e>> \o (D \o <<g>> \o E)
          BY <2>2, <3>4 DEF g
        <5>2. <<e>> \o (D \o <<g>> \o E) = (<<e>> \o D) \o <<g>> \o E
          <6> HIDE DEF U, F
          <6> QED BY <2>4, <4>3, Around, ZenonT(60)
        <5> QED BY <5>1, <5>2
      <4> HIDE DEF F
      <4> QED BY <3>1, <3>4, <4>1, <4>2, <4>4 DEF Hit
    <3> QED BY <3>2, <3>3, <3>4 DEF Hit
  <2> QED BY <2>10, <2>11
<1>5. U = Nat
  <2>1. U \in SUBSET Nat
    OBVIOUS
  <2>2. 0 \in U
    <3>1. \A B \in Seq(ElementRecord) : Len(B) = 0 => B = <<>>
      BY EmptySeq
    <3> QED BY <1>3, <3>1
  <2> HIDE DEF U
  <2> QED BY <1>4, <2>1, <2>2, Induction
<1>6. A \in Seq(ElementRecord) /\ p \in Nat
  BY <1>0 DEF Laid
<1>7. Len(A) \in U
  BY <1>5, <1>6
<1> QED BY <1>6, <1>7 DEF w

-----------------------------------------------------------------------------
(* Edits *)

\* The buffer holds the elements A, and its length is theirs.
Document(c, A) ==
  /\ c \in Cells /\ c[1] \in 2 .. Len(c) /\ c[c[1]] = NUL
  /\ Laid(c, 2, c[1], A)

LEMMA LenNat == \A c \in Cells : Len(c) \in Nat
  BY DEF Cells

LEMMA CellsConcat ==
  ASSUME NEW a \in Cells, NEW w \in Cells
  PROVE  /\ a \o w \in Cells /\ Len(a \o w) = Len(a) + Len(w)
         /\ Len(a) \in Nat /\ Len(w) \in Nat
         /\ \A i \in 1 .. Len(a) : (a \o w)[i] = a[i]
         /\ \A i \in 1 .. Len(w) : (a \o w)[Len(a) + i] = w[i]
  BY DEF Cells

\* The cells of a spliced buffer: those of a, w, c from y on, and z, under a length.
IsSplice(d, a, w, c, y, z, len) == d = [a \o w \o SubSeq(c, y, Len(c)) \o z EXCEPT ![1] = len]

LEMMA Spliced ==
  ASSUME NEW c \in Cells, NEW a \in Cells, NEW w \in Cells, NEW z \in Cells,
         Len(a) >= 1, NEW y \in 1 .. Len(c) + 1, NEW len \in Nat,
         NEW d, IsSplice(d, a, w, c, y, z, len)
  PROVE  /\ d \in Cells /\ Len(d) = Len(a) + Len(w) + (Len(c) + 1 - y) + Len(z)
         /\ d[1] = len
         /\ \A i \in 2 .. Len(a) : d[i] = a[i]
         /\ Same(w, 1, Len(w), d, Len(a) + 1)
         /\ Same(c, y, Len(c), d, Len(a) + Len(w) + 1)
<1> DEFINE t == SubSeq(c, y, Len(c))
           m == Len(c) + 1 - y
           aw == a \o w
           awt == aw \o t
           s == awt \o z
<1>1. Len(c) \in Nat /\ y \in Nat \ {0} /\ m \in Nat
  BY DEF Cells
<1>2. t \in Cells /\ Len(t) = m /\ \A i \in 1 .. m : t[i] = c[y + i - 1]
  <2>1. y \in Int /\ Len(c) \in Int /\ \A i \in y .. Len(c) : c[i] \in Nat
    BY <1>1 DEF Cells
  <2>2. /\ t \in Seq(Nat)
        /\ Len(t) = IF y <= Len(c) THEN Len(c) - y + 1 ELSE 0
        /\ \A i \in 1 .. Len(c) - y + 1 : t[i] = c[y + i - 1]
    BY <2>1, SubSeqProperties
  <2>3. (IF y <= Len(c) THEN Len(c) - y + 1 ELSE 0) = m /\ Len(c) - y + 1 = m
    BY <1>1
  <2> HIDE DEF t, m
  <2> QED BY <2>2, <2>3 DEF Cells
<1> HIDE DEF t, m
<1>3. /\ aw \in Cells /\ Len(aw) = Len(a) + Len(w) /\ Len(a) \in Nat /\ Len(w) \in Nat
      /\ \A i \in 1 .. Len(a) : aw[i] = a[i]
      /\ \A i \in 1 .. Len(w) : aw[Len(a) + i] = w[i]
  BY CellsConcat
<1> HIDE DEF aw
<1>4. /\ awt \in Cells /\ Len(awt) = Len(aw) + m
      /\ \A i \in 1 .. Len(aw) : awt[i] = aw[i]
      /\ \A i \in 1 .. m : awt[Len(aw) + i] = t[i]
  BY <1>2, <1>3, CellsConcat
<1> HIDE DEF awt
<1>5. /\ s \in Cells /\ Len(s) = Len(awt) + Len(z) /\ Len(z) \in Nat
      /\ \A i \in 1 .. Len(awt) : s[i] = awt[i]
  BY <1>4, CellsConcat
<1>6. d = [s EXCEPT ![1] = len]
  BY DEF aw, awt, t, IsSplice
<1> HIDE DEF s
<1> DEFINE la == Len(a)
           lw == Len(w)
           lz == Len(z)
<1>7. /\ la \in Nat /\ lw \in Nat /\ lz \in Nat /\ la >= 1
      /\ Len(s) = la + lw + m + lz /\ Len(awt) = la + lw + m /\ Len(aw) = la + lw
  BY <1>1, <1>3, <1>4, <1>5
<1> HIDE DEF la, lw, lz
<1>8. d \in Cells /\ Len(d) = Len(s) /\ d[1] = len /\ \A i \in 2 .. Len(s) : d[i] = s[i]
  <2>1. 1 \in 1 .. Len(s)
    BY <1>1, <1>7
  <2>2. /\ d \in Seq(Nat) /\ Len(d) = Len(s)
        /\ \A j \in 1 .. Len(s) : d[j] = IF j = 1 THEN len ELSE s[j]
    <3>1. s \in Seq(Nat)
      BY <1>5 DEF Cells
    <3> QED BY <1>6, <2>1, <3>1, ExceptSeq
  <2>3. \A j \in 2 .. Len(s) : j \in 1 .. Len(s) /\ j # 1
    OBVIOUS
  <2> QED BY <2>1, <2>2, <2>3 DEF Cells
<1>9. \A i \in 2 .. la : d[i] = a[i]
  <2> SUFFICES ASSUME NEW i \in 2 .. la PROVE d[i] = a[i]
    OBVIOUS
  <2>1. i \in 2 .. Len(s) /\ i \in 1 .. Len(awt) /\ i \in 1 .. Len(aw) /\ i \in 1 .. la
    BY <1>1, <1>7
  <2> QED BY <1>3, <1>4, <1>5, <1>8, <2>1 DEF la
<1>10. \A i \in 1 .. lw : d[la + i] = w[i]
  <2> SUFFICES ASSUME NEW i \in 1 .. lw PROVE d[la + i] = w[i]
    OBVIOUS
  <2>1. la + i \in 2 .. Len(s) /\ la + i \in 1 .. Len(awt) /\ la + i \in 1 .. Len(aw)
    BY <1>1, <1>7
  <2>2. aw[la + i] = w[i]
    BY <1>3 DEF la, lw
  <2> QED BY <1>4, <1>5, <1>8, <2>1, <2>2
<1>11. \A i \in 1 .. m : d[la + lw + i] = c[y + i - 1]
  <2> SUFFICES ASSUME NEW i \in 1 .. m PROVE d[la + lw + i] = c[y + i - 1]
    OBVIOUS
  <2>1. la + lw + i \in 2 .. Len(s) /\ la + lw + i \in 1 .. Len(awt)
    BY <1>1, <1>7
  <2>2. awt[la + lw + i] = t[i]
    BY <1>4, <1>7
  <2> QED BY <1>2, <1>5, <1>8, <2>1, <2>2
<1>12. Same(w, 1, lw, d, la + 1)
  <2>1. (la + 1) + (lw - 1) <= Len(d)
    BY <1>1, <1>7, <1>8
  <2>2. \A x \in 1 .. lw : (la + 1) + (x - 1) = la + x
    BY <1>7
  <2>3. \A x \in 1 .. lw : d[(la + 1) + (x - 1)] = w[x]
    BY <1>10, <2>2
  <2> QED BY <1>7, <2>1, <2>3 DEF Same, lw
<1>13. Same(c, y, Len(c), d, la + lw + 1)
  <2>1. (la + lw + 1) + (Len(c) - y) <= Len(d)
    BY <1>1, <1>7, <1>8 DEF m
  <2>2. ASSUME NEW x \in y .. Len(c) PROVE d[(la + lw + 1) + (x - y)] = c[x]
    <3> DEFINE i == x - y + 1
    <3>1. i \in 1 .. m /\ (la + lw + 1) + (x - y) = la + lw + i /\ y + i - 1 = x
      BY <1>1, <1>7 DEF m
    <3> HIDE DEF i
    <3> QED BY <1>11, <3>1
  <2> QED BY <1>1, <2>1, <2>2 DEF Same
<1> QED BY <1>7, <1>8, <1>9, <1>12, <1>13 DEF la, lw, lz, m

LEMMA EditedSizes ==
  ASSUME NEW s \in Nat, NEW x \in Nat, NEW y \in Nat, NEW m \in Nat, NEW L \in Nat, NEW K \in Nat,
         NEW e, s >= 2, x >= 2, x <= y, y <= s, s <= L,
         (x + m) + (s - y) = e, (x + m) + (L - y) <= K
  PROVE  e \in 2 .. K /\ x - 1 <= K /\ x - 1 <= L
  OBVIOUS

\* Elements B in place of those between x and y.
LEMMA Edited ==
  ASSUME NEW c \in Cells, NEW d \in Cells, NEW x \in Nat \ {0}, NEW y \in Nat, NEW m \in Nat,
         NEW A, NEW B, NEW C,
         c[1] \in 2 .. Len(c), c[c[1]] = NUL,
         2 <= x, x <= y, y <= c[1],
         Laid(c, 2, x, A), Laid(c, y, c[1], C),
         d[1] = (c[1] + m) - (y - x),
         \A i \in 2 .. x - 1 : d[i] = c[i],
         Laid(d, x, x + m, B),
         Same(c, y, Len(c), d, x + m)
  PROVE  Document(d, A \o B \o C)
<1> DEFINE s == c[1]
           e == d[1]
<1>1. Len(c) \in Nat /\ Len(d) \in Nat /\ s \in Nat
  <2>1. Len(c) \in Nat /\ Len(d) \in Nat
    BY Zenon, LenNat
  <2> QED BY <2>1
<1>2. s \in 2 .. Len(c) /\ y <= s /\ e = (s + m) - (y - x)
  OBVIOUS
<1> HIDE DEF s, e
<1>3. s \in y .. Len(c) /\ (x + m) + (s - y) = e /\ (x + m) + (Len(c) - y) <= Len(d)
  BY <1>1, <1>2 DEF Same
<1>4. e \in 2 .. Len(d) /\ x - 1 <= Len(d) /\ x - 1 <= Len(c)
  <2> DEFINE L == Len(c)
             K == Len(d)
  <2>1. /\ L \in Nat /\ K \in Nat /\ s \in Nat /\ s >= 2
        /\ y <= s /\ s <= L /\ (x + m) + (s - y) = e /\ (x + m) + (L - y) <= K
    BY <1>1, <1>2, <1>3
  <2> HIDE DEF L, K
  <2>2. x \in Nat /\ x >= 2 /\ x <= y
    OBVIOUS
  <2>3. e \in 2 .. K /\ x - 1 <= K /\ x - 1 <= L
    BY <2>1, <2>2, EditedSizes
  <2> QED BY <2>3 DEF L, K
<1>5. d[e] = NUL
  <2>1. d[(x + m) + (s - y)] = c[s]
    BY <1>3 DEF Same
  <2> QED BY <1>3, <2>1 DEF s
<1>6. Laid(d, 2, x, A)
  <2>1. \A i \in 2 .. x - 1 : 2 + (i - 2) = i
    OBVIOUS
  <2>2. Same(c, 2, x - 1, d, 2)
    <3>1. 2 + ((x - 1) - 2) = x - 1
      OBVIOUS
    <3> QED BY <1>4, <2>1, <3>1 DEF Same
  <2>3. Laid(d, 2, 2 + (x - 2), A)
    BY <2>2, LaidShift
  <2>4. 2 + (x - 2) = x
    OBVIOUS
  <2> QED BY <2>3, <2>4
<1>7. Laid(d, x + m, e, C)
  <2>1. Same(c, y, s - 1, d, x + m)
    <3>1. \A i \in y .. s - 1 : i \in y .. Len(c)
      BY <1>1, <1>2
    <3>2. s - 1 <= Len(c) /\ (x + m) + ((s - 1) - y) <= Len(d)
      BY <1>1, <1>2, <1>3, SMTT(30)
    <3> QED BY <3>1, <3>2 DEF Same
  <2>2. x + m \in Nat \ {0}
    OBVIOUS
  <2>3. Laid(c, y, s, C)
    BY DEF s
  <2>4. Laid(d, x + m, (x + m) + (s - y), C)
    BY <2>1, <2>2, <2>3, LaidShift
  <2> QED BY <1>3, <2>4
<1>8. Laid(d, 2, e, A \o B \o C)
  BY <1>6, <1>7, LaidConcat
<1> QED BY <1>4, <1>5, <1>8 DEF Document, e

LEMMA DocumentFacts ==
  ASSUME NEW A, Document(buf, A)
  PROVE  /\ buf \in Cells /\ Len(buf) \in Nat /\ A \in Seq(ElementRecord)
         /\ Buffer!size = buf[1] /\ buf[1] \in Nat
         /\ buf[1] >= 2 /\ buf[1] <= Len(buf) /\ buf[buf[1]] = NUL
         /\ Laid(buf, 2, buf[1], A)
<1>1. buf \in Cells /\ Len(buf) \in Nat
  BY LenNat DEF Document
<1>2. buf[1] \in 2 .. Len(buf) /\ buf[buf[1]] = NUL /\ Laid(buf, 2, buf[1], A)
  BY DEF Document
<1>3. buf[1] \in Nat /\ buf[1] >= 2 /\ buf[1] <= Len(buf)
  BY <1>1, <1>2
<1> QED BY <1>1, <1>2, <1>3 DEF Buffer!size, Laid

\* The cells before a place.
LEMMA Front ==
  ASSUME NEW c \in Cells, NEW n \in 0 .. Len(c)
  PROVE  /\ SubSeq(c, 1, n) \in Cells /\ Len(SubSeq(c, 1, n)) = n
         /\ \A i \in 1 .. n : SubSeq(c, 1, n)[i] = c[i]
<1> DEFINE s == SubSeq(c, 1, n)
<1>1. Len(c) \in Nat /\ n \in Nat /\ n <= Len(c)
  BY LenNat
<1>2. 1 \in Int /\ n \in Int /\ \A i \in 1 .. n : c[i] \in Nat
  BY <1>1 DEF Cells
<1>3. /\ s \in Seq(Nat)
      /\ Len(s) = IF 1 <= n THEN n - 1 + 1 ELSE 0
      /\ \A i \in 1 .. n - 1 + 1 : s[i] = c[1 + i - 1]
  BY <1>2, SubSeqProperties
<1>4. (IF 1 <= n THEN n - 1 + 1 ELSE 0) = n /\ n - 1 + 1 = n /\ \A i \in 1 .. n : 1 + i - 1 = i
  BY <1>1
<1> HIDE DEF s
<1>5. s \in Cells /\ Len(s) = n /\ \A i \in 1 .. n : s[i] = c[i]
  BY <1>3, <1>4 DEF Cells
<1> QED BY <1>5 DEF s

LEMMA ElementCells ==
  ASSUME NEW key \in Nat, NEW v, v.cells \in Cells, v.id \in Nat
  PROVE  /\ Element(key, v) \in Cells /\ Len(Element(key, v)) = 3 + Len(v.cells)
         /\ Element(key, v)[1] = v.id /\ Element(key, v)[2] = key /\ Element(key, v)[3] = NUL
         /\ \A i \in 1 .. Len(v.cells) : Element(key, v)[3 + i] = v.cells[i]
<1> DEFINE w == v.cells
           id == v.id
           h == <<id, key, NUL>>
<1>1. w \in Cells /\ id \in Nat
  OBVIOUS
<1> HIDE DEF w, id
<1>2. h \in Cells /\ Len(h) = 3 /\ h[1] = id /\ h[2] = key /\ h[3] = NUL
  BY <1>1 DEF Cells, NUL
<1>3. Element(key, v) = h \o w
  BY DEF Element, w, id
<1> HIDE DEF h
<1>4. /\ h \o w \in Cells /\ Len(h \o w) = 3 + Len(w)
      /\ \A i \in 1 .. 3 : (h \o w)[i] = h[i]
      /\ \A i \in 1 .. Len(w) : (h \o w)[3 + i] = w[i]
  <2>1. /\ h \o w \in Cells /\ Len(h \o w) = Len(h) + Len(w)
        /\ \A i \in 1 .. Len(h) : (h \o w)[i] = h[i]
        /\ \A i \in 1 .. Len(w) : (h \o w)[Len(h) + i] = w[i]
    BY <1>1, <1>2, CellsConcat
  <2> QED BY <1>2, <2>1
<1>5. 1 \in 1 .. 3 /\ 2 \in 1 .. 3 /\ 3 \in 1 .. 3
  OBVIOUS
<1> QED BY <1>2, <1>3, <1>4, <1>5 DEF w, id

\* What a value that the program writes is.
Writable(v) == IsWhole(v) /\ v.id # Regex

LEMMA WritableFacts ==
  ASSUME NEW v, Writable(v)
  PROVE  v.cells \in Cells /\ Len(v.cells) \in Nat /\ v.id \in Nat
<1>1. v.cells \in Cells
  BY DEF Writable, IsWhole, Cells
<1>2. v.id \in DOMAIN FixedSize \cup {Str, Doc, Array, Binary, Regex, JavaScript, JavaScriptWithScope}
  BY DEF Writable, IsWhole, Readable
<1>3. v.id \in Nat
  BY <1>2 DEF FixedSize, F64, Str, Doc, Array, Binary, ObjectId, Bool, DateTime,
              Null, Regex, JavaScript, JavaScriptWithScope, I32, Timestamp, I64, F128
<1> QED BY <1>1, <1>3, LenNat

Written(key, v) == [key |-> key, id |-> v.id, cells |-> v.cells]

LEMMA ElementLaid ==
  ASSUME NEW d \in Cells, NEW s \in Nat \ {0}, NEW key \in Nat \ {NUL}, NEW v, Writable(v),
         s + 2 + Len(v.cells) <= Len(d),
         \A i \in 1 .. 3 + Len(v.cells) : d[s + (i - 1)] = Element(key, v)[i]
  PROVE  Laid(d, s, s + (3 + Len(v.cells)), <<Written(key, v)>>)
<1> DEFINE w == Element(key, v)
           n == Len(v.cells)
<1>1. v.cells \in Cells /\ n \in Nat /\ v.id \in Nat /\ Len(d) \in Nat
  BY WritableFacts, LenNat
<1>2. /\ w[1] = v.id /\ w[2] = key /\ w[3] = NUL
      /\ \A i \in 1 .. n : w[3 + i] = v.cells[i]
  BY <1>1, ElementCells
<1>3. s + 2 + n <= Len(d) /\ \A i \in 1 .. 3 + n : d[s + (i - 1)] = w[i]
  OBVIOUS
<1> HIDE DEF w, n
<1>4. d[s] = v.id /\ d[s + 1] = key /\ d[s + 2] = NUL
  <2>1. /\ 1 \in 1 .. 3 + n /\ 2 \in 1 .. 3 + n /\ 3 \in 1 .. 3 + n
        /\ s + (1 - 1) = s /\ s + (2 - 1) = s + 1 /\ s + (3 - 1) = s + 2
    BY <1>1
  <2> QED BY <1>2, <1>3, <2>1
<1>5. Same(v.cells, 1, n, d, s + 3)
  <2>1. \A x \in 1 .. n : 3 + x \in 1 .. 3 + n /\ s + ((3 + x) - 1) = (s + 3) + (x - 1)
    BY <1>1
  <2>2. n <= n /\ (s + 3) + (n - 1) <= Len(d)
    BY <1>1, <1>3
  <2>3. \A x \in 1 .. n : d[(s + 3) + (x - 1)] = v.cells[x]
    BY <1>2, <1>3, <2>1
  <2> QED BY <2>2, <2>3 DEF Same, n
<1>6. s + 3 + n = s + (3 + n)
  BY <1>1
<1>7. Laid(d, s, s + 3 + n, <<[key |-> key, id |-> v.id, cells |-> v.cells]>>)
  BY <1>3, <1>4, <1>5, ElementWritten DEF Writable, n
<1> QED BY <1>6, <1>7 DEF Written, n

\* DocMut::append adds an element at the end.
LEMMA AppendedHolds ==
  ASSUME NEW A, Document(buf, A), NEW key \in Nat \ {NUL}, NEW v, Writable(v)
  PROVE  Document(Buffer!Appended(key, v), A \o <<Written(key, v)>>)
<1> DEFINE s == buf[1]
           a == SubSeq(buf, 1, s - 1)
           w == Element(key, v)
           n == Len(v.cells)
           d == Buffer!Appended(key, v)
<1>1. /\ buf \in Cells /\ Len(buf) \in Nat /\ A \in Seq(ElementRecord) /\ Buffer!size = s
      /\ s \in Nat /\ s >= 2 /\ s <= Len(buf) /\ buf[s] = NUL /\ Laid(buf, 2, s, A)
  BY DocumentFacts
<1> HIDE DEF s
<1>2. v.cells \in Cells /\ n \in Nat /\ v.id \in Nat
  BY WritableFacts
<1> HIDE DEF n
<1>3. a \in Cells /\ Len(a) = s - 1 /\ \A i \in 1 .. s - 1 : a[i] = buf[i]
  <2>1. s - 1 \in 0 .. Len(buf)
    BY <1>1
  <2> QED BY <1>1, <2>1, Front
<1>4. /\ w \in Cells /\ Len(w) = 3 + n /\ w[1] = v.id /\ w[2] = key /\ w[3] = NUL
      /\ \A i \in 1 .. n : w[3 + i] = v.cells[i]
  BY <1>2, ElementCells DEF n
<1>5. IsSplice(d, a, w, buf, s, <<>>, s + 3 + n)
  <2>1. d = [a \o w \o SubSeq(buf, s, Len(buf)) EXCEPT ![1] = s + 3 + n]
    BY <1>1, BufferReads DEF n, Buffer!Appended, Buffer!SetLen, Buffer!From
  <2> DEFINE t == SubSeq(buf, s, Len(buf))
  <2>2. t \in Seq(Nat)
    <3>1. s \in Int /\ Len(buf) \in Int /\ \A i \in s .. Len(buf) : buf[i] \in Nat
      BY <1>1 DEF Cells
    <3> QED BY <3>1, SubSeqProperties
  <2> HIDE DEF t, a, w, d
  <2>3. (a \o w) \o t \in Seq(Nat)
    BY <1>3, <1>4, <2>2 DEF Cells
  <2>4. (a \o w) \o t \o <<>> = (a \o w) \o t
    BY <2>3, ConcatEmptySeq
  <2> QED BY <2>1, <2>4 DEF IsSplice, t
<1> HIDE DEF a, w, d
<1>6. /\ d \in Cells /\ Len(d) = (s - 1) + (3 + n) + (Len(buf) + 1 - s) + 0
      /\ d[1] = s + 3 + n
      /\ \A i \in 2 .. s - 1 : d[i] = a[i]
      /\ Same(w, 1, 3 + n, d, (s - 1) + 1)
      /\ Same(buf, s, Len(buf), d, (s - 1) + (3 + n) + 1)
  <2>1. <<>> \in Cells /\ Len(<<>>) = 0
    BY EmptySeq DEF Cells
  <2>2. Len(a) >= 1 /\ s \in 1 .. Len(buf) + 1 /\ s + 3 + n \in Nat
    BY <1>1, <1>2, <1>3
  <2>3. /\ d \in Cells /\ Len(d) = Len(a) + Len(w) + (Len(buf) + 1 - s) + Len(<<>>)
        /\ d[1] = s + 3 + n
        /\ \A i \in 2 .. Len(a) : d[i] = a[i]
        /\ Same(w, 1, Len(w), d, Len(a) + 1)
        /\ Same(buf, s, Len(buf), d, Len(a) + Len(w) + 1)
    BY <1>1, <1>3, <1>4, <1>5, <2>1, <2>2, Spliced
  <2> QED BY <1>3, <1>4, <2>1, <2>3
<1>7. Laid(d, s, s + (3 + n), <<Written(key, v)>>)
  <2>1. (s - 1) + 1 = s
    BY <1>1
  <2>2. \A x \in 1 .. 3 + n : d[s + (x - 1)] = w[x]
    BY <1>6, <2>1 DEF Same
  <2>3. s + 2 + n <= Len(d) /\ s \in Nat \ {0}
    BY <1>1, <1>2, <1>6, SMTT(30)
  <2> QED BY <1>6, <2>2, <2>3, ElementLaid DEF n, w
<1>8. Document(d, A \o <<Written(key, v)>> \o <<>>)
  <2>1. Laid(buf, s, s, <<>>)
    BY <1>1, LaidNone
  <2>2. (s - 1) + (3 + n) + 1 = s + (3 + n) /\ s + 3 + n = (s + (3 + n)) - (s - s)
    BY <1>1, <1>2
  <2>3. \A i \in 2 .. s - 1 : d[i] = buf[i]
    BY <1>1, <1>3, <1>6
  <2>4. Same(buf, s, Len(buf), d, s + (3 + n))
    BY <1>6, <2>2
  <2>5. s \in Nat \ {0} /\ 3 + n \in Nat /\ 2 <= s /\ s <= s /\ s \in 2 .. Len(buf)
    BY <1>1, <1>2
  <2>6. d[1] = (s + (3 + n)) - (s - s)
    BY <1>6, <2>2
  <2> QED BY <1>1, <1>6, <1>7, <2>1, <2>3, <2>4, <2>5, <2>6, Edited DEF s
<1>9. A \o <<Written(key, v)>> \o <<>> = A \o <<Written(key, v)>>
  <2>1. <<Written(key, v)>> \in Seq(ElementRecord)
    BY <1>7 DEF Laid
  <2> DEFINE b == <<Written(key, v)>>
  <2> HIDE DEF b
  <2>2. A \o b \in Seq(ElementRecord)
    BY <1>1, <2>1 DEF b
  <2>3. (A \o b) \o <<>> = A \o b
    BY <2>2, ConcatEmptySeq
  <2> QED BY <2>3 DEF b
<1> QED BY <1>8, <1>9 DEF d

\* What an element that was found at x between others is.
Place(A, x, B, C) ==
  /\ x \in Nat \ {0} /\ B \in Seq(ElementRecord) /\ C \in Seq(ElementRecord)
  /\ Laid(buf, 2, x, B) /\ Proper(buf, x) /\ Laid(buf, After(buf, x), buf[1], C)
  /\ A = B \o <<ElementAt(buf, x)>> \o C

Offsets(x) == [key_off |-> x, val_off |-> x + 3]

LEMMA PlaceFacts ==
  ASSUME NEW A, Document(buf, A), NEW x, NEW B, NEW C, Place(A, x, B, C)
  PROVE  LET old == ValueSize(buf[x], buf, x + 3)
         IN  /\ x \in Nat /\ x >= 2 /\ old \in Nat /\ After(buf, x) = x + 3 + old
             /\ x + 3 + old <= buf[1]
             /\ Buffer!ValSize(Offsets(x)) = old
             /\ NulFrom(buf, x + 1) = x + 2 /\ Readable(buf[x], buf, x + 3)
             /\ ElementAt(buf, x) \in ElementRecord
             /\ buf[x + 2] = NUL
<1>1. buf \in Cells /\ Len(buf) \in Nat /\ buf[1] \in Nat
  BY DocumentFacts
<1>2. x \in Nat \ {0} /\ Proper(buf, x)
  BY DEF Place
<1>3. /\ ValueSize(buf[x], buf, x + 3) \in Nat /\ ElementAt(buf, x) \in ElementRecord
      /\ NulFrom(buf, x + 1) = x + 2 /\ Readable(buf[x], buf, x + 3)
  BY <1>1, <1>2, ProperFacts
<1>4. After(buf, x) = x + 3 + ValueSize(buf[x], buf, x + 3)
  BY DEF After
<1>5. x >= 2
  <2>1. PICK f : Layout(buf, 2, x, B, f)
    BY DEF Place, Laid
  <2>2. B \in Seq(ElementRecord)
    BY DEF Place
  <2>3. f \in [1 .. Len(B) + 1 -> 2 .. x] /\ 1 \in 1 .. Len(B) + 1
    BY <2>1, <2>2 DEF Layout
  <2>4. f[1] \in 2 .. x
    BY <2>3
  <2> QED BY <1>2, <2>4
<1>6. After(buf, x) <= buf[1]
  <2>1. PICK f : Layout(buf, After(buf, x), buf[1], C, f)
    BY DEF Place, Laid
  <2>2. C \in Seq(ElementRecord)
    BY DEF Place
  <2>3. f \in [1 .. Len(C) + 1 -> After(buf, x) .. buf[1]] /\ 1 \in 1 .. Len(C) + 1
    BY <2>1, <2>2 DEF Layout
  <2>4. f[1] \in After(buf, x) .. buf[1]
    BY <2>3
  <2>5. After(buf, x) \in Nat
    BY DEF Place, Laid
  <2> QED BY <1>1, <2>4, <2>5
<1>7. Buffer!ValSize(Offsets(x)) = ValueSize(buf[x], buf, x + 3)
  BY BufferReads DEF Buffer!ValSize, Offsets
<1>8. buf[x + 2] = NUL
  <2>1. x + 1 \in Nat \ {0} /\ x + 2 # 0
    BY <1>2
  <2> QED BY <1>1, <1>3, <2>1, NulFromFacts
<1> QED BY <1>2, <1>3, <1>4, <1>5, <1>6, <1>7, <1>8

LEMMA RestCells ==
  ASSUME NEW c \in Cells, NEW i \in Nat \ {0}
  PROVE  SubSeq(c, i, Len(c)) \in Cells
<1>1. Len(c) \in Nat
  BY LenNat
<1>2. i \in Int /\ Len(c) \in Int /\ \A j \in i .. Len(c) : c[j] \in Nat
  BY <1>1 DEF Cells
<1>3. SubSeq(c, i, Len(c)) \in Seq(Nat)
  BY <1>2, SubSeqProperties
<1> QED BY <1>3 DEF Cells

\* OccupiedEntry::insert puts another value under the key.
LEMMA OverwrittenHolds ==
  ASSUME NEW A, Document(buf, A), NEW x, NEW B, NEW C, Place(A, x, B, C), NEW v, Writable(v),
         buf[x + 1] # NUL
  PROVE  Document(Buffer!Overwritten(Offsets(x), v), B \o <<Written(buf[x + 1], v)>> \o C)
<1> DEFINE s == buf[1]
           key == buf[x + 1]
           old == ValueSize(buf[x], buf, x + 3)
           n == Len(v.cells)
           w == v.cells
           id == v.id
           L == Len(buf)
           y == x + 3 + old
           b == SubSeq(buf, 1, x + 2)
           a == [b EXCEPT ![x] = id]
           left == IF n < old THEN SubSeq(buf, L - (old - n) + 1, L) ELSE <<>>
           len == (s + n) - old
           d == Buffer!Overwritten(Offsets(x), v)
<1>1. /\ buf \in Cells /\ L \in Nat /\ Buffer!size = s
      /\ s \in Nat /\ s >= 2 /\ s <= L /\ buf[s] = NUL
  BY DocumentFacts
<1>2. /\ x \in Nat /\ x >= 2 /\ old \in Nat /\ After(buf, x) = y /\ y <= s
      /\ Buffer!ValSize(Offsets(x)) = old /\ buf[x + 2] = NUL
  BY PlaceFacts
<1>3. w \in Cells /\ n \in Nat /\ id \in Nat
  BY WritableFacts
<1>4. key \in Nat \ {NUL}
  <2>1. x + 1 \in 1 .. L
    BY <1>1, <1>2
  <2> HIDE DEF L
  <2> QED BY <1>1, <2>1 DEF Cells, L
<1> HIDE DEF s, key, old, n, w, id, L
<1>5. /\ b \in Cells /\ Len(b) = x + 2 /\ \A i \in 1 .. x + 2 : b[i] = buf[i]
  <2>1. x + 2 \in 0 .. L
    BY <1>1, <1>2
  <2> QED BY <1>1, <2>1, Front DEF L
<1>6. /\ a \in Cells /\ Len(a) = x + 2 /\ a[x] = id /\ a[x + 1] = key /\ a[x + 2] = NUL
      /\ \A i \in 1 .. x - 1 : a[i] = buf[i]
  <2> HIDE DEF b
  <2>1. x \in 1 .. Len(b) /\ x + 1 \in 1 .. x + 2 /\ x + 2 \in 1 .. x + 2
    BY <1>2, <1>5
  <2>2. /\ a \in Seq(Nat) /\ Len(a) = Len(b)
        /\ \A j \in 1 .. Len(b) : a[j] = IF j = x THEN id ELSE b[j]
    <3>1. b \in Seq(Nat)
      BY <1>5 DEF Cells
    <3> QED BY <1>3, <2>1, <3>1, ExceptSeq
  <2> HIDE DEF a
  <2>3. \A i \in 1 .. x - 1 : i \in 1 .. x + 2 /\ i # x
    BY <1>2
  <2>4. x + 1 # x /\ x + 2 # x
    BY <1>2
  <2> QED BY <1>2, <1>5, <2>1, <2>2, <2>3, <2>4 DEF Cells, key
<1>7. left \in Cells
  <2>1. <<>> \in Cells
    BY EmptySeq DEF Cells
  <2>2. ASSUME n < old PROVE L - (old - n) + 1 \in Nat \ {0}
    BY <1>1, <1>2, <1>3, <2>2
  <2>3. ASSUME n < old PROVE SubSeq(buf, L - (old - n) + 1, L) \in Cells
    BY <1>1, <2>2, <2>3, RestCells DEF L
  <2> QED BY <2>1, <2>3
<1>8. IsSplice(d, a, w, buf, y, left, len)
  <2>1. Offsets(x).key_off = x /\ Offsets(x).val_off = x + 3 /\ (x + 3) - 1 = x + 2
    BY <1>2 DEF Offsets
  <2>2. d = Buffer!SetLen(len, a \o w \o Buffer!From(y) \o left)
    BY <1>1, <1>2, <2>1 DEF Buffer!Overwritten, Buffer!From, n, w, id, L
  <2> QED BY <2>2 DEF IsSplice, Buffer!SetLen, Buffer!From, L
<1> HIDE DEF a, b, left, d
<1>9. /\ d \in Cells /\ Len(d) = (x + 2) + n + (L + 1 - y) + Len(left)
      /\ d[1] = len
      /\ \A i \in 2 .. x + 2 : d[i] = a[i]
      /\ Same(w, 1, n, d, x + 3)
      /\ Same(buf, y, L, d, x + 3 + n)
      /\ Len(left) \in Nat
  <2>1. Len(a) >= 1 /\ y \in 1 .. L + 1 /\ len \in Nat
    BY <1>1, <1>2, <1>3, <1>6
  <2> HIDE DEF y, len
  <2>2. /\ d \in Cells /\ Len(d) = Len(a) + Len(w) + (Len(buf) + 1 - y) + Len(left)
        /\ d[1] = len
        /\ \A i \in 2 .. Len(a) : d[i] = a[i]
        /\ Same(w, 1, Len(w), d, Len(a) + 1)
        /\ Same(buf, y, Len(buf), d, Len(a) + Len(w) + 1)
    BY <1>1, <1>3, <1>6, <1>7, <1>8, <2>1, Spliced DEF L
  <2>3. (x + 2) + 1 = x + 3 /\ (x + 2) + n + 1 = x + 3 + n
    BY <1>2, <1>3
  <2>4. Len(w) = n /\ Len(buf) = L
    BY DEF w, n, L
  <2>5. Len(left) \in Nat
    BY <1>7, LenNat
  <2> QED BY <1>6, <2>2, <2>3, <2>4, <2>5
<1>10. Laid(d, x, x + 3 + n, <<Written(key, v)>>)
  <2>1. d[x] = id /\ d[x + 1] = key /\ d[x + 2] = NUL
    <3>1. x \in 2 .. x + 2 /\ x + 1 \in 2 .. x + 2 /\ x + 2 \in 2 .. x + 2
      BY <1>2
    <3> QED BY <1>6, <1>9, <3>1
  <2>2. x + 2 + n <= Len(d) /\ x \in Nat \ {0}
    BY <1>1, <1>2, <1>3, <1>9
  <2>3. Laid(d, x, x + 3 + n, <<[key |-> key, id |-> v.id, cells |-> v.cells]>>)
    BY <1>4, <1>9, <2>1, <2>2, ElementWritten DEF Writable, n, w, id
  <2> QED BY <2>3 DEF Written
<1>11. Document(d, B \o <<Written(key, v)>> \o C)
  <2> DEFINE m == 3 + n
  <2>1. m \in Nat /\ x + 3 + n = x + m /\ len = (s + m) - (y - x)
    BY <1>1, <1>2, <1>3
  <2>2. \A i \in 2 .. x - 1 : d[i] = buf[i]
    <3>1. \A i \in 2 .. x - 1 : i \in 2 .. x + 2 /\ i \in 1 .. x - 1
      BY <1>2
    <3> QED BY <1>6, <1>9, <3>1
  <2>3. x \in Nat \ {0} /\ y \in Nat /\ 2 <= x /\ x <= y /\ s \in 2 .. L
    BY <1>1, <1>2
  <2>4. Laid(buf, 2, x, B) /\ Laid(buf, y, s, C)
    BY <1>2 DEF Place, s
  <2> HIDE DEF m, y, len
  <2>5. Laid(d, x, x + m, <<Written(key, v)>>) /\ Same(buf, y, L, d, x + m)
    BY <1>9, <1>10, <2>1
  <2>6. d[1] = (s + m) - (y - x)
    BY <1>9, <2>1
  <2> QED BY <1>1, <1>2, <1>9, <2>1, <2>2, <2>3, <2>4, <2>5, <2>6, Edited DEF s, L
<1> QED BY <1>11 DEF d, key

\* OccupiedEntry::remove takes the element away.
LEMMA RemovedHolds ==
  ASSUME NEW A, Document(buf, A), NEW x, NEW B, NEW C, Place(A, x, B, C)
  PROVE  Document(Buffer!Removed(Offsets(x)), B \o C)
<1> DEFINE s == buf[1]
           old == ValueSize(buf[x], buf, x + 3)
           L == Len(buf)
           y == x + 3 + old
           a == SubSeq(buf, 1, x - 1)
           t == SubSeq(buf, y, L)
           len == (s + x) - y
           d == Buffer!Removed(Offsets(x))
<1>1. /\ buf \in Cells /\ L \in Nat /\ Buffer!size = s
      /\ s \in Nat /\ s >= 2 /\ s <= L /\ buf[s] = NUL
  BY DocumentFacts
<1>2. /\ x \in Nat /\ x >= 2 /\ old \in Nat /\ After(buf, x) = y /\ y <= s
      /\ Buffer!ValSize(Offsets(x)) = old
  BY PlaceFacts
<1> HIDE DEF s, old, L
<1>3. /\ a \in Cells /\ Len(a) = x - 1 /\ \A i \in 1 .. x - 1 : a[i] = buf[i]
  <2>1. x - 1 \in 0 .. L
    BY <1>1, <1>2
  <2> QED BY <1>1, <2>1, Front DEF L
<1>4. <<>> \in Cells /\ Len(<<>>) = 0
  BY EmptySeq DEF Cells
<1>5. IsSplice(d, a, <<>>, buf, y, <<>>, len)
  <2>1. Offsets(x).key_off = x /\ Offsets(x).val_off = x + 3
    BY DEF Offsets
  <2>2. d = Buffer!SetLen(len, a \o t)
    BY <1>1, <1>2, <2>1 DEF Buffer!Removed, Buffer!From, L
  <2>3. t \in Cells
    <3>1. y \in Nat \ {0}
      BY <1>2
    <3> HIDE DEF y
    <3> QED BY <1>1, <3>1, RestCells DEF L
  <2> HIDE DEF a, t
  <2>4. a \o <<>> = a /\ a \o t \in Seq(Nat)
    BY <1>3, <2>3, ConcatEmptySeq DEF Cells
  <2>5. (a \o t) \o <<>> = a \o t
    BY <2>4, ConcatEmptySeq
  <2>6. d = Buffer!SetLen(len, a \o <<>> \o t \o <<>>)
    BY <2>2, <2>4, <2>5
  <2> QED BY <2>6 DEF IsSplice, Buffer!SetLen, t, L
<1> HIDE DEF a, t, d
<1>6. /\ d \in Cells /\ d[1] = len
      /\ \A i \in 2 .. x - 1 : d[i] = buf[i]
      /\ Same(buf, y, L, d, x)
  <2>1. Len(a) >= 1 /\ y \in 1 .. L + 1 /\ len \in Nat
    BY <1>1, <1>2, <1>3
  <2> HIDE DEF y, len
  <2>2. /\ d \in Cells /\ d[1] = len
        /\ \A i \in 2 .. Len(a) : d[i] = a[i]
        /\ Same(buf, y, Len(buf), d, Len(a) + Len(<<>>) + 1)
    BY <1>1, <1>3, <1>4, <1>5, <2>1, Spliced DEF L
  <2>3. (x - 1) + 0 + 1 = x /\ \A i \in 2 .. x - 1 : i \in 1 .. x - 1
    BY <1>2
  <2>4. Len(buf) = L
    BY DEF L
  <2> QED BY <1>3, <1>4, <2>2, <2>3, <2>4
<1>7. Document(d, B \o <<>> \o C)
  <2>1. len = (s + 0) - (y - x) /\ x + 0 = x
    BY <1>1, <1>2
  <2>2. x \in Nat \ {0} /\ y \in Nat /\ 2 <= x /\ x <= y /\ s \in 2 .. L /\ 0 \in Nat
    BY <1>1, <1>2
  <2>3. Laid(buf, 2, x, B) /\ Laid(buf, y, s, C)
    BY <1>2 DEF Place, s
  <2>4. Laid(d, x, x, <<>>)
    BY <2>2, LaidNone
  <2> HIDE DEF y, len
  <2>5. Laid(d, x, x + 0, <<>>) /\ Same(buf, y, L, d, x + 0) /\ d[1] = (s + 0) - (y - x)
    BY <1>6, <2>1, <2>4
  <2> QED BY <1>1, <1>2, <1>6, <2>2, <2>3, <2>5, Edited DEF s, L
<1>8. B \o <<>> = B
  <2>1. B \in Seq(ElementRecord)
    BY DEF Place
  <2> QED BY <2>1, ConcatEmptySeq
<1> QED BY <1>7, <1>8 DEF d

\* A nested document can be read to its terminator.
Nested(e) == e.id \in {Doc, Array} => Iterate(e.cells, 2).ok

\* Document::get_any reads a value that can be written; a nested document with all
\* that is left of the buffer, of which its iterator comes to see no more.
LEMMA CopyHolds ==
  ASSUME NEW A, Document(buf, A), NEW x, NEW B, NEW C, Place(A, x, B, C)
  PROVE  LET u == Buffer!ReadAny(Offsets(x))
             e == ElementAt(buf, x)
         IN  /\ Writable(u) /\ u.id = e.id
             /\ e.id \notin {Doc, Array} => u.cells = e.cells
             /\ e.id \in {Doc, Array} /\ Nested(e) =>
                  /\ Iterate(u.cells, 2) = Iterate(e.cells, 2)
                  /\ SubSeq(u.cells, 2, Iterate(e.cells, 2).stop)
                       = SubSeq(e.cells, 2, Iterate(e.cells, 2).stop)
<1> DEFINE old == ValueSize(buf[x], buf, x + 3)
           L == Len(buf)
           id == buf[x]
           w == SubSeq(buf, x + 3, x + 2 + old)
           body == SubSeq(buf, x + 4, L)
           u == Buffer!ReadAny(Offsets(x))
           e == ElementAt(buf, x)
<1> SUFFICES /\ Writable(u) /\ u.id = e.id
             /\ e.id \notin {Doc, Array} => u.cells = e.cells
             /\ e.id \in {Doc, Array} /\ Nested(e) =>
                  /\ Iterate(u.cells, 2) = Iterate(e.cells, 2)
                  /\ SubSeq(u.cells, 2, Iterate(e.cells, 2).stop)
                       = SubSeq(e.cells, 2, Iterate(e.cells, 2).stop)
  OBVIOUS
<1>1. buf \in Cells /\ L \in Nat /\ buf[1] \in Nat /\ buf[1] <= L
  BY DocumentFacts
<1>2. /\ x \in Nat /\ x >= 2 /\ old \in Nat /\ After(buf, x) = x + 3 + old
      /\ x + 3 + old <= buf[1] /\ Buffer!ValSize(Offsets(x)) = old
      /\ Readable(id, buf, x + 3)
  BY PlaceFacts
<1>3. id # Regex /\ (id # Null => After(buf, x) > x + 3)
  BY DEF Place, Proper
<1> HIDE DEF old, id, L
<1>4. ElementAt(buf, x) = [key |-> buf[x + 1], id |-> id, cells |-> w]
  BY DEF ElementAt, old, id
<1>5. w \in Cells /\ Len(w) = old /\ \A i \in 1 .. old : w[i] = buf[x + 2 + i]
  <2>1. x + 3 \in Int /\ x + 2 + old \in Int /\ \A i \in x + 3 .. x + 2 + old : buf[i] \in Nat
    <3>1. \A i \in x + 3 .. x + 2 + old : i \in 1 .. L
      BY <1>1, <1>2
    <3> QED BY <1>1, <1>2, <3>1, SMTT(30) DEF Cells, L
  <2>2. /\ w \in Seq(Nat)
        /\ Len(w) = IF x + 3 <= x + 2 + old THEN (x + 2 + old) - (x + 3) + 1 ELSE 0
        /\ \A i \in 1 .. (x + 2 + old) - (x + 3) + 1 : w[i] = buf[x + 3 + i - 1]
    BY <2>1, SubSeqProperties
  <2>3. /\ (IF x + 3 <= x + 2 + old THEN (x + 2 + old) - (x + 3) + 1 ELSE 0) = old
        /\ (x + 2 + old) - (x + 3) + 1 = old
        /\ \A i \in 1 .. old : x + 3 + i - 1 = x + 2 + i
    BY <1>2
  <2> HIDE DEF w
  <2> QED BY <2>2, <2>3 DEF Cells
<1>6. body \in Cells
  <2>1. x + 4 \in Nat \ {0}
    BY <1>2
  <2> QED BY <1>1, <2>1, RestCells DEF L
<1>7. u = IF id \in {Doc, Array} THEN DocValue(id, body) ELSE [id |-> id, cells |-> w]
  <2>1. Offsets(x).key_off = x /\ Offsets(x).val_off = x + 3
    BY DEF Offsets
  <2>2. (x + 3) + 1 = x + 4 /\ (x + 3) + old - 1 = x + 2 + old
    BY <1>2
  <2> QED BY <1>2, <2>1, <2>2, BufferReads DEF Buffer!ReadAny, Buffer!From, id, L
<1> HIDE DEF w, body, u
<1>8. ASSUME id \in {Doc, Array}
      PROVE  /\ u.id = id /\ u.cells \in Cells /\ Len(u.cells) = Len(body) + 1
             /\ u.cells[1] = Len(body) + 1
             /\ \A i \in 1 .. Len(body) : u.cells[1 + i] = body[i]
  <2> DEFINE n == Len(body) + 1
             h == <<n>>
  <2>1. u.id = id /\ u.cells = h \o body
    BY <1>7, <1>8 DEF DocValue
  <2>2. n \in Nat
    BY <1>6, LenNat
  <2> HIDE DEF n
  <2>3. h \in Cells /\ Len(h) = 1 /\ h[1] = n
    BY <2>2 DEF Cells
  <2> HIDE DEF h
  <2>4. /\ h \o body \in Cells /\ Len(h \o body) = Len(h) + Len(body)
        /\ Len(h) \in Nat /\ Len(body) \in Nat
        /\ \A i \in 1 .. Len(h) : (h \o body)[i] = h[i]
        /\ \A i \in 1 .. Len(body) : (h \o body)[Len(h) + i] = body[i]
    BY <1>6, <2>3, CellsConcat
  <2> DEFINE g == h \o body
  <2>5. /\ g \in Cells /\ Len(g) = 1 + Len(body) /\ Len(body) \in Nat
        /\ \A i \in 1 .. 1 : g[i] = h[i]
        /\ \A i \in 1 .. Len(body) : g[1 + i] = body[i]
    BY <2>3, <2>4
  <2> HIDE DEF g
  <2>6. Len(g) = n
    BY <2>5 DEF n
  <2> QED BY <2>1, <2>3, <2>5, <2>6 DEF g, n
<1>9. Writable(u)
  <2>1. CASE id \in {Doc, Array}
    <3> DEFINE g == u.cells
               n == Len(body) + 1
    <3>1. g \in Seq(Nat) /\ Len(g) = n /\ g[1] = n /\ u.id = id
      BY <1>8, <2>1 DEF Cells
    <3>2. n \in Nat /\ n >= 1
      BY <1>6, LenNat
    <3> HIDE DEF g, n
    <3>3. ValueSize(id, g, 1) = n
      BY <2>1, <3>1 DEF ValueSize, FixedSize, F64, Str, Doc, Array, Binary, ObjectId, Bool, DateTime,
              Null, Regex, JavaScript, JavaScriptWithScope, I32, Timestamp, I64, F128
    <3>4. Readable(id, g, 1)
      BY <1>3, <2>1, <3>1, <3>2, <3>3 DEF Readable
    <3> QED BY <1>3, <3>1, <3>3, <3>4 DEF Writable, IsWhole, g
  <2>2. CASE id \notin {Doc, Array}
    <3>1. u.id = id /\ u.cells = w
      BY <1>7, <2>2
    <3>2. Same(buf, x + 3, x + 2 + old, w, 1)
      <4>1. x + 2 + old <= Len(buf) /\ 1 + ((x + 2 + old) - (x + 3)) <= Len(w)
        BY <1>1, <1>2, <1>5 DEF L
      <4>2. ASSUME NEW y \in x + 3 .. x + 2 + old PROVE w[1 + (y - (x + 3))] = buf[y]
        <5> DEFINE i == 1 + (y - (x + 3))
        <5>1. i \in 1 .. old /\ x + 2 + i = y
          BY <1>2
        <5> HIDE DEF i
        <5>2. w[i] = buf[y]
          BY <1>5, <5>1
        <5> QED BY <5>2 DEF i
      <4> QED BY <4>1, <4>2 DEF Same
    <3>3. Readable(id, w, 1) /\ ValueSize(id, w, 1) = old
      <4> DEFINE hi == x + 2 + old
                 i == x + 3
      <4>1. /\ hi \in Nat /\ i \in Nat \ {0} /\ 1 \in Nat \ {0} /\ hi >= i + old - 1
            /\ id # Null => hi >= i
        BY <1>2, <1>3
      <4>2. Same(buf, i, hi, w, 1) /\ Readable(id, buf, i) /\ ValueSize(id, buf, i) = old
        BY <1>2, <3>2 DEF old, id
      <4> HIDE DEF hi, i
      <4> QED BY <1>1, <1>3, <1>5, <4>1, <4>2, SizeShift
    <3> QED BY <1>3, <1>5, <3>1, <3>3 DEF Writable, IsWhole, Cells
  <2> QED BY <2>1, <2>2
<1>10. ASSUME id \in {Doc, Array}, Iterate(w, 2).ok
       PROVE  /\ Iterate(u.cells, 2) = Iterate(w, 2)
              /\ SubSeq(u.cells, 2, Iterate(w, 2).stop) = SubSeq(w, 2, Iterate(w, 2).stop)
  <2> DEFINE g == u.cells
             r == Iterate(w, 2)
             hi == r.stop
             m == Len(body)
  <2>1. /\ g \in Cells /\ Len(g) = m + 1 /\ m \in Nat /\ Len(g) \in Nat
        /\ \A i \in 1 .. m : g[1 + i] = body[i]
    BY <1>6, <1>8, <1>10, LenNat
  <2>2. m = L - (x + 3) /\ \A i \in 1 .. m : body[i] = buf[x + 3 + i]
    <3>1. x + 4 \in Int /\ L \in Int /\ \A i \in x + 4 .. L : buf[i] \in Nat
      BY <1>1, <1>2 DEF Cells, L
    <3>2. /\ Len(body) = IF x + 4 <= L THEN L - (x + 4) + 1 ELSE 0
          /\ \A i \in 1 .. L - (x + 4) + 1 : body[i] = buf[x + 4 + i - 1]
      BY <3>1, SubSeqProperties DEF body
    <3>3. /\ (IF x + 4 <= L THEN L - (x + 4) + 1 ELSE 0) = L - (x + 3)
          /\ L - (x + 4) + 1 = L - (x + 3)
          /\ \A i \in 1 .. L - (x + 3) : x + 4 + i - 1 = x + 3 + i
      BY <1>1, <1>2
    <3> QED BY <3>2, <3>3
  <2>3. old >= 1
    <3>1. id # Null
      BY <1>10 DEF Doc, Array, Null
    <3> QED BY <1>2, <1>3, <3>1
  <2> HIDE DEF g, m
  <2>4. r \in [ok : BOOLEAN, elements : Seq(ElementRecord), stop : Nat] /\ hi \in 2 .. Len(w)
    <3>1. 2 \in 1 .. Len(w) + 1
      BY <1>2, <1>5, <2>3
    <3> QED BY <1>5, <1>10, <3>1, IterateFacts
  <2> HIDE DEF r
  <2>5. hi <= old /\ hi \in Nat /\ hi >= 2 /\ 2 \in 1 .. Len(w)
    BY <1>2, <1>5, <2>4
  <2>6. \A y \in 2 .. hi : g[y] = w[y]
    <3> SUFFICES ASSUME NEW y \in 2 .. hi PROVE g[y] = w[y]
      OBVIOUS
    <3> DEFINE i == y - 1
    <3>1. i \in 1 .. m /\ y = 1 + i /\ y \in 1 .. old /\ x + 2 + y = x + 3 + i
      BY <1>1, <1>2, <2>2, <2>5
    <3> HIDE DEF i
    <3>2. g[1 + i] = buf[x + 3 + i] /\ w[y] = buf[x + 2 + y]
      BY <1>5, <2>1, <2>2, <3>1
    <3> QED BY <3>1, <3>2
  <2>7. hi <= Len(g) /\ hi <= Len(w)
    BY <1>1, <1>2, <1>5, <2>1, <2>2, <2>5
  <2>8. Same(w, 2, hi, g, 2)
    <3>1. 2 + (hi - 2) = hi /\ \A y \in 2 .. hi : 2 + (y - 2) = y
      BY <2>5
    <3> QED BY <2>6, <2>7, <3>1 DEF Same
  <2>9. Iterate(g, 2) = [r EXCEPT !.stop = 2 + (@ - 2)]
    <3>1. 2 \in Nat \ {0}
      OBVIOUS
    <3> QED BY <1>5, <1>10, <2>1, <2>5, <2>8, <3>1, IterateShift DEF r
  <2>10. Iterate(g, 2) = r
    <3>1. 2 + (hi - 2) = hi
      BY <2>5
    <3>2. [r EXCEPT !.stop = hi] = r
      BY <2>4
    <3> QED BY <2>9, <3>1, <3>2
  <2>11. SubSeq(g, 2, hi) = SubSeq(w, 2, hi)
    <3> DEFINE p == SubSeq(g, 2, hi)
               q == SubSeq(w, 2, hi)
    <3>1. /\ 2 \in Int /\ hi \in Int
          /\ \A y \in 2 .. hi : g[y] \in Nat /\ w[y] \in Nat
      <4>1. \A y \in 2 .. hi : y \in 1 .. Len(w)
        BY <2>5, <2>7
      <4>2. \A y \in 2 .. hi : w[y] \in Nat
        BY <1>5, <4>1 DEF Cells
      <4> QED BY <2>5, <2>6, <4>2
    <3>2. /\ p \in Seq(Nat) /\ Len(p) = IF 2 <= hi THEN hi - 2 + 1 ELSE 0
          /\ \A i \in 1 .. hi - 2 + 1 : p[i] = g[2 + i - 1]
      BY <3>1, SubSeqProperties
    <3>3. /\ q \in Seq(Nat) /\ Len(q) = IF 2 <= hi THEN hi - 2 + 1 ELSE 0
          /\ \A i \in 1 .. hi - 2 + 1 : q[i] = w[2 + i - 1]
      BY <3>1, SubSeqProperties
    <3> HIDE DEF p, q
    <3>4. Len(p) = hi - 2 + 1 /\ Len(q) = hi - 2 + 1
      BY <2>5, <3>2, <3>3
    <3>5. \A i \in 1 .. Len(p) : p[i] = q[i]
      <4>1. \A i \in 1 .. hi - 2 + 1 : 2 + i - 1 \in 2 .. hi
        BY <2>5
      <4> QED BY <2>6, <3>2, <3>3, <3>4, <4>1
    <3>6. p = q
      BY <3>2, <3>3, <3>4, <3>5, SeqEqual
    <3> QED BY <3>6 DEF p, q
  <2> QED BY <2>10, <2>11 DEF g, r
<1>11. u.id = id /\ (id \notin {Doc, Array} => u.cells = w)
  BY <1>7, <1>8
<1>12. e.id = id /\ e.cells = w
  BY <1>4
<1> HIDE DEF e
<1>13. e.id \in {Doc, Array} /\ Nested(e) => id \in {Doc, Array} /\ Iterate(w, 2).ok
  BY <1>12 DEF Nested
<1> QED BY <1>9, <1>10, <1>11, <1>12, <1>13

\* DocMut::find finds the first element under a key.
LEMMA FindFinds ==
  ASSUME NEW A, Document(buf, A), NEW key \in Nat
  PROVE  \/ /\ Buffer!Find(key) = Buffer!NotFound
            /\ \A i \in 1 .. Len(A) : A[i].key # key
         \/ \E x, B, C :
              /\ Buffer!Find(key) = Offsets(x) /\ Place(A, x, B, C)
              /\ buf[x + 1] = key /\ \A i \in 1 .. Len(B) : B[i].key # key
<1> DEFINE r == Buffer!Find(key)
           s == buf[1]
<1>1. /\ buf \in Cells /\ Len(buf) \in Nat /\ s \in Nat /\ s >= 2 /\ s <= Len(buf)
      /\ buf[s] = NUL /\ Laid(buf, 2, s, A)
  BY DocumentFacts
<1>2. s \in 2 .. Len(buf) /\ 2 \in 2 .. Len(buf)
  BY <1>1
<1>3. Hit(buf, 2, s, A, key, r)
  <2>1. Hit(buf, 2, s, A, key, Search(buf, key)[2])
    <3> HIDE DEF s, r
    <3> QED BY <1>1, <1>2, SearchHits
  <2> QED BY <2>1, FindIsSearch
<1> HIDE DEF r
<1>4. CASE r = Buffer!NotFound /\ \A i \in 1 .. Len(A) : A[i].key # key
  BY <1>4 DEF r
<1>5. ASSUME NEW x \in Nat \ {0}, NEW B \in Seq(ElementRecord), NEW C \in Seq(ElementRecord),
             r = [key_off |-> x, val_off |-> x + 3],
             Laid(buf, 2, x, B), \A i \in 1 .. Len(B) : B[i].key # key,
             Proper(buf, x), buf[x + 1] = key,
             Laid(buf, After(buf, x), s, C),
             A = B \o <<ElementAt(buf, x)>> \o C
      PROVE  \E y, D, E :
               /\ r = Offsets(y) /\ Place(A, y, D, E)
               /\ buf[y + 1] = key /\ \A i \in 1 .. Len(D) : D[i].key # key
  <2>1. Place(A, x, B, C)
    BY <1>5 DEF Place
  <2>2. r = Offsets(x)
    BY <1>5 DEF Offsets
  <2> QED BY <1>5, <2>1, <2>2
<1> QED BY <1>3, <1>4, <1>5 DEF Hit, r

\* DocMut::clear leaves a document only if there was no element.
LEMMA ClearHolds ==
  ASSUME NEW A, Document(buf, A), buf[2] = NUL
  PROVE  A = <<>> /\ Document(Buffer!SetLen(2, SubSeq(buf, 1, 2)), <<>>)
<1> DEFINE a == SubSeq(buf, 1, 2)
           d == [a EXCEPT ![1] = 2]
<1>1. /\ buf \in Cells /\ Len(buf) \in Nat /\ buf[1] \in Nat /\ buf[1] >= 2 /\ buf[1] <= Len(buf)
      /\ Laid(buf, 2, buf[1], A)
  BY DocumentFacts
<1>2. A = <<>>
  <2>1. ASSUME A # <<>> PROVE FALSE
    <3>1. Proper(buf, 2)
      BY <1>1, <2>1, LaidFirst
    <3> QED BY <3>1 DEF Proper
  <2> QED BY <2>1
<1>3. a \in Cells /\ Len(a) = 2 /\ a[2] = NUL
  <2>1. 2 \in 0 .. Len(buf) /\ 2 \in 1 .. 2
    BY <1>1
  <2> HIDE DEF a
  <2> QED BY <1>1, <2>1, Front DEF a
<1> HIDE DEF a
<1>4. d \in Cells /\ Len(d) = 2 /\ d[1] = 2 /\ d[2] = NUL
  <2>1. 1 \in 1 .. Len(a) /\ 2 \in 1 .. Len(a) /\ 2 \in Nat /\ a \in Seq(Nat)
    BY <1>3 DEF Cells
  <2>2. /\ d \in Seq(Nat) /\ Len(d) = Len(a)
        /\ \A j \in 1 .. Len(a) : d[j] = IF j = 1 THEN 2 ELSE a[j]
    BY <2>1, ExceptSeq
  <2> HIDE DEF d
  <2> QED BY <1>3, <2>1, <2>2 DEF Cells
<1>5. d = Buffer!SetLen(2, SubSeq(buf, 1, 2))
  BY DEF a, Buffer!SetLen
<1> HIDE DEF d
<1>6. Document(d, <<>>)
  <2>1. Laid(d, 2, 2, <<>>)
    BY LaidNone
  <2>2. d[1] \in 2 .. Len(d)
    BY <1>4
  <2> QED BY <1>4, <2>1, <2>2 DEF Document
<1> QED BY <1>2, <1>5, <1>6

\* What DocBuilder makes of no element and of one.
BuiltBody(g, es) ==
  [i \in 0 .. Len(es) |->
     IF i = 0 THEN <<>> ELSE g[i - 1] \o Element(es[i].key, es[i].v)]

BodyOf(es) == CHOOSE g : g = BuiltBody(g, es)

LEMMA BuiltIs ==
  ASSUME NEW es
  PROVE  LET cells == BodyOf(es)[Len(es)] \o <<NUL>>
         IN  Buffer!Built(es) = <<Len(cells) + 1>> \o cells
  BY Zenon DEF Buffer!Built, BodyOf, BuiltBody, Buffer!Element, Element, Buffer!NUL, NUL

LEMMA BuiltHolds ==
  ASSUME NEW es, es = <<>> \/ \E key \in Nat \ {NUL} : \E v : Writable(v) /\ es = <<[key |-> key, v |-> v]>>
  PROVE  Document(Buffer!Built(es),
                  IF es = <<>> THEN <<>> ELSE <<Written(es[1].key, es[1].v)>>)
<1>1. CASE es = <<>>
  <2>1. Len(es) = 0 /\ 0 \in 0 .. Len(es)
    BY <1>1
  <2> DEFINE h == [i \in 0 .. 0 |-> <<>>]
             g == BodyOf(es)
  <2>2. h = BuiltBody(h, es)
    BY <2>1 DEF BuiltBody
  <2> HIDE DEF h
  <2>3. g = BuiltBody(g, es)
    BY <2>2 DEF BodyOf
  <2> HIDE DEF g
  <2>4. g[0] = <<>>
    BY <2>1, <2>3 DEF BuiltBody
  <2> DEFINE cells == g[0] \o <<NUL>>
             d == <<2, NUL>>
  <2>5. cells = <<NUL>> /\ Len(cells) = 1
    BY <2>4
  <2>6. Buffer!Built(es) = <<Len(cells) + 1>> \o cells
    <3>1. LET c == BodyOf(es)[Len(es)] \o <<NUL>> IN Buffer!Built(es) = <<Len(c) + 1>> \o c
      BY BuiltIs
    <3>2. BodyOf(es)[Len(es)] \o <<NUL>> = cells
      BY <2>1 DEF g
    <3> QED BY <3>1, <3>2
  <2>7. Buffer!Built(es) = d
    <3>1. <<2>> \o <<NUL>> = d
      <4> DEFINE a == <<2>>
                 b == <<NUL>>
                 c == a \o b
      <4>1. a \in Cells /\ b \in Cells /\ Len(a) = 1 /\ Len(b) = 1 /\ a[1] = 2 /\ b[1] = NUL
        BY DEF Cells, NUL
      <4>2. d \in Seq(Nat) /\ Len(d) = 2 /\ d[1] = 2 /\ d[2] = NUL
        BY DEF NUL
      <4> HIDE DEF a, b, d
      <4>3. /\ c \in Cells /\ Len(c) = Len(a) + Len(b)
            /\ \A i \in 1 .. Len(a) : c[i] = a[i]
            /\ \A i \in 1 .. Len(b) : c[Len(a) + i] = b[i]
        BY <4>1, CellsConcat
      <4> HIDE DEF c
      <4>4. c \in Seq(Nat) /\ Len(c) = 2 /\ c[1] = 2 /\ c[2] = NUL
        BY <4>1, <4>3 DEF Cells
      <4>5. c = d
        <5>1. \A i \in 1 .. Len(c) : c[i] = d[i]
          BY <4>2, <4>4
        <5> QED BY <4>2, <4>4, <5>1, SeqEqual
      <4> QED BY <4>5 DEF a, b, c
    <3>2. Len(cells) + 1 = 2
      <4> HIDE DEF cells
      <4> QED BY <2>5
    <3> HIDE DEF cells, d
    <3> QED BY <2>5, <2>6, <3>1, <3>2, Zenon
  <2>8. d \in Cells /\ Len(d) = 2 /\ d[1] = 2 /\ d[2] = NUL
    BY DEF Cells, NUL
  <2> HIDE DEF d
  <2>9. Laid(d, 2, 2, <<>>)
    BY LaidNone
  <2>10. d[1] \in 2 .. Len(d)
    BY <2>8
  <2>11. Document(d, <<>>)
    BY <2>8, <2>9, <2>10 DEF Document
  <2> QED BY <1>1, <2>7, <2>11
<1>2. ASSUME NEW key \in Nat \ {NUL}, NEW v, Writable(v), es = <<[key |-> key, v |-> v]>>
      PROVE  Document(Buffer!Built(es), <<Written(key, v)>>)
  <2> DEFINE w == Element(key, v)
             n == Len(v.cells)
             h == [i \in 0 .. 1 |-> IF i = 0 THEN <<>> ELSE <<>> \o w]
             g == BodyOf(es)
  <2>1. Len(es) = 1 /\ es[1].key = key /\ es[1].v = v
    BY <1>2
  <2>2. h = BuiltBody(h, es)
    <3>1. h[0] = <<>>
      OBVIOUS
    <3>2. \A i \in 0 .. 1 : i = 0 \/ (i = 1 /\ i - 1 = 0)
      OBVIOUS
    <3>3. \A i \in 0 .. 1 : h[i] = IF i = 0 THEN <<>> ELSE h[i - 1] \o Element(es[i].key, es[i].v)
      <4>1. h[1] = <<>> \o w
        OBVIOUS
      <4> HIDE DEF h
      <4> QED BY <2>1, <3>1, <3>2, <4>1
    <3>4. h = [i \in 0 .. 1 |-> h[i]]
      OBVIOUS
    <3> HIDE DEF h
    <3>5. h = [i \in 0 .. 1 |-> IF i = 0 THEN <<>> ELSE h[i - 1] \o Element(es[i].key, es[i].v)]
      BY <3>3, <3>4, Zenon
    <3> QED BY <2>1, <3>5 DEF BuiltBody
  <2> HIDE DEF h
  <2>3. g = BuiltBody(g, es)
    BY <2>2 DEF BodyOf
  <2> HIDE DEF g
  <2>4. g[0] = <<>> /\ g[1] = g[0] \o w
    <3>1. 0 \in 0 .. Len(es) /\ 1 \in 0 .. Len(es) /\ 1 - 1 = 0
      BY <2>1
    <3> QED BY <2>1, <2>3, <3>1 DEF BuiltBody
  <2>5. v.cells \in Cells /\ n \in Nat /\ v.id \in Nat
    BY <1>2, WritableFacts
  <2>6. w \in Cells /\ Len(w) = 3 + n
    BY <2>5, ElementCells
  <2> HIDE DEF w, n
  <2>7. g[1] = w
    <3>1. <<>> \o w = w
      BY <2>6, ConcatEmptySeq DEF Cells
    <3> QED BY <2>4, <3>1
  <2> DEFINE nul == <<NUL>>
             cells == w \o nul
             head == <<5 + n>>
             d == head \o cells
  <2>8. nul \in Cells /\ Len(nul) = 1 /\ nul[1] = NUL
    BY DEF Cells, NUL
  <2> HIDE DEF nul
  <2>9. /\ cells \in Cells /\ Len(cells) = 4 + n
        /\ \A i \in 1 .. 3 + n : cells[i] = w[i]
        /\ cells[4 + n] = NUL
    <3>1. /\ w \o nul \in Cells /\ Len(w \o nul) = Len(w) + Len(nul)
          /\ \A i \in 1 .. Len(w) : (w \o nul)[i] = w[i]
          /\ \A i \in 1 .. Len(nul) : (w \o nul)[Len(w) + i] = nul[i]
      BY <2>6, <2>8, CellsConcat
    <3> HIDE DEF cells
    <3>2. /\ cells \in Cells /\ Len(cells) = (3 + n) + 1
          /\ \A i \in 1 .. 3 + n : cells[i] = w[i]
          /\ cells[(3 + n) + 1] = nul[1]
      <4>1. 1 \in 1 .. Len(nul)
        BY <2>8
      <4> QED BY <2>6, <2>8, <3>1, <4>1 DEF cells
    <3>3. (3 + n) + 1 = 4 + n
      BY <2>5
    <3> QED BY <2>8, <3>2, <3>3
  <2> HIDE DEF cells
  <2>10. head \in Cells /\ Len(head) = 1 /\ head[1] = 5 + n
    BY <2>5 DEF Cells
  <2> HIDE DEF head
  <2>11. /\ d \in Cells /\ Len(d) = 5 + n /\ d[1] = 5 + n
         /\ \A i \in 1 .. 4 + n : d[1 + i] = cells[i]
    <3>1. /\ d \in Cells /\ Len(d) = Len(head) + Len(cells)
          /\ \A i \in 1 .. Len(head) : d[i] = head[i]
          /\ \A i \in 1 .. Len(cells) : d[Len(head) + i] = cells[i]
      BY <2>9, <2>10, CellsConcat
    <3> HIDE DEF d
    <3>2. 1 \in 1 .. Len(head) /\ 1 + (4 + n) = 5 + n
      BY <2>5, <2>10
    <3> QED BY <2>9, <2>10, <3>1, <3>2
  <2>12. Buffer!Built(es) = d
    <3>1. LET c == BodyOf(es)[Len(es)] \o <<NUL>> IN Buffer!Built(es) = <<Len(c) + 1>> \o c
      BY BuiltIs
    <3>2. BodyOf(es)[Len(es)] \o <<NUL>> = cells
      BY <2>1, <2>7 DEF g, cells, nul
    <3>3. Buffer!Built(es) = <<Len(cells) + 1>> \o cells
      BY <3>1, <3>2
    <3>4. Len(cells) + 1 = 5 + n
      BY <2>5, <2>9
    <3> QED BY <3>3, <3>4 DEF head
  <2> HIDE DEF d
  <2>13. Laid(d, 2, 2 + (3 + n), <<Written(key, v)>>)
    <3>1. \A i \in 1 .. 3 + n : d[2 + (i - 1)] = w[i]
      <4>1. \A i \in 1 .. 3 + n : i \in 1 .. 4 + n /\ 2 + (i - 1) = 1 + i
        BY <2>5
      <4> QED BY <2>9, <2>11, <4>1
    <3>2. 2 + 2 + n <= Len(d)
      BY <2>5, <2>11
    <3>3. 2 \in Nat \ {0}
      OBVIOUS
    <3> QED BY <1>2, <2>11, <3>1, <3>2, <3>3, ElementLaid DEF w, n
  <2>14. Document(d, <<Written(key, v)>>)
    <3>1. 2 + (3 + n) = 5 + n /\ 5 + n \in 2 .. 5 + n /\ 4 + n \in 1 .. 4 + n /\ 1 + (4 + n) = 5 + n
      BY <2>5
    <3>2. d[5 + n] = NUL
      BY <2>9, <2>11, <3>1
    <3> QED BY <2>11, <2>13, <3>1, <3>2 DEF Document
  <2> QED BY <2>12, <2>14
<1>3. ASSUME NEW key \in Nat \ {NUL}, NEW v, Writable(v), es = <<[key |-> key, v |-> v]>>
      PROVE  Document(Buffer!Built(es),
                  IF es = <<>> THEN <<>> ELSE <<Written(es[1].key, es[1].v)>>)
  <2>1. es # <<>> /\ es[1].key = key /\ es[1].v = v
    BY <1>3
  <2> QED BY <1>2, <1>3, <2>1
<1> QED BY <1>1, <1>3

-----------------------------------------------------------------------------
(* The buffer through any edits *)

\* No regular expression is written: after one, the iterator loses its place.
NoRegex == \A v \in Values : v.id # Regex

AllNested(A) == \A i \in 1 .. Len(A) : Nested(A[i])

Contains(c, A) == Document(c, A) /\ AllNested(A)

\* As long as it is not damaged, the buffer is a document.
BufferInv == damaged \in BOOLEAN /\ (~damaged => \E A : Contains(buf, A))

LEMMA NestedConcat ==
  ASSUME NEW A \in Seq(ElementRecord), NEW B \in Seq(ElementRecord)
  PROVE  AllNested(A \o B) <=> AllNested(A) /\ AllNested(B)
<1> DEFINE a == Len(A)
           b == Len(B)
           C == A \o B
<1>1. /\ a \in Nat /\ b \in Nat /\ Len(C) = a + b
      /\ \A i \in 1 .. a : C[i] = A[i]
      /\ \A i \in 1 .. b : C[a + i] = B[i]
  BY ConcatProperties
<1> HIDE DEF C, a, b
<1>2. /\ \A i \in 1 .. a : i \in 1 .. a + b
      /\ \A i \in 1 .. b : a + i \in 1 .. a + b
      /\ \A i \in 1 .. a + b : i \in 1 .. a \/ \E j \in 1 .. b : i = a + j
  <2>1. /\ \A i \in 1 .. a : i \in 1 .. a + b
        /\ \A i \in 1 .. b : a + i \in 1 .. a + b
    BY <1>1
  <2>2. ASSUME NEW i \in 1 .. a + b, i \notin 1 .. a PROVE \E j \in 1 .. b : i = a + j
    <3>1. i - a \in 1 .. b /\ i = a + (i - a)
      BY <1>1, <2>2
    <3> QED BY <3>1
  <2> QED BY <2>1, <2>2
<1>3. AllNested(C) <=> \A i \in 1 .. a + b : Nested(C[i])
  BY <1>1 DEF AllNested
<1>4. /\ AllNested(A) <=> \A i \in 1 .. a : Nested(A[i])
      /\ AllNested(B) <=> \A i \in 1 .. b : Nested(B[i])
  BY DEF AllNested, a, b
<1>5. AllNested(C) <=> AllNested(A) /\ AllNested(B)
  BY <1>1, <1>2, <1>3, <1>4, Zenon
<1> QED BY <1>5 DEF C

LEMMA NestedOne ==
  ASSUME NEW e \in ElementRecord
  PROVE  <<e>> \in Seq(ElementRecord) /\ (AllNested(<<e>>) <=> Nested(e))
<1>1. /\ <<e>> \in Seq(ElementRecord) /\ Len(<<e>>) = 1 /\ <<e>>[1] = e
  OBVIOUS
<1>2. \A i : i \in 1 .. 1 <=> i = 1
  OBVIOUS
<1> QED BY <1>1, <1>2 DEF AllNested

LEMMA NestedAround ==
  ASSUME NEW B \in Seq(ElementRecord), NEW C \in Seq(ElementRecord), NEW e \in ElementRecord
  PROVE  AllNested(B \o <<e>> \o C) <=> AllNested(B) /\ Nested(e) /\ AllNested(C)
<1>1. <<e>> \in Seq(ElementRecord) /\ (AllNested(<<e>>) <=> Nested(e))
  BY NestedOne
<1>2. B \o <<e>> \in Seq(ElementRecord)
  BY <1>1, ConcatProperties
<1> QED BY <1>1, <1>2, NestedConcat

\* What the program writes is an element.
LEMMA WrittenFacts ==
  ASSUME NoRegex, NEW key \in Keys, NEW v \in Values
  PROVE  /\ key \in Nat \ {NUL} /\ Writable(v)
         /\ Written(key, v) \in ElementRecord /\ Nested(Written(key, v))
         /\ MeantBy(v) \in Seq(Nat)
<1>1. key \in Nat \ {NUL}
  BY BsonAssumption, BufferReads DEF Buffer!KeyAssumption
<1>2. Writable(v) /\ (v.id \in {Doc, Array} => Iterate(v.cells, 2).ok)
  BY BsonAssumption, BufferReads DEF Buffer!ValueAssumption, Writable, NoRegex
<1>3. v.cells \in Cells /\ v.id \in Nat
  BY <1>2, WritableFacts
<1>4. Written(key, v) \in ElementRecord
  BY <1>1, <1>3 DEF Written, ElementRecord
<1>5. MeantBy(v) \in Seq(Nat)
  <2> DEFINE c == v.cells
             stop == Iterate(c, 2).stop
  <2>1. CASE v.id \in {Doc, Array}
    <3>1. 1 <= Len(c)
      BY <1>2, <2>1 DEF Writable, IsWhole, Readable, Null, Doc, Array
    <3>2. c \in Cells /\ Iterate(c, 2).ok
      BY <1>2, <1>3, <2>1
    <3> HIDE DEF c
    <3>3. Len(c) \in Nat /\ 2 \in 1 .. Len(c) + 1
      BY <3>1, <3>2, LenNat
    <3>4. stop \in 2 .. Len(c)
      BY <3>2, <3>3, IterateFacts
    <3> HIDE DEF stop
    <3>5. 2 \in Int /\ stop \in Int /\ \A i \in 2 .. stop : c[i] \in Nat
      <4>1. \A i \in 2 .. stop : i \in 1 .. Len(c)
        BY <3>3, <3>4
      <4> QED BY <3>2, <3>3, <3>4, <4>1 DEF Cells
    <3>6. SubSeq(c, 2, stop) \in Seq(Nat)
      BY <3>5, SubSeqProperties
    <3> QED BY <2>1, <3>6 DEF MeantBy, c, stop
  <2>2. CASE v.id \notin {Doc, Array}
    BY <1>3, <2>2 DEF MeantBy, Cells
  <2> QED BY <2>1, <2>2
<1> QED BY <1>1, <1>2, <1>4, <1>5 DEF Nested, Written

-----------------------------------------------------------------------------
(* What the edits do to the elements *)

\* The first element under this key.
FirstOf(A, B, e, C, key) ==
  /\ e \in ElementRecord /\ B \in Seq(ElementRecord) /\ C \in Seq(ElementRecord)
  /\ A = B \o <<e>> \o C
  /\ e.key = key /\ \A i \in 1 .. Len(B) : B[i].key # key

Added(A, D) == \E k \in Keys, v \in Values : D = A \o <<Written(k, v)>>

Replaced(A, D) ==
  \E k \in Keys, v \in Values : \E B, e, C :
    FirstOf(A, B, e, C, k) /\ D = B \o <<Written(k, v)>> \o C

Dropped(A, D) == \E k \in Keys : \E B, e, C : FirstOf(A, B, e, C, k) /\ D = B \o C

Copied(A, D) ==
  \E k \in Keys, l \in Keys : \E B, e, C, u :
    /\ FirstOf(A, B, e, C, k) /\ u.id = e.id /\ MeantBy(u) = MeantBy(e)
    /\ D = A \o <<Written(l, u)>>

LEMMA PlaceFirst ==
  ASSUME NEW A, Document(buf, A), NEW x, NEW B, NEW C, Place(A, x, B, C), NEW key \in Keys,
         buf[x + 1] = key, \A i \in 1 .. Len(B) : B[i].key # key
  PROVE  FirstOf(A, B, ElementAt(buf, x), C, key)
<1>1. ElementAt(buf, x) \in ElementRecord
  BY PlaceFacts
<1>2. ElementAt(buf, x).key = key
  BY DEF ElementAt
<1> QED BY <1>1, <1>2 DEF FirstOf, Place

\* DocMut::append of what the program writes.
LEMMA AppendStep ==
  ASSUME NoRegex, NEW A, Contains(buf, A), NEW key \in Keys, NEW v \in Values,
         buf' = Buffer!Appended(key, v)
  PROVE  \E D : Contains(buf', D) /\ Added(A, D)
<1> DEFINE e == Written(key, v)
           D == A \o <<e>>
<1>1. key \in Nat \ {NUL} /\ Writable(v) /\ e \in ElementRecord /\ Nested(e)
  BY WrittenFacts
<1>2. Document(buf, A) /\ AllNested(A) /\ A \in Seq(ElementRecord)
  BY DocumentFacts DEF Contains
<1>3. Document(buf', D)
  BY <1>1, <1>2, AppendedHolds
<1>4. Added(A, D)
  BY DEF Added
<1> HIDE DEF e
<1>5. AllNested(D)
  BY <1>1, <1>2, NestedOne, NestedConcat
<1> QED BY <1>3, <1>4, <1>5 DEF Contains

\* OccupiedEntry::insert
LEMMA OverwriteStep ==
  ASSUME NoRegex, NEW A, Contains(buf, A), NEW x, NEW B, NEW C, Place(A, x, B, C),
         NEW key \in Keys, buf[x + 1] = key, \A i \in 1 .. Len(B) : B[i].key # key,
         NEW v \in Values, buf' = Buffer!Overwritten(Offsets(x), v)
  PROVE  \E D : Contains(buf', D) /\ Replaced(A, D)
<1> DEFINE e == Written(key, v)
           f == ElementAt(buf, x)
           D == B \o <<e>> \o C
<1>1. key \in Nat \ {NUL} /\ Writable(v) /\ e \in ElementRecord /\ Nested(e)
  BY WrittenFacts
<1>2. Document(buf, A) /\ AllNested(A)
  BY DEF Contains
<1>3. FirstOf(A, B, f, C, key)
  BY <1>2, PlaceFirst
<1>4. Document(buf', D)
  <2>1. buf[x + 1] # NUL
    BY <1>1
  <2>2. Document(Buffer!Overwritten(Offsets(x), v), B \o <<Written(buf[x + 1], v)>> \o C)
    BY <1>1, <1>2, <2>1, OverwrittenHolds
  <2> QED BY <2>2
<1>5. Replaced(A, D)
  BY <1>3 DEF Replaced
<1> HIDE DEF e, f
<1>6. AllNested(D)
  BY <1>1, <1>2, <1>3, NestedAround DEF FirstOf
<1> QED BY <1>4, <1>5, <1>6 DEF Contains

\* OccupiedEntry::remove
LEMMA RemoveStep ==
  ASSUME NEW A, Contains(buf, A), NEW x, NEW B, NEW C, Place(A, x, B, C),
         NEW key \in Keys, buf[x + 1] = key, \A i \in 1 .. Len(B) : B[i].key # key,
         buf' = Buffer!Removed(Offsets(x))
  PROVE  \E D : Contains(buf', D) /\ Dropped(A, D)
<1> DEFINE f == ElementAt(buf, x)
           D == B \o C
<1>1. Document(buf, A) /\ AllNested(A)
  BY DEF Contains
<1>2. FirstOf(A, B, f, C, key)
  BY <1>1, PlaceFirst
<1>3. Document(buf', D)
  BY <1>1, RemovedHolds
<1>4. Dropped(A, D)
  BY <1>2 DEF Dropped
<1> HIDE DEF f
<1>5. AllNested(D)
  BY <1>1, <1>2, NestedAround, NestedConcat DEF FirstOf
<1> QED BY <1>3, <1>4, <1>5 DEF Contains

\* Document::get_any, and append of what it returns.
LEMMA CopyStep ==
  ASSUME NEW A, Contains(buf, A), NEW x, NEW B, NEW C, Place(A, x, B, C),
         NEW key \in Keys, buf[x + 1] = key, \A i \in 1 .. Len(B) : B[i].key # key,
         NEW to \in Keys, buf' = Buffer!Appended(to, Buffer!ReadAny(Offsets(x)))
  PROVE  \E D : Contains(buf', D) /\ Copied(A, D)
<1> DEFINE e == ElementAt(buf, x)
           u == Buffer!ReadAny(Offsets(x))
           w == Written(to, u)
           D == A \o <<w>>
<1>1. Document(buf, A) /\ AllNested(A) /\ A \in Seq(ElementRecord)
  BY DocumentFacts DEF Contains
<1>2. FirstOf(A, B, e, C, key)
  BY <1>1, PlaceFirst
<1>3. to \in Nat \ {NUL}
  BY BsonAssumption, BufferReads DEF Buffer!KeyAssumption
<1>4. /\ Writable(u) /\ u.id = e.id
      /\ e.id \notin {Doc, Array} => u.cells = e.cells
      /\ e.id \in {Doc, Array} /\ Nested(e) =>
           /\ Iterate(u.cells, 2) = Iterate(e.cells, 2)
           /\ SubSeq(u.cells, 2, Iterate(e.cells, 2).stop)
                = SubSeq(e.cells, 2, Iterate(e.cells, 2).stop)
  BY <1>1, CopyHolds
<1> HIDE DEF e, u
<1>5. Nested(e)
  BY <1>1, <1>2, NestedAround DEF FirstOf
<1>6. MeantBy(u) = MeantBy(e) /\ Nested(w)
  BY <1>4, <1>5, Zenon DEF MeantBy, Nested, Written
<1>7. w \in ElementRecord
  BY <1>3, <1>4, WritableFacts DEF Written, ElementRecord
<1>8. Document(buf', D)
  BY <1>1, <1>3, <1>4, AppendedHolds DEF u
<1>9. Copied(A, D)
  BY <1>2, <1>4, <1>6 DEF Copied
<1> HIDE DEF w
<1>10. AllNested(D)
  BY <1>1, <1>6, <1>7, NestedOne, NestedConcat
<1> QED BY <1>8, <1>9, <1>10 DEF Contains

\* Every edit of the bytes is one of the elements, or leaves a damaged buffer.
LEMMA EditStep ==
  ASSUME NoRegex, NEW A, Contains(buf, A), Buffer!Next, ~damaged'
  PROVE  \E D : /\ Contains(buf', D)
                /\ Added(A, D) \/ Replaced(A, D) \/ Dropped(A, D) \/ Copied(A, D) \/ D = A
<1> DEFINE Goal == \E D : /\ Contains(buf', D)
                          /\ Added(A, D) \/ Replaced(A, D) \/ Dropped(A, D) \/ Copied(A, D) \/ D = A
<1> SUFFICES Goal
  OBVIOUS
<1>1. Document(buf, A)
  BY DEF Contains
<1>2. \A k \in Keys : k \in Nat
  BY BsonAssumption DEF Buffer!KeyAssumption
<1>3. ASSUME NEW k \in Keys, NEW v \in Values, Buffer!AppendElement(k, v) PROVE Goal
  <2>1. buf' = Buffer!Appended(k, v)
    BY <1>3 DEF Buffer!AppendElement
  <2>2. \E D : Contains(buf', D) /\ Added(A, D)
    BY <2>1, AppendStep
  <2> QED BY <2>2
<1>4. ASSUME NEW k \in Keys, Buffer!Found(k)
      PROVE  \E x, B, C :
               /\ Buffer!Find(k) = Offsets(x) /\ Place(A, x, B, C)
               /\ buf[x + 1] = k /\ \A i \in 1 .. Len(B) : B[i].key # k
  BY <1>1, <1>2, <1>4, FindFinds DEF Buffer!Found
<1>5. ASSUME NEW k \in Keys, NEW v \in Values, Buffer!Insert(k, v) PROVE Goal
  <2>1. CASE ~Buffer!Found(k)
    BY <1>3, <1>5, <2>1 DEF Buffer!Insert
  <2>2. CASE Buffer!Found(k)
    <3>1. PICK x, B, C : /\ Buffer!Find(k) = Offsets(x) /\ Place(A, x, B, C)
                         /\ buf[x + 1] = k /\ \A i \in 1 .. Len(B) : B[i].key # k
      BY <1>4, <2>2
    <3>2. buf' = Buffer!Overwritten(Offsets(x), v)
      BY <1>5, <2>2, <3>1 DEF Buffer!Insert, Buffer!Overwrite
    <3>3. \E D : Contains(buf', D) /\ Replaced(A, D)
      BY <3>1, <3>2, OverwriteStep
    <3> QED BY <3>3
  <2> QED BY <2>1, <2>2
<1>6. ASSUME NEW k \in Keys, Buffer!Remove(k) PROVE Goal
  <2>1. PICK x, B, C : /\ Buffer!Find(k) = Offsets(x) /\ Place(A, x, B, C)
                       /\ buf[x + 1] = k /\ \A i \in 1 .. Len(B) : B[i].key # k
    BY <1>4, <1>6 DEF Buffer!Remove
  <2>2. buf' = Buffer!Removed(Offsets(x))
    BY <1>6, <2>1 DEF Buffer!Remove
  <2>3. \E D : Contains(buf', D) /\ Dropped(A, D)
    BY <2>1, <2>2, RemoveStep
  <2> QED BY <2>3
<1>7. ASSUME NEW k \in Keys, NEW l \in Keys, Buffer!Copy(k, l) PROVE Goal
  <2>1. PICK x, B, C : /\ Buffer!Find(k) = Offsets(x) /\ Place(A, x, B, C)
                       /\ buf[x + 1] = k /\ \A i \in 1 .. Len(B) : B[i].key # k
    BY <1>4, <1>7 DEF Buffer!Copy
  <2>2. buf' = Buffer!Appended(l, Buffer!ReadAny(Offsets(x)))
    BY <1>7, <2>1 DEF Buffer!Copy, Buffer!AppendElement
  <2>3. \E D : Contains(buf', D) /\ Copied(A, D)
    BY <2>1, <2>2, CopyStep
  <2> QED BY <2>3
<1>8. ASSUME Buffer!Clear PROVE Goal
  <2>1. buf' = Buffer!SetLen(2, SubSeq(buf, 1, 2)) /\ buf[2] = NUL
    BY <1>8, BufferReads DEF Buffer!Clear
  <2>2. A = <<>> /\ Document(buf', <<>>)
    BY <1>1, <2>1, ClearHolds
  <2>3. Contains(buf', A)
    BY <2>2 DEF Contains
  <2> QED BY <2>3
<1>9. ASSUME NEW k \in Keys, Buffer!ChainVacant(k) PROVE FALSE
  BY <1>9 DEF Buffer!ChainVacant
<1> HIDE DEF Goal
<1> QED BY <1>3, <1>5, <1>6, <1>7, <1>8, <1>9 DEF Buffer!Next

LEMMA BufferStarts ==
  ASSUME NoRegex, Buffer!Init
  PROVE  /\ damaged = FALSE
         /\ \E A : /\ Contains(buf, A)
                  /\ \A i \in 1 .. Len(A) : A[i].key \in Keys /\ MeantBy(A[i]) \in Seq(Nat)
<1>0. damaged = FALSE
  BY DEF Buffer!Init
<1>1. PICK n \in 0 .. 1 : \E es \in [1 .. n -> [key : Keys, v : Values]] : buf = Buffer!Built(es)
  BY DEF Buffer!Init
<1> PICK es \in [1 .. n -> [key : Keys, v : Values]] : buf = Buffer!Built(es)
  BY <1>1
<1> DEFINE A == IF es = <<>> THEN <<>> ELSE <<Written(es[1].key, es[1].v)>>
<1>2. CASE n = 0
  <2>1. es = <<>>
    BY <1>1, <1>2
  <2>2. Document(buf, A)
    BY <1>1, <2>1, BuiltHolds
  <2>3. Len(A) = 0 /\ \A i : i \notin 1 .. 0
    BY <2>1
  <2> HIDE DEF A
  <2> QED BY <1>0, <2>2, <2>3 DEF Contains, AllNested
<1>3. CASE n = 1
  <2> DEFINE key == es[1].key
             v == es[1].v
             e == Written(key, v)
  <2>1. es[1] \in [key : Keys, v : Values]
    BY <1>1, <1>3
  <2>2. key \in Keys /\ v \in Values /\ es[1] = [key |-> key, v |-> v]
    BY <2>1
  <2>3. es = <<es[1]>>
    BY <1>1, <1>3
  <2>4. es = <<[key |-> key, v |-> v]>> /\ es # <<>>
    BY <2>2, <2>3
  <2> HIDE DEF key, v
  <2>5. /\ key \in Nat \ {NUL} /\ Writable(v) /\ e \in ElementRecord /\ Nested(e)
        /\ MeantBy(v) \in Seq(Nat)
    BY <2>2, WrittenFacts
  <2>6. A = <<e>>
    BY <2>4 DEF key, v
  <2>7. Document(buf, A)
    BY <1>1, <2>4, <2>5, BuiltHolds
  <2>8. e.key \in Keys /\ MeantBy(e) = MeantBy(v)
    BY <2>2 DEF Written, MeantBy
  <2> HIDE DEF A, e
  <2>9. Contains(buf, A)
    BY <2>5, <2>6, <2>7, NestedOne DEF Contains
  <2>10. Len(A) = 1 /\ A[1] = e
    BY <2>6
  <2>11. \A i \in 1 .. Len(A) : A[i].key \in Keys /\ MeantBy(A[i]) \in Seq(Nat)
    BY <2>5, <2>8, <2>10
  <2> QED BY <1>0, <2>9, <2>11
<1>4. n = 0 \/ n = 1
  OBVIOUS
<1> HIDE DEF A
<1> QED BY <1>2, <1>3, <1>4

LEMMA BufferStep == ASSUME NoRegex, BufferInv, [Next]_vars PROVE BufferInv'
<1>1. CASE UNCHANGED buffer
  BY <1>1 DEF BufferInv, buffer
<1>2. CASE Buffer!Next
  <2>1. ~damaged /\ damaged \in BOOLEAN
    BY <1>2 DEF BufferInv, Buffer!Next
  <2>2. PICK A : Contains(buf, A)
    BY <2>1 DEF BufferInv
  <2>3. ~damaged' => \E D : Contains(buf', D)
    BY <1>2, <2>2, EditStep
  <2>4. damaged' \in BOOLEAN
    BY <1>2, <2>1 DEF Buffer!Next, Buffer!AppendElement, Buffer!Insert, Buffer!Overwrite,
                      Buffer!Remove, Buffer!Copy, Buffer!Clear, Buffer!ChainVacant
  <2> QED BY <2>3, <2>4 DEF BufferInv
<1> QED BY <1>1, <1>2 DEF Next, vars

LEMMA BufferStays == ASSUME NoRegex PROVE Spec => []BufferInv
<1>1. Init => BufferInv
  <2> SUFFICES ASSUME Init PROVE BufferInv
    OBVIOUS
  <2>1. Buffer!Init
    BY DEF Init
  <2> QED BY <2>1, BufferStarts DEF BufferInv
<1>2. BufferInv /\ [Next]_vars => BufferInv'
  BY BufferStep
<1> QED BY <1>1, <1>2, PTL DEF Spec

\* DocRefIter yields the elements of a document, up to its length.
LEMMA DocumentIterates ==
  ASSUME NEW A, NEW c, Document(c, A)
  PROVE  Iterate(c, 2) = [ok |-> TRUE, elements |-> A, stop |-> c[1]]
<1>1. c \in Cells /\ Laid(c, 2, c[1], A) /\ c[c[1]] = NUL /\ c[1] \in 2 .. Len(c)
  BY DEF Document
<1> DEFINE q == c[1]
<1>2. Len(c) \in Nat
  BY <1>1, LenNat
<1>3. q \in 1 .. Len(c) /\ c[q] = NUL /\ Laid(c, 2, q, A)
  BY <1>1, <1>2
<1> HIDE DEF q
<1>4. Iterate(c, 2) = [ok |-> TRUE, elements |-> A, stop |-> q]
  BY <1>1, <1>3, LaidIterates
<1> QED BY <1>4 DEF q

\* While elements are appended, overwritten, removed and copied, of values without
\* regular expressions, the iterator meets its terminator exactly at the length.
\* Nothing is said of what clear makes of a document with elements, of what is
\* inserted through the entry of a VacantEntry, and of writing a UtcDateTime.
THEOREM LengthsAreExact == ASSUME NoRegex PROVE Spec => []LengthIsExact
<1>1. BufferInv => LengthIsExact
  <2> SUFFICES ASSUME BufferInv, ~damaged
               PROVE  Buffer!Iterate(buf, 2).ok /\ Buffer!Iterate(buf, 2).stop = Buffer!size
    BY DEF LengthIsExact, Buffer!LengthIsExact
  <2>1. PICK A : Document(buf, A)
    BY DEF BufferInv, Contains
  <2>2. Iterate(buf, 2) = [ok |-> TRUE, elements |-> A, stop |-> buf[1]]
    BY <2>1, DocumentIterates
  <2> QED BY <2>2, BufferReads DEF Buffer!size
<1> QED BY <1>1, BufferStays, PTL

\* The two walks over a document agree: find stops at the element that the
\* iterator yields first under a key.
THEOREM FindsFirst == ASSUME NoRegex PROVE Spec => []FindAgrees
<1>1. ASSUME BufferInv, ~damaged, NEW k \in Keys
      PROVE  LET elements == Buffer!Iterate(buf, 2).elements
                 Yielded == {i \in DOMAIN elements : elements[i].key = k}
                 e == Buffer!Find(k)
             IN  /\ Buffer!Found(k) <=> Yielded # {}
                 /\ Buffer!Found(k) => \E i \in Yielded :
                      /\ \A j \in Yielded : i <= j
                      /\ elements[i].id = buf[e.key_off]
                      /\ elements[i].cells
                           = SubSeq(buf, e.val_off, e.val_off + Buffer!ValSize(e) - 1)
  <2>1. PICK A : Document(buf, A)
    BY <1>1 DEF BufferInv, Contains
  <2>2. Buffer!Iterate(buf, 2).elements = A
    BY <2>1, DocumentIterates, BufferReads
  <2>3. A \in Seq(ElementRecord) /\ DOMAIN A = 1 .. Len(A) /\ Len(A) \in Nat
    BY <2>1, DocumentFacts
  <2>4. k \in Nat
    BY BsonAssumption DEF Buffer!KeyAssumption
  <2> DEFINE Yielded == {i \in DOMAIN A : A[i].key = k}
             e == Buffer!Find(k)
             old == Buffer!ValSize(e)
  <2>5. CASE e = Buffer!NotFound /\ \A i \in 1 .. Len(A) : A[i].key # k
    <3>1. ~Buffer!Found(k) /\ Yielded = {}
      BY <2>3, <2>5 DEF Buffer!Found
    <3> QED BY <2>2, <3>1
  <2>6. ASSUME NEW x, NEW B, NEW C, e = Offsets(x), Place(A, x, B, C), buf[x + 1] = k,
               \A i \in 1 .. Len(B) : B[i].key # k
        PROVE  /\ Buffer!Found(k)
               /\ \E i \in Yielded :
                    /\ \A j \in Yielded : i <= j
                    /\ A[i].id = buf[e.key_off]
                    /\ A[i].cells = SubSeq(buf, e.val_off, e.val_off + old - 1)
    <3> DEFINE f == ElementAt(buf, x)
               i == Len(B) + 1
    <3>1. /\ x \in Nat /\ x >= 2 /\ f \in ElementRecord
          /\ old = ValueSize(buf[x], buf, x + 3) /\ old \in Nat
      BY <2>1, <2>6, PlaceFacts
    <3>2. /\ f.key = k /\ f.id = buf[x]
          /\ f.cells = SubSeq(buf, x + 3, x + 2 + old)
      BY <2>6, <3>1 DEF ElementAt
    <3>3. B \in Seq(ElementRecord) /\ C \in Seq(ElementRecord) /\ A = B \o <<f>> \o C
      BY <2>6 DEF Place
    <3>4. e.key_off = x /\ e.val_off = x + 3 /\ e # Buffer!NotFound
      <4>1. e.key_off = x /\ e.val_off = x + 3
        BY <2>6 DEF Offsets
      <4>2. Buffer!NotFound.key_off = 0
        BY DEF Buffer!NotFound
      <4> HIDE DEF e
      <4> QED BY <3>1, <4>1, <4>2
    <3>5. x + 3 + old - 1 = x + 2 + old
      BY <3>1
    <3> HIDE DEF f, e, old
    <3>6. i \in 1 .. Len(A) /\ A[i] = f /\ \A j \in 1 .. Len(B) : A[j] = B[j]
      BY <3>1, <3>3
    <3>7. i \in Yielded
      BY <2>3, <3>2, <3>6
    <3>8. ASSUME NEW j \in Yielded PROVE i <= j
      <4>1. j \in 1 .. Len(A) /\ A[j].key = k
        BY <2>3
      <4>2. j \notin 1 .. Len(B)
        BY <2>6, <3>6, <4>1
      <4>3. Len(B) \in Nat
        BY <3>3
      <4> QED BY <2>3, <4>1, <4>2, <4>3
    <3>9. A[i].id = buf[e.key_off] /\ A[i].cells = SubSeq(buf, e.val_off, e.val_off + old - 1)
      BY <3>2, <3>4, <3>5, <3>6
    <3> HIDE DEF i, Yielded
    <3> QED BY <3>4, <3>7, <3>8, <3>9 DEF Buffer!Found, e
  <2>7. \/ e = Buffer!NotFound /\ \A i \in 1 .. Len(A) : A[i].key # k
        \/ \E x, B, C :
             /\ e = Offsets(x) /\ Place(A, x, B, C)
             /\ buf[x + 1] = k /\ \A i \in 1 .. Len(B) : B[i].key # k
    BY <2>1, <2>4, FindFinds
  <2>8. CASE Buffer!Found(k) /\ \E i \in Yielded :
               /\ \A j \in Yielded : i <= j
               /\ A[i].id = buf[e.key_off]
               /\ A[i].cells = SubSeq(buf, e.val_off, e.val_off + old - 1)
    BY <2>2, <2>8
  <2> HIDE DEF Yielded, e, old
  <2> QED BY <2>5, <2>6, <2>7, <2>8
<1>2. BufferInv => FindAgrees
  BY <1>1 DEF FindAgrees, Buffer!FindAgrees
<1> QED BY <1>2, BufferStays, PTL

-----------------------------------------------------------------------------
(* The buffer implements a list of elements *)

\* The lengths and the members of a concatenation.
IsJoin(z, s, t) ==
  /\ Len(z) = Len(s) + Len(t) /\ Len(s) \in Nat /\ Len(t) \in Nat
  /\ \A i \in 1 .. Len(s) : z[i] = s[i]
  /\ \A i \in 1 .. Len(t) : z[Len(s) + i] = t[i]

LEMMA Joined ==
  ASSUME NEW S, NEW s \in Seq(S), NEW t \in Seq(S)
  PROVE  s \o t \in Seq(S) /\ IsJoin(s \o t, s, t)
  BY DEF IsJoin

\* What the elements mean, one by one.
Meant(A) == [i \in DOMAIN A |-> Meaning(A[i])]

MeantElement == {Meaning(e) : e \in ElementRecord}

LEMMA MeantSeq ==
  ASSUME NEW A \in Seq(ElementRecord)
  PROVE  /\ Meant(A) \in Seq(MeantElement) /\ Len(Meant(A)) = Len(A)
         /\ DOMAIN A = 1 .. Len(A) /\ DOMAIN Meant(A) = 1 .. Len(A)
         /\ \A i \in 1 .. Len(A) : Meant(A)[i] = Meaning(A[i])
<1> DEFINE n == Len(A)
<1>1. DOMAIN A = 1 .. n /\ n \in Nat /\ \A i \in 1 .. n : A[i] \in ElementRecord
  OBVIOUS
<1>2. \A i \in 1 .. n : Meaning(A[i]) \in MeantElement
  BY <1>1 DEF MeantElement
<1>3. Meant(A) = [i \in 1 .. n |-> Meaning(A[i])]
  BY <1>1 DEF Meant
<1> HIDE DEF n
<1>4. Meant(A) \in [1 .. n -> MeantElement]
  BY <1>2, <1>3
<1>5. Meant(A) \in Seq(MeantElement) /\ Len(Meant(A)) = n /\ DOMAIN Meant(A) = 1 .. n
  BY <1>1, <1>4
<1> QED BY <1>1, <1>3, <1>5 DEF n

LEMMA MeantConcat ==
  ASSUME NEW A \in Seq(ElementRecord), NEW B \in Seq(ElementRecord)
  PROVE  Meant(A \o B) = Meant(A) \o Meant(B)
<1> DEFINE S == MeantElement
           a == Len(A)
           b == Len(B)
           C == A \o B
           l == Meant(C)
           f == Meant(A)
           g == Meant(B)
           r == f \o g
<1>1. /\ C \in Seq(ElementRecord) /\ a \in Nat /\ b \in Nat /\ Len(C) = a + b
      /\ \A i \in 1 .. a : C[i] = A[i]
      /\ \A i \in 1 .. b : C[a + i] = B[i]
  <2>1. C \in Seq(ElementRecord) /\ IsJoin(C, A, B)
    BY Joined, Zenon
  <2> HIDE DEF C
  <2> QED BY <2>1 DEF IsJoin
<1> HIDE DEF C
<1>2. /\ l \in Seq(S) /\ Len(l) = a + b
      /\ \A i \in 1 .. a + b : l[i] = Meaning(C[i])
  BY <1>1, MeantSeq
<1>3. /\ f \in Seq(S) /\ g \in Seq(S) /\ Len(f) = a /\ Len(g) = b
      /\ \A i \in 1 .. a : f[i] = Meaning(A[i])
      /\ \A i \in 1 .. b : g[i] = Meaning(B[i])
  BY MeantSeq
<1> HIDE DEF S, f, g, l, a, b
<1>4. /\ r \in Seq(S) /\ Len(r) = a + b
      /\ \A i \in 1 .. a : r[i] = f[i]
      /\ \A i \in 1 .. b : r[a + i] = g[i]
  <2>1. r \in Seq(S) /\ IsJoin(r, f, g)
    BY <1>3, Joined, Zenon
  <2> HIDE DEF r
  <2> QED BY <1>3, <2>1 DEF IsJoin
<1> HIDE DEF r
<1>5. \A i \in 1 .. a : i \in 1 .. a + b
  BY <1>1
<1>6. \A i \in 1 .. b : a + i \in 1 .. a + b
  BY <1>1
<1>7. \A i \in 1 .. a + b : i \in 1 .. a \/ \E j \in 1 .. b : i = a + j
  <2> SUFFICES ASSUME NEW i \in 1 .. a + b, i \notin 1 .. a PROVE \E j \in 1 .. b : i = a + j
    OBVIOUS
  <2>1. i - a \in 1 .. b /\ i = a + (i - a)
    BY <1>1
  <2> QED BY <2>1
<1>8. \A i \in 1 .. a + b : l[i] = r[i]
  <2> SUFFICES ASSUME NEW i \in 1 .. a + b PROVE l[i] = r[i]
    OBVIOUS
  <2>1. CASE i \in 1 .. a
    BY <1>1, <1>2, <1>3, <1>4, <2>1
  <2>2. ASSUME NEW j \in 1 .. b, i = a + j PROVE l[i] = r[i]
    <3>1. l[a + j] = Meaning(C[a + j]) /\ r[a + j] = g[j]
      BY <1>2, <1>4, <1>6
    <3>2. C[a + j] = B[j] /\ g[j] = Meaning(B[j])
      BY <1>1, <1>3
    <3> QED BY <2>2, <3>1, <3>2
  <2> QED BY <1>7, <2>1, <2>2
<1>9. l = r
  BY <1>2, <1>4, <1>8, SeqEqual
<1> QED BY <1>9 DEF l, r, f, g, C

LEMMA MeantOne ==
  ASSUME NEW e \in ElementRecord
  PROVE  /\ <<e>> \in Seq(ElementRecord) /\ Meaning(e) \in MeantElement
         /\ Meant(<<e>>) = <<Meaning(e)>>
<1> DEFINE a == <<e>>
           m == Meaning(e)
           b == <<m>>
<1>1. a \in Seq(ElementRecord) /\ Len(a) = 1 /\ a[1] = e
  OBVIOUS
<1>2. m \in MeantElement
  BY DEF MeantElement
<1> HIDE DEF m
<1>3. b \in Seq(MeantElement) /\ Len(b) = 1 /\ b[1] = m
  BY <1>2
<1> HIDE DEF a, b
<1>4. Meant(a) \in Seq(MeantElement) /\ Len(Meant(a)) = 1 /\ Meant(a)[1] = m
  <2>1. 1 \in 1 .. Len(a)
    BY <1>1
  <2> QED BY <1>1, <2>1, MeantSeq DEF m
<1>5. \A i \in 1 .. Len(b) : Meant(a)[i] = b[i]
  <2>1. \A i \in 1 .. 1 : i = 1
    OBVIOUS
  <2> QED BY <1>3, <1>4, <2>1
<1>6. Meant(a) = b
  BY <1>3, <1>4, <1>5, SeqEqual
<1> QED BY <1>1, <1>2, <1>6 DEF a, b, m

LEMMA MeantAround ==
  ASSUME NEW B \in Seq(ElementRecord), NEW C \in Seq(ElementRecord), NEW e \in ElementRecord
  PROVE  Meant(B \o <<e>> \o C) = Meant(B) \o <<Meaning(e)>> \o Meant(C)
<1>1. <<e>> \in Seq(ElementRecord) /\ Meant(<<e>>) = <<Meaning(e)>>
  BY MeantOne
<1>2. B \o <<e>> \in Seq(ElementRecord)
  BY <1>1, ConcatProperties
<1> QED BY <1>1, <1>2, MeantConcat, ZenonT(60)

\* The member m of a list s between b and c, replaced by w and left out.
IsBetween(s, b, m, c, w) ==
  LET n == Len(b) + 1
  IN  /\ n \in 1 .. Len(s) /\ s[n] = m /\ \A i \in 1 .. n - 1 : s[i] = b[i]
      /\ [s EXCEPT ![n] = w] = b \o <<w>> \o c
      /\ SubSeq(s, 1, n - 1) \o SubSeq(s, n + 1, Len(s)) = b \o c

LEMMA OneOfList ==
  ASSUME NEW S, NEW b \in Seq(S), NEW c \in Seq(S), NEW m \in S, NEW w \in S
  PROVE  IsBetween(b \o <<m>> \o c, b, m, c, w)
<1> DEFINE Of(x) == b \o <<x>> \o c
           k == Len(b)
           l == Len(c)
<1>1. ASSUME NEW x \in S
      PROVE  /\ Of(x) \in Seq(S) /\ Len(Of(x)) = k + 1 + l
             /\ \A i \in 1 .. k : Of(x)[i] = b[i]
             /\ Of(x)[k + 1] = x
             /\ \A i \in 1 .. l : Of(x)[k + 1 + i] = c[i]
  <2> DEFINE u == <<x>>
             v == b \o u
  <2>1. u \in Seq(S) /\ Len(u) = 1 /\ u[1] = x
    OBVIOUS
  <2> HIDE DEF u
  <2>2. /\ v \in Seq(S) /\ Len(v) = k + 1
        /\ \A i \in 1 .. k : v[i] = b[i]
        /\ v[k + 1] = x
    <3>1. v \in Seq(S) /\ IsJoin(v, b, u)
      BY <2>1, Joined, Zenon
    <3> HIDE DEF v
    <3>2. 1 \in 1 .. 1
      OBVIOUS
    <3> QED BY <2>1, <3>1, <3>2 DEF IsJoin
  <2> HIDE DEF v
  <2>3. /\ v \o c \in Seq(S) /\ Len(v \o c) = k + 1 + l
        /\ \A i \in 1 .. k + 1 : (v \o c)[i] = v[i]
        /\ \A i \in 1 .. l : (v \o c)[k + 1 + i] = c[i]
    <3> DEFINE z == v \o c
    <3>1. z \in Seq(S) /\ IsJoin(z, v, c)
      BY <2>2, Joined, Zenon
    <3> HIDE DEF z
    <3>2. /\ z \in Seq(S) /\ Len(z) = k + 1 + l
          /\ \A i \in 1 .. k + 1 : z[i] = v[i]
          /\ \A i \in 1 .. l : z[k + 1 + i] = c[i]
      BY <2>2, <3>1 DEF IsJoin
    <3> QED BY <3>2 DEF z
  <2>4. k \in Nat /\ k + 1 \in 1 .. k + 1 /\ \A i \in 1 .. k : i \in 1 .. k + 1
    OBVIOUS
  <2> QED BY <2>2, <2>3, <2>4 DEF u, v
<1> DEFINE s == Of(m)
           n == k + 1
           r == [s EXCEPT ![n] = w]
           t == Of(w)
<1>2. k \in Nat /\ l \in Nat
  OBVIOUS
<1>3. /\ s \in Seq(S) /\ Len(s) = k + 1 + l /\ s[k + 1] = m
      /\ \A i \in 1 .. k : s[i] = b[i]
      /\ \A i \in 1 .. l : s[k + 1 + i] = c[i]
  BY <1>1
<1>4. /\ t \in Seq(S) /\ Len(t) = k + 1 + l /\ t[k + 1] = w
      /\ \A i \in 1 .. k : t[i] = b[i]
      /\ \A i \in 1 .. l : t[k + 1 + i] = c[i]
  BY <1>1
<1> HIDE DEF Of, k, l
<1>5. n \in 1 .. Len(s) /\ n - 1 = k
  BY <1>2, <1>3
<1> HIDE DEF s, t
<1>6. r = t
  <2>1. /\ r \in Seq(S) /\ Len(r) = Len(s)
        /\ \A j \in 1 .. Len(s) : r[j] = IF j = n THEN w ELSE s[j]
    <3> HIDE DEF n
    <3> QED BY <1>3, <1>5, ExceptSeq
  <2> HIDE DEF r
  <2>2. ASSUME NEW j \in 1 .. k + 1 + l PROVE r[j] = t[j]
    <3>1. CASE j \in 1 .. k
      <4>1. j # n
        BY <1>2, <3>1
      <4> QED BY <1>3, <1>4, <2>1, <3>1, <4>1
    <3>2. CASE j = k + 1
      BY <1>3, <1>4, <2>1, <3>2
    <3>3. CASE j > k + 1
      <4> DEFINE i == j - (k + 1)
      <4>1. i \in 1 .. l /\ j = k + 1 + i /\ j # n
        BY <1>2, <3>3
      <4> HIDE DEF i, n
      <4>2. r[j] = s[j] /\ s[j] = c[i] /\ t[j] = c[i]
        BY <1>3, <1>4, <2>1, <4>1
      <4> QED BY <4>2
    <3> QED BY <1>2, <3>1, <3>2, <3>3
  <2> QED BY <1>3, <1>4, <2>1, <2>2, SeqEqual
<1>7. SubSeq(s, 1, n - 1) \o SubSeq(s, n + 1, Len(s)) = b \o c
  <2> DEFINE p == SubSeq(s, 1, k)
             q == SubSeq(s, k + 2, k + 1 + l)
  <2>1. p = b
    <3>1. 1 \in Int /\ k \in Int /\ \A i \in 1 .. k : s[i] \in S
      BY <1>2, <1>3 DEF k
    <3>2. /\ p \in Seq(S) /\ Len(p) = IF 1 <= k THEN k - 1 + 1 ELSE 0
          /\ \A i \in 1 .. k - 1 + 1 : p[i] = s[1 + i - 1]
      BY <3>1, SubSeqProperties
    <3> HIDE DEF p
    <3>3. Len(p) = k /\ k - 1 + 1 = k /\ \A i \in 1 .. k : 1 + i - 1 = i
      BY <1>2, <3>2
    <3>4. \A i \in 1 .. k : p[i] = b[i]
      BY <1>3, <3>2, <3>3
    <3> QED BY <3>2, <3>3, <3>4, SeqEqual DEF k
  <2>2. q = c
    <3>1. k + 2 \in Int /\ k + 1 + l \in Int /\ \A i \in k + 2 .. k + 1 + l : s[i] \in S
      <4>1. \A i \in k + 2 .. k + 1 + l : i \in 1 .. k + 1 + l
        BY <1>2
      <4> QED BY <1>2, <1>3, <4>1
    <3>2. /\ q \in Seq(S)
          /\ Len(q) = IF k + 2 <= k + 1 + l THEN (k + 1 + l) - (k + 2) + 1 ELSE 0
          /\ \A i \in 1 .. (k + 1 + l) - (k + 2) + 1 : q[i] = s[k + 2 + i - 1]
      BY <3>1, SubSeqProperties
    <3> HIDE DEF q
    <3>3. /\ Len(q) = l /\ (k + 1 + l) - (k + 2) + 1 = l
          /\ \A i \in 1 .. l : k + 2 + i - 1 = k + 1 + i
      BY <1>2, <3>2
    <3>4. \A i \in 1 .. l : q[i] = c[i]
      BY <1>3, <3>2, <3>3
    <3> QED BY <3>2, <3>3, <3>4, SeqEqual DEF l
  <2>3. n + 1 = k + 2
    BY <1>2
  <2> QED BY <1>3, <1>5, <2>1, <2>2, <2>3
<1>8. n = Len(b) + 1 /\ s = b \o <<m>> \o c /\ t = b \o <<w>> \o c
  BY DEF Of, k, s, t
<1>9. \A i \in 1 .. n - 1 : s[i] = b[i]
  BY <1>3, <1>5
<1>10. s[n] = m
  BY <1>3
<1> HIDE DEF n
<1> HIDE DEF s, t
<1>11. IsBetween(s, b, m, c, w)
  BY <1>5, <1>6, <1>7, <1>8, <1>9, <1>10 DEF r, IsBetween
<1> QED BY <1>8, <1>11

LEMMA DocumentIsSeq == \A c, A : Document(c, A) => A \in Seq(ElementRecord)
  BY DEF Document, Laid

\* The elements of a buffer, as DocumentElements has them.
LEMMA ElementsMeant ==
  ASSUME NEW c, NEW A, Document(c, A)
  PROVE  Buffer!Elements(c) = Meant(A)
<1>1. \A e : Buffer!Meaning(e) = Meaning(e)
  BY BufferReads DEF Buffer!Meaning, Meaning, Buffer!MeantBy, MeantBy
<1>2. Buffer!Iterate(c, 2).elements = A
  BY DocumentIterates, BufferReads
<1> QED BY <1>1, <1>2 DEF Buffer!Elements, Meant

LEMMA ContentsMeant ==
  ASSUME NEW v \in Values
  PROVE  [id |-> v.id, value |-> MeantBy(v)] \in Buffer!Contents
  BY BufferReads DEF Buffer!Contents, Buffer!MeantBy, MeantBy

LEMMA WrittenMeans ==
  \A key, v : Meaning(Written(key, v)) = [key |-> key, id |-> v.id, value |-> MeantBy(v)]
  BY DEF Meaning, Written, MeantBy

LEMMA FirstMeant ==
  ASSUME NEW A, NEW B, NEW e, NEW C, NEW key, FirstOf(A, B, e, C, key),
         Buffer!Elements(buf) = Meant(A)
  PROVE  /\ Buffer!Abstract!First(key) = Len(B) + 1 /\ Len(B) + 1 # 0
         /\ Meant(A)[Len(B) + 1] = Meaning(e)
<1> DEFINE n == Len(B) + 1
           at == {i \in DOMAIN Meant(A) : Meant(A)[i].key = key}
<1>1. /\ e \in ElementRecord /\ B \in Seq(ElementRecord) /\ C \in Seq(ElementRecord)
      /\ A = B \o <<e>> \o C /\ e.key = key /\ \A i \in 1 .. Len(B) : B[i].key # key
  BY DEF FirstOf
<1>2. n \in 1 .. Len(A) /\ A[n] = e /\ \A i \in 1 .. n - 1 : A[i] = B[i]
  <2>1. IsBetween(A, B, e, C, e)
    BY <1>1, OneOfList, Zenon
  <2> QED BY <2>1 DEF IsBetween
<1>3. A \in Seq(ElementRecord)
  BY <1>1, <1>2
<1>4. /\ DOMAIN Meant(A) = 1 .. Len(A) /\ Len(A) \in Nat
      /\ \A i \in 1 .. Len(A) : Meant(A)[i] = Meaning(A[i])
  BY <1>3, MeantSeq
<1>5. \A x : Meaning(x).key = x.key
  BY DEF Meaning
<1>6. n \in at
  BY <1>1, <1>2, <1>4, <1>5
<1>7. n - 1 = Len(B) /\ Len(B) \in Nat
  BY <1>1
<1>8. ASSUME NEW j \in at PROVE n <= j
  <2>1. j \in 1 .. Len(A) /\ A[j].key = key
    BY <1>4, <1>5
  <2>2. j \notin 1 .. n - 1
    BY <1>1, <1>2, <1>7, <2>1
  <2> QED BY <1>4, <1>7, <2>1, <2>2
<1>9. Buffer!Abstract!First(key) = CHOOSE i \in at : \A j \in at : i <= j
  <2>1. at # {}
    BY <1>6
  <2>2. Buffer!Abstract!First(key) = IF at = {} THEN 0 ELSE CHOOSE i \in at : \A j \in at : i <= j
    BY DEF Buffer!Abstract!First
  <2> HIDE DEF at
  <2> QED BY <2>1, <2>2
<1>10. \A i \in at : i \in Nat
  BY <1>4
<1>11. Meant(A)[n] = Meaning(e) /\ n # 0
  BY <1>2, <1>4, <1>7
<1> HIDE DEF at, n
<1>12. (CHOOSE i \in at : \A j \in at : i <= j) = n
  <2>1. \A i \in at : (\A j \in at : i <= j) => i = n
    <3> SUFFICES ASSUME NEW i \in at, \A j \in at : i <= j PROVE i = n
      OBVIOUS
    <3>1. i <= n /\ n <= i /\ i \in Nat /\ n \in Nat
      BY <1>6, <1>8, <1>10
    <3> QED BY <3>1
  <2> QED BY <1>6, <1>8, <2>1
<1> QED BY <1>9, <1>11, <1>12 DEF n

\* An edit of the elements of the buffer is a step of the list they make.
LEMMA ListStep ==
  ASSUME NoRegex, NEW A, Contains(buf, A), NEW D, Contains(buf', D),
         Added(A, D) \/ Replaced(A, D) \/ Dropped(A, D) \/ Copied(A, D) \/ D = A,
         UNCHANGED damaged
  PROVE  Buffer!AbstractStep
<1> DEFINE E == Buffer!Elements(buf)
           F == Buffer!Elements(buf')
           S == MeantElement
           Under(k, v) == [key |-> k, id |-> v.id, value |-> MeantBy(v)]
           Content(v) == [id |-> v.id, value |-> MeantBy(v)]
<1>1. /\ A \in Seq(ElementRecord) /\ E = Meant(A) /\ F = Meant(D)
      /\ Meant(A) \in Seq(S)
  <2>1. A \in Seq(ElementRecord)
    BY DocumentFacts DEF Contains
  <2>2. E = Meant(A) /\ F = Meant(D)
    BY ElementsMeant DEF Contains
  <2> QED BY <2>1, <2>2, MeantSeq
<1>2. \A k, v : Meaning(Written(k, v)) = Under(k, v)
  BY WrittenMeans
<1>3. \A k \in Keys, v \in Values :
        Written(k, v) \in ElementRecord /\ Content(v) \in Buffer!Contents
  BY WrittenFacts, ContentsMeant
<1>4. \A w \in ElementRecord : Meant(A \o <<w>>) = Append(Meant(A), Meaning(w))
  <2> SUFFICES ASSUME NEW w \in ElementRecord
               PROVE  Meant(A \o <<w>>) = Append(Meant(A), Meaning(w))
    OBVIOUS
  <2>1. <<w>> \in Seq(ElementRecord) /\ Meaning(w) \in S /\ Meant(<<w>>) = <<Meaning(w)>>
    BY MeantOne
  <2>2. Meant(A \o <<w>>) = Meant(A) \o <<Meaning(w)>>
    BY <1>1, <2>1, MeantConcat
  <2> HIDE DEF S
  <2>3. Append(Meant(A), Meaning(w)) = Meant(A) \o <<Meaning(w)>>
    BY <1>1, <2>1, AppendIsConcat
  <2> QED BY <2>2, <2>3
<1>5. CASE Added(A, D)
  <2>1. PICK k \in Keys, v \in Values : D = A \o <<Written(k, v)>>
    BY <1>5 DEF Added
  <2>2. F = Append(E, Under(k, v))
    BY <1>1, <1>2, <1>3, <1>4, <2>1
  <2>3. Buffer!Abstract!Add(k, Content(v))
    <3>1. Under(k, v) = Buffer!Abstract!Under(k, Content(v))
      BY DEF Buffer!Abstract!Under
    <3> HIDE DEF Under, Content
    <3> QED BY <2>2, <3>1 DEF Buffer!Abstract!Add
  <2> HIDE DEF Under, Content, E, F
  <2> QED BY <1>3, <2>3 DEF Buffer!AbstractStep, Buffer!Abstract!Next
<1>6. CASE Replaced(A, D)
  <2>0. PICK k \in Keys, v \in Values :
          \E B, e, C : FirstOf(A, B, e, C, k) /\ D = B \o <<Written(k, v)>> \o C
    BY <1>6 DEF Replaced
  <2>1. PICK B, e, C : FirstOf(A, B, e, C, k) /\ D = B \o <<Written(k, v)>> \o C
    BY <2>0
  <2> DEFINE n == Len(B) + 1
             w == Written(k, v)
             b == Meant(B)
             c == Meant(C)
  <2>2. /\ e \in ElementRecord /\ B \in Seq(ElementRecord) /\ C \in Seq(ElementRecord)
        /\ A = B \o <<e>> \o C
    BY <2>1 DEF FirstOf
  <2>3. Buffer!Abstract!First(k) = n /\ n # 0
    BY <1>1, <2>1, FirstMeant
  <2>4. w \in ElementRecord /\ Meaning(w) = Under(k, v) /\ D = B \o <<w>> \o C
    BY <1>2, <1>3, <2>1
  <2> HIDE DEF w
  <2>5. E = b \o <<Meaning(e)>> \o c /\ F = b \o <<Meaning(w)>> \o c
    BY <1>1, <2>2, <2>4, MeantAround
  <2>6. /\ b \in Seq(S) /\ c \in Seq(S) /\ Len(b) + 1 = n
        /\ Meaning(e) \in S /\ Meaning(w) \in S
    BY <2>2, <2>4, MeantSeq, MeantOne
  <2> HIDE DEF S, b, c, n, E, F, Under
  <2>7. F = [E EXCEPT ![n] = Meaning(w)]
    <3>1. IsBetween(E, b, Meaning(e), c, Meaning(w))
      BY <2>5, <2>6, OneOfList, Zenon
    <3> QED BY <2>5, <2>6, <3>1 DEF IsBetween
  <2>8. Buffer!Abstract!Put(k, Content(v))
    <3>1. Meaning(w) = Buffer!Abstract!Under(k, Content(v))
      BY <2>4 DEF Under, Buffer!Abstract!Under
    <3>2. Buffer!Elements(buf')
            = [Buffer!Elements(buf) EXCEPT ![Buffer!Abstract!First(k)]
                 = Buffer!Abstract!Under(k, Content(v))]
      BY <2>3, <2>7, <3>1 DEF E, F
    <3> HIDE DEF Content
    <3> QED BY <2>3, <3>2 DEF Buffer!Abstract!Put
  <2> HIDE DEF Content
  <2> QED BY <1>3, <2>8 DEF Buffer!AbstractStep, Buffer!Abstract!Next
<1>7. CASE Dropped(A, D)
  <2>0. PICK k \in Keys : \E B, e, C : FirstOf(A, B, e, C, k) /\ D = B \o C
    BY <1>7 DEF Dropped
  <2>1. PICK B, e, C : FirstOf(A, B, e, C, k) /\ D = B \o C
    BY <2>0
  <2> DEFINE n == Len(B) + 1
             b == Meant(B)
             c == Meant(C)
  <2>2. /\ e \in ElementRecord /\ B \in Seq(ElementRecord) /\ C \in Seq(ElementRecord)
        /\ A = B \o <<e>> \o C
    BY <2>1 DEF FirstOf
  <2>3. Buffer!Abstract!First(k) = n /\ n # 0
    BY <1>1, <2>1, FirstMeant
  <2>4. E = b \o <<Meaning(e)>> \o c /\ F = b \o c
    BY <1>1, <2>1, <2>2, MeantAround, MeantConcat
  <2>5. b \in Seq(S) /\ c \in Seq(S) /\ Len(b) + 1 = n /\ Meaning(e) \in S
    BY <2>2, MeantSeq, MeantOne
  <2> HIDE DEF S, b, c, n, E, F
  <2>6. F = SubSeq(E, 1, n - 1) \o SubSeq(E, n + 1, Len(E))
    <3>1. IsBetween(E, b, Meaning(e), c, Meaning(e))
      BY <2>4, <2>5, OneOfList, Zenon
    <3> QED BY <2>4, <2>5, <3>1 DEF IsBetween
  <2>7. Buffer!Abstract!Remove(k)
    BY <2>3, <2>6 DEF E, F, Buffer!Abstract!Remove
  <2> QED BY <2>7 DEF Buffer!AbstractStep, Buffer!Abstract!Next
<1>8. CASE Copied(A, D)
  <2>0. PICK k \in Keys, l \in Keys :
          \E B, e, C, u :
            /\ FirstOf(A, B, e, C, k) /\ u.id = e.id /\ MeantBy(u) = MeantBy(e)
            /\ D = A \o <<Written(l, u)>>
    BY <1>8 DEF Copied
  <2>1. PICK B, e, C, u :
          /\ FirstOf(A, B, e, C, k) /\ u.id = e.id /\ MeantBy(u) = MeantBy(e)
          /\ D = A \o <<Written(l, u)>>
    BY <2>0
  <2> DEFINE n == Len(B) + 1
             w == Written(l, u)
  <2>2. Buffer!Abstract!First(k) = n /\ n # 0 /\ E[n] = Meaning(e)
    BY <1>1, <2>1, FirstMeant
  <2>3. Meaning(w) = Buffer!Abstract!Under(l, Buffer!Abstract!Content(n))
    <3>1. Meaning(w) = [key |-> l, id |-> e.id, value |-> MeantBy(e)]
      BY <1>2, <2>1
    <3>2. E[n].id = e.id /\ E[n].value = MeantBy(e)
      BY <2>2 DEF Meaning
    <3> HIDE DEF w, n
    <3> QED BY <3>1, <3>2 DEF Buffer!Abstract!Under, Buffer!Abstract!Content
  <2>4. w \in ElementRecord
    <3>1. D \in Seq(ElementRecord) /\ A \in Seq(ElementRecord) /\ D = A \o <<w>>
      BY <1>1, <2>1, DocumentIsSeq DEF Contains
    <3> DEFINE m == Len(A) + 1
    <3>2. Len(A) \in Nat /\ Len(D) = Len(A) + 1 /\ D[m] = w
      <4> HIDE DEF w
      <4> QED BY <3>1
    <3>3. m \in 1 .. Len(D)
      BY <3>2
    <3> QED BY <3>1, <3>2, <3>3, ElementOfSeq
  <2>5. F = Append(E, Meaning(w))
    BY <1>1, <1>4, <2>1, <2>4
  <2> HIDE DEF w
  <2>6. Buffer!Abstract!Copy(k, l)
    BY <2>2, <2>3, <2>5 DEF Buffer!Abstract!Copy, Buffer!Abstract!Add, n
  <2> QED BY <2>6 DEF Buffer!AbstractStep, Buffer!Abstract!Next
<1>9. CASE D = A
  BY <1>1, <1>9 DEF Buffer!AbstractStep, Buffer!Abstract!vars
<1> QED BY <1>5, <1>6, <1>7, <1>8, <1>9

\* Edits of the bytes are edits of the list of elements: what find, the iterator and
\* get_any make of the buffer is what the list says.
THEOREM DocumentsAreElements == ASSUME NoRegex PROVE Spec => ImplementsElements
<1>1. Init => Buffer!AbstractInit
  <2> SUFFICES ASSUME Init PROVE Buffer!AbstractInit
    OBVIOUS
  <2>1. Buffer!Init
    BY DEF Init
  <2>2. damaged = FALSE
    BY <2>1, BufferStarts
  <2>3. PICK A : /\ Contains(buf, A)
                 /\ \A i \in 1 .. Len(A) : A[i].key \in Keys /\ MeantBy(A[i]) \in Seq(Nat)
    BY <2>1, BufferStarts
  <2> DEFINE T == [key : Keys, id : Nat, value : Seq(Nat)]
             n == Len(A)
  <2>4. A \in Seq(ElementRecord) /\ Buffer!Elements(buf) = Meant(A)
    BY <2>3, DocumentFacts, ElementsMeant DEF Contains
  <2>5. n \in Nat /\ \A i \in 1 .. n : A[i].id \in Nat
    <3>1. n \in Nat /\ \A i \in 1 .. n : A[i] \in ElementRecord
      BY <2>4
    <3> QED BY <3>1 DEF ElementRecord
  <2>6. \A i \in 1 .. n : Meaning(A[i]) \in T
    BY <2>3, <2>5 DEF Meaning
  <2>7. Meant(A) = [i \in 1 .. n |-> Meaning(A[i])]
    BY <2>4 DEF Meant
  <2> HIDE DEF T, n
  <2>8. Meant(A) \in [1 .. n -> T]
    BY <2>6, <2>7
  <2>9. Meant(A) \in Seq(T)
    BY <2>5, <2>8
  <2> QED BY <2>2, <2>4, <2>9 DEF T, Buffer!AbstractInit, Buffer!Abstract!Init
<1>2. BufferInv /\ BufferInv' /\ [Next]_vars => [focus = "buffer" => Buffer!AbstractStep]_buffer
  <2> SUFFICES ASSUME BufferInv, BufferInv', Buffer!Next PROVE Buffer!AbstractStep
    BY DEF Next, vars, buffer
  <2>1. CASE damaged'
    BY <2>1 DEF Buffer!AbstractStep, Buffer!Abstract!Next, Buffer!Abstract!Damage
  <2>2. CASE ~damaged'
    <3>1. ~damaged
      BY DEF Buffer!Next
    <3>2. UNCHANGED damaged
      BY <2>2, <3>1 DEF BufferInv
    <3>3. PICK A : Contains(buf, A)
      BY <3>1 DEF BufferInv
    <3>4. \E D : /\ Contains(buf', D)
                 /\ Added(A, D) \/ Replaced(A, D) \/ Dropped(A, D) \/ Copied(A, D) \/ D = A
      BY <2>2, <3>3, EditStep
    <3> QED BY <3>2, <3>3, <3>4, ListStep
  <2> QED BY <2>1, <2>2
<1> QED BY <1>1, <1>2, BufferStays, PTL DEF Spec, ImplementsElements
-----------------------------------------------------------------------------
(* Parts: values at any depth of a document that is being written. *)

\* The instance has the definitions of BsonValues for its own.
LEMMA CodecReads ==
  /\ Codec!NUL = NUL /\ Codec!Regex = Regex /\ Codec!Doc = Doc /\ Codec!Array = Array
  /\ \A c, i : Codec!NulFrom(c, i) = NulFrom(c, i)
  /\ \A id, c, i : /\ Codec!ValueSize(id, c, i) = ValueSize(id, c, i)
                   /\ Codec!Readable(id, c, i) = Readable(id, c, i)
  /\ \A c, i : Codec!Iterate(c, i) = Iterate(c, i)
  /\ \A v : Codec!IsWhole(v) = IsWhole(v)
  /\ \A c, T : Codec!IsNested(c, T) = IsNested(c, T)
  /\ \A c, T, s, e : Codec!FollowEachOther(c, T, s, e) = FollowEachOther(c, T, s, e)
  BY DEF Codec!F64, Codec!Str, Codec!Doc, Codec!Array, Codec!Binary, Codec!ObjectId,
         Codec!Bool, Codec!DateTime, Codec!Null, Codec!Regex, Codec!JavaScript,
         Codec!JavaScriptWithScope, Codec!I32, Codec!Timestamp, Codec!I64, Codec!F128,
         Codec!NUL, Codec!FixedSize, Codec!NulFrom, Codec!ValueSize, Codec!Readable,
         Codec!Panic, Codec!Iterate, Codec!IsWhole, Codec!ValueEnd, Codec!HasKey, Codec!HasValue,
         Codec!Continues, Codec!FollowEachOther, Codec!IsNested,
         F64, Str, Doc, Array, Binary, ObjectId, Bool, DateTime, Null, Regex, JavaScript,
         JavaScriptWithScope, I32, Timestamp, I64, F128,
         NUL, FixedSize, NulFrom, ValueSize, Readable, Panic, Iterate, IsWhole, ValueEnd, HasKey,
         HasValue, Continues, FollowEachOther, IsNested

Part == [from : Nat, to : Nat, within : Nat]

\* Where an element or the terminator of the document at s may stand.
Bounds(T, s) == {s + 1} \cup {t.to : t \in {u \in T : u.within = s}}

\* What may be written without its size in front.
Odd == {Binary, JavaScript, JavaScriptWithScope}

\* L knows of the values that are, and of the regular expressions.
IsPart(c, L, t) ==
  /\ t.within >= 1 /\ t.within + 4 <= t.from /\ t.from <= t.to /\ t.to <= Len(c) + 1
  /\ HasKey(c, t.from)
  /\ HasValue(c, t.from, t.to) \/ (c[t.from - 3] \in Odd /\ t.from \in L)
  /\ c[t.from - 3] = Regex => t.from \in L

\* From the start of a document its elements lead to its last cell; not so far if
\* the document was written with cells behind its terminator.
Chained(c, T, L, s, e) ==
  \A x \in Bounds(T, s) :
    /\ x < e
    /\ Continues(c, T, s, x) \/ (c[x] = NUL /\ (x = e - 1 \/ s \in L))

\* Of two parts none starts where the other does, and what is within ends before.
Apart(T) ==
  \A t, u \in T : /\ t.from = u.from => t = u
                  /\ t.within = u.from => t.to < u.to

Tree(c, T, L) ==
  /\ T \in SUBSET Part
  /\ \A t \in T : IsPart(c, L, t)
  /\ Apart(T)
  /\ \A t \in T : c[t.from - 3] \in {Doc, Array} => Chained(c, T, L, t.from, t.to)

LEMMA Ids19 ==
  /\ NUL = 0 /\ Regex # NUL /\ Doc # NUL /\ Array # NUL /\ JavaScript # NUL
  /\ Null # Regex /\ Regex \notin {Doc, Array}
  /\ Null \notin {Doc, Array}
  /\ \A id \in Odd : id \notin {Doc, Array, Regex} /\ id \in Nat \ {0}
  BY DEF NUL, Regex, Doc, Array, JavaScript, Null, Odd, Binary, JavaScriptWithScope

\* A value is read alike wherever its cells are.
LEMMA ValueShift ==
  ASSUME NEW c \in Cells, NEW d \in Cells, NEW i \in Nat, NEW to \in Nat, i >= 4, i <= to,
         NEW j \in Nat, j >= 4, Same(c, i - 3, to - 1, d, j - 3)
  PROVE  /\ HasKey(c, i) => HasKey(d, j)
         /\ HasValue(c, i, to) => HasValue(d, j, j + (to - i))
         /\ d[j - 3] = c[i - 3]
<1>1. Len(c) \in Nat /\ Len(d) \in Nat
  BY LenNat
<1>2. \A x \in i - 3 .. to - 1 : d[(j - 3) + (x - (i - 3))] = c[x]
  BY DEF Same
<1>3. /\ i - 3 \in i - 3 .. to - 1 /\ i - 2 \in i - 3 .. to - 1 /\ i - 1 \in i - 3 .. to - 1
      /\ (j - 3) + ((i - 3) - (i - 3)) = j - 3 /\ (j - 3) + ((i - 2) - (i - 3)) = j - 2
      /\ (j - 3) + ((i - 1) - (i - 3)) = j - 1
  OBVIOUS
<1>4. d[j - 3] = c[i - 3] /\ d[j - 2] = c[i - 2] /\ d[j - 1] = c[i - 1]
  BY <1>2, <1>3
<1>5. ASSUME HasValue(c, i, to) PROVE HasValue(d, j, j + (to - i))
  <2> DEFINE id == c[i - 3]
             size == ValueSize(id, c, i)
  <2>1. /\ Readable(id, c, i) /\ to = i + size + (IF id = Regex THEN 1 ELSE 0)
        /\ id # Null => i < to
        /\ id = Regex => c[to - 1] = NUL
    BY <1>5 DEF HasValue, ValueEnd
  <2>2. size \in Nat
    BY <2>1, SizeFacts
  <2>3. Same(c, i, to - 1, d, j)
    <3>1. \A x \in i .. to - 1 : x \in i - 3 .. to - 1 /\ (j - 3) + (x - (i - 3)) = j + (x - i)
      OBVIOUS
    <3>2. \A x \in i .. to - 1 : d[j + (x - i)] = c[x]
      BY <1>2, <3>1
    <3>3. to - 1 <= Len(c) /\ j + ((to - 1) - i) <= Len(d)
      BY <1>1 DEF Same
    <3> QED BY <3>2, <3>3 DEF Same
  <2> HIDE DEF size, id
  <2>4. /\ to - 1 \in Nat /\ i \in Nat \ {0} /\ j \in Nat \ {0}
        /\ to - 1 >= i + size - 1 /\ (id # Null => to - 1 >= i)
        /\ (id = Regex => to - 1 >= i + size)
    BY <2>1, <2>2
  <2>5. Readable(id, d, j) /\ ValueSize(id, d, j) = size
    BY <2>1, <2>3, <2>4, SizeShift DEF size
  <2>6. /\ j + (to - i) = j + size + (IF id = Regex THEN 1 ELSE 0)
        /\ id # Null => j < j + (to - i)
    BY <2>1, <2>2
  <2>7. id = Regex => d[(j + (to - i)) - 1] = NUL
    <3>1. SUFFICES ASSUME id = Regex PROVE d[(j + (to - i)) - 1] = NUL
      OBVIOUS
    <3>2. to - 1 \in i .. to - 1 /\ j + ((to - 1) - i) = (j + (to - i)) - 1
      BY <2>2, <2>4, <3>1
    <3>3. d[j + ((to - 1) - i)] = c[to - 1]
      BY <2>3, <3>2 DEF Same
    <3> QED BY <2>1, <3>1, <3>2, <3>3
  <2>8. d[j - 3] = id
    BY <1>4 DEF id
  <2> QED BY <2>5, <2>6, <2>7, <2>8 DEF HasValue, ValueEnd
<1> QED BY <1>4, <1>5 DEF HasKey

Kept(c, d, t) == \A x \in t.from - 3 .. t.to - 1 : d[x] = c[x]

LEMMA PartNumbers ==
  ASSUME NEW t \in Part, NEW c, NEW L, IsPart(c, L, t)
  PROVE  /\ t.from \in Nat /\ t.to \in Nat /\ t.within \in Nat
         /\ t.within >= 1 /\ t.within + 4 <= t.from /\ t.from <= t.to /\ t.to <= Len(c) + 1
  BY DEF Part, IsPart

\* A part whose cells are left alone stays a part.
LEMMA PartStays ==
  ASSUME NEW c \in Cells, NEW d \in Cells, NEW L, NEW K, L \subseteq K, NEW t \in Part,
         IsPart(c, L, t), Kept(c, d, t), Len(c) <= Len(d)
  PROVE  IsPart(d, K, t) /\ d[t.from - 3] = c[t.from - 3]
<1> DEFINE i == t.from
           to == t.to
<1>1. Len(c) \in Nat /\ Len(d) \in Nat
  BY LenNat
<1>2. /\ i \in Nat /\ to \in Nat /\ t.within \in Nat
      /\ t.within >= 1 /\ t.within + 4 <= i /\ i <= to /\ to <= Len(c) + 1
  BY PartNumbers
<1>3. \A x \in i - 3 .. to - 1 : d[x] = c[x]
  BY DEF Kept
<1>4. /\ HasKey(c, i)
      /\ HasValue(c, i, to) \/ (c[i - 3] \in Odd /\ i \in L)
      /\ c[i - 3] = Regex => i \in L
  BY DEF IsPart
<1> HIDE DEF i, to
<1>5. Same(c, i - 3, to - 1, d, i - 3)
  <2>1. \A x \in i - 3 .. to - 1 : (i - 3) + (x - (i - 3)) = x
    BY <1>2
  <2>2. to - 1 <= Len(c) /\ (i - 3) + ((to - 1) - (i - 3)) <= Len(d)
    BY <1>1, <1>2
  <2> QED BY <1>3, <2>1, <2>2 DEF Same
<1>6. i + (to - i) = to /\ i >= 4
  BY <1>2
<1>7. /\ HasKey(c, i) => HasKey(d, i)
      /\ HasValue(c, i, to) => HasValue(d, i, i + (to - i))
      /\ d[i - 3] = c[i - 3]
  BY <1>2, <1>5, <1>6, ValueShift
<1>8. /\ HasValue(d, i, to) \/ (d[i - 3] \in Odd /\ i \in K)
      /\ d[i - 3] = Regex => i \in K
  BY <1>4, <1>6, <1>7
<1>9. to <= Len(d) + 1
  BY <1>1, <1>2
<1> QED BY <1>2, <1>4, <1>7, <1>8, <1>9 DEF IsPart, i, to

\* Where elements may stand, as numbers.
LEMMA BoundNumbers ==
  ASSUME NEW c, NEW L, NEW T \in SUBSET Part, \A t \in T : IsPart(c, L, t),
         NEW s \in Nat, NEW x \in Bounds(T, s)
  PROVE  x \in Nat /\ x >= s + 1
<1>1. CASE x = s + 1
  BY <1>1
<1>2. ASSUME NEW t \in T, t.within = s, x = t.to PROVE x \in Nat /\ x >= s + 1
  <2>1. /\ t.from \in Nat /\ t.to \in Nat /\ t.within \in Nat
        /\ t.within + 4 <= t.from /\ t.from <= t.to
    BY PartNumbers
  <2> QED BY <1>2, <2>1
<1> QED BY <1>1, <1>2 DEF Bounds

LEMMA ContinuesOn ==
  ASSUME NEW c, NEW d, NEW L, NEW T \in SUBSET Part, NEW U, T \subseteq U,
         \A t \in T : IsPart(c, L, t), \A t \in T : Kept(c, d, t),
         NEW s, NEW x \in Nat, Continues(c, T, s, x)
  PROVE  Continues(d, U, s, x)
<1>1. c[x] # NUL
  BY DEF Continues
<1>2. PICK t \in T : t.from = x + 3 /\ t.within = s
  BY DEF Continues
<1>3. t.from \in Nat /\ t.to \in Nat /\ t.from <= t.to
  BY PartNumbers
<1>4. x \in t.from - 3 .. t.to - 1
  BY <1>2, <1>3
<1>5. d[x] = c[x]
  BY <1>4 DEF Kept
<1> QED BY <1>1, <1>2, <1>5 DEF Continues

\* A tree grows by parts Q, and the other cells that change belong to no part of it.
LEMMA Grown ==
  ASSUME NEW c \in Cells, NEW d \in Cells, NEW L, NEW K, L \subseteq K, NEW T, Tree(c, T, L),
         Len(c) <= Len(d), \A t \in T : Kept(c, d, t),
         NEW Q \in SUBSET Part, \A u \in Q : IsPart(d, K, u), Apart(Q),
         \A t \in T, u \in Q : /\ t.from # u.from /\ u.within # t.from
                               /\ t.within = u.from => t.to < u.to,
         \A u \in Q : d[u.from - 3] \in {Doc, Array} => Chained(d, T \cup Q, K, u.from, u.to)
  PROVE  Tree(d, T \cup Q, K)
<1>1. T \in SUBSET Part /\ (\A t \in T : IsPart(c, L, t)) /\ Apart(T)
  BY DEF Tree
<1>2. \A t \in T : IsPart(d, K, t) /\ d[t.from - 3] = c[t.from - 3]
  BY <1>1, PartStays
<1>3. T \cup Q \in SUBSET Part /\ \A t \in T \cup Q : IsPart(d, K, t)
  BY <1>1, <1>2
<1>4. Apart(T \cup Q)
  BY <1>1 DEF Apart
<1>5. ASSUME NEW t \in T, d[t.from - 3] \in {Doc, Array}
      PROVE  Chained(d, T \cup Q, K, t.from, t.to)
  <2>1. Bounds(T \cup Q, t.from) = Bounds(T, t.from)
    BY DEF Bounds
  <2>2. Chained(c, T, L, t.from, t.to)
    BY <1>2, <1>5 DEF Tree
  <2>3. SUFFICES ASSUME NEW x \in Bounds(T, t.from)
                 PROVE  /\ x < t.to
                        /\ \/ Continues(d, T \cup Q, t.from, x)
                           \/ d[x] = NUL /\ (x = t.to - 1 \/ t.from \in K)
    BY <2>1 DEF Chained
  <2>4. /\ x < t.to
        /\ Continues(c, T, t.from, x) \/ (c[x] = NUL /\ (x = t.to - 1 \/ t.from \in L))
    BY <2>2 DEF Chained
  <2>5. t.from \in Nat /\ t.to \in Nat
    BY <1>1, PartNumbers
  <2>6. x \in Nat /\ x >= t.from + 1
    BY <1>1, <2>5, BoundNumbers
  <2>7. d[x] = c[x]
    <3>1. x \in t.from - 3 .. t.to - 1
      BY <2>4, <2>5, <2>6
    <3> QED BY <3>1 DEF Kept
  <2>8. Continues(c, T, t.from, x) => Continues(d, T \cup Q, t.from, x)
    <3>1. T \subseteq T \cup Q
      OBVIOUS
    <3> QED BY <1>1, <2>6, <3>1, ContinuesOn
  <2> QED BY <2>4, <2>7, <2>8
<1> QED BY <1>3, <1>4, <1>5 DEF Tree

-----------------------------------------------------------------------------
(***************************************************************************)
(* The writer.  W is its stack: of the documents that are open, each       *)
(* begins behind the key of the one before, and what is written in it      *)
(* leads to that key, the innermost one's to the end of the cells.  The    *)
(* lengths and ids that are still to be filled in are in no part.          *)
(***************************************************************************)
WriterRecord == [at : Nat, offset : Nat, index : Nat, type : {Doc, Array}]

Stack(c, W) ==
  /\ W \in Seq(WriterRecord) /\ W # <<>>
  /\ W[1].offset = 1 /\ W[1].at = 0
  /\ \A k \in 1 .. Len(W) : 1 <= W[k].offset /\ W[k].offset <= Len(c)
  /\ \A k \in 2 .. Len(W) : /\ W[k].offset = W[k].at + 3
                            /\ c[W[k].offset - 2] # NUL /\ c[W[k].offset - 1] = NUL
  /\ \A j, k \in 1 .. Len(W) : j < k => W[j].offset < W[k].at

EndOf(c, W, k) == IF k = Len(W) THEN Len(c) + 1 ELSE W[k + 1].at

Leads(c, T, W) ==
  \A k \in 1 .. Len(W) : \A x \in Bounds(T, W[k].offset) :
    Continues(c, T, W[k].offset, x) \/ x = EndOf(c, W, k)

Beside(T, W) ==
  \A t \in T, k \in 1 .. Len(W) : t.to <= W[k].at \/ t.from - 3 > W[k].offset

Noted(V, T) == \A v \in V : \E t \in T : v = <<t.from, t.to>>

Writing(c, W, V, L, T) ==
  /\ c \in Cells /\ Tree(c, T, L)
  /\ Stack(c, W) /\ Leads(c, T, W) /\ Beside(T, W) /\ Noted(V, T)

\* One stack is the other but for the indexes.
Alike(W, X) ==
  /\ X \in Seq(WriterRecord) /\ Len(X) = Len(W)
  /\ \A k \in 1 .. Len(W) : X[k].offset = W[k].offset /\ X[k].at = W[k].at

LEMMA KeyRange ==
  ASSUME NEW o \in Nat, NEW a \in Nat, NEW n \in Nat, o = a + 3, o <= n
  PROVE  o - 2 \in 1 .. n /\ o - 1 \in 1 .. n
  OBVIOUS

LEMMA FurtherOn ==
  ASSUME NEW o \in Nat, NEW n \in Nat, o <= n, NEW w \in Nat, w > n + 1,
         NEW f \in Nat, w + 4 <= f
  PROVE  f - 3 > o
  OBVIOUS

LEMMA LastOrBefore ==
  ASSUME NEW n \in Nat, NEW k \in 2 .. n + 1, k # n + 1
  PROVE  k \in 2 .. n /\ k \in 1 .. n
  OBVIOUS

LEMMA StackNumbers ==
  ASSUME NEW c \in Cells, NEW W, Stack(c, W)
  PROVE  /\ Len(W) \in Nat \ {0} /\ Len(W) \in 1 .. Len(W) /\ 1 \in 1 .. Len(W)
         /\ \A k \in 1 .. Len(W) : /\ W[k] \in WriterRecord
                                   /\ W[k].offset \in 1 .. Len(c) /\ W[k].at \in Nat
<1>1. W \in Seq(WriterRecord) /\ W # <<>>
  BY DEF Stack
<1>2. Len(W) \in Nat \ {0}
  BY <1>1, EmptySeq
<1>3. \A k \in 1 .. Len(W) : W[k] \in WriterRecord
  BY <1>1, ElementOfSeq
<1>4. \A k \in 1 .. Len(W) : W[k].offset \in Nat /\ W[k].at \in Nat
  BY <1>3 DEF WriterRecord
<1>5. \A k \in 1 .. Len(W) : W[k].offset \in 1 .. Len(c)
  BY <1>4, LenNat DEF Stack
<1> QED BY <1>2, <1>3, <1>4, <1>5

LEMMA TreeFacts ==
  ASSUME NEW c, NEW T, NEW L, Tree(c, T, L), NEW t \in T
  PROVE  /\ t \in Part /\ IsPart(c, L, t)
         /\ t.from \in Nat /\ t.to \in Nat /\ t.within \in Nat
         /\ t.within >= 1 /\ t.within + 4 <= t.from /\ t.from <= t.to /\ t.to <= Len(c) + 1
<1>1. t \in Part /\ IsPart(c, L, t)
  BY DEF Tree
<1> QED BY <1>1, PartNumbers

\* Cells that are appended change no part.
LEMMA KeptBefore ==
  ASSUME NEW c \in Cells, NEW d, NEW T, NEW L, Tree(c, T, L), \A x \in 1 .. Len(c) : d[x] = c[x]
  PROVE  \A t \in T : Kept(c, d, t)
<1>1. SUFFICES ASSUME NEW t \in T, NEW x \in t.from - 3 .. t.to - 1 PROVE d[x] = c[x]
  BY DEF Kept
<1>2. x \in 1 .. Len(c)
  BY TreeFacts, LenNat
<1> QED BY <1>2

LEMMA ChainedIn ==
  ASSUME NEW c, NEW N, NEW U, N \subseteq U, NEW K, NEW s, NEW e, Chained(c, N, K, s, e),
         \A u \in U : u \in N \/ u.within # s
  PROVE  Chained(c, U, K, s, e)
<1>1. Bounds(U, s) = Bounds(N, s)
  BY DEF Bounds
<1>2. \A x : Continues(c, N, s, x) => Continues(c, U, s, x)
  BY DEF Continues
<1> QED BY <1>1, <1>2 DEF Chained

\* An open document is none of the parts, and those that are open are distinct.
LEMMA StackApart ==
  ASSUME NEW c \in Cells, NEW W, Stack(c, W), NEW T, NEW L, Tree(c, T, L), Beside(T, W)
  PROVE  /\ \A k \in 1 .. Len(W) : W[k].at <= W[k].offset
         /\ \A t \in T, k \in 1 .. Len(W) : t.from # W[k].offset
         /\ \A j, k \in 1 .. Len(W) : j # k => W[j].offset # W[k].offset
<1>1. \A k \in 1 .. Len(W) : W[k].offset \in Nat /\ W[k].at \in Nat
  BY StackNumbers DEF WriterRecord
<1>2. Len(W) \in Nat
  BY StackNumbers
<1>3. \A k \in 1 .. Len(W) : W[k].at < W[k].offset
  <2>1. SUFFICES ASSUME NEW k \in 1 .. Len(W) PROVE W[k].at < W[k].offset
    OBVIOUS
  <2>2. CASE k = 1
    BY <2>2 DEF Stack
  <2>3. CASE k # 1
    <3>1. k \in 2 .. Len(W)
      BY <1>2, <2>3
    <3> QED BY <1>1, <3>1 DEF Stack
  <2> QED BY <2>2, <2>3
<1>4. ASSUME NEW t \in T, NEW k \in 1 .. Len(W) PROVE t.from # W[k].offset
  <2>1. t.from \in Nat /\ t.to \in Nat /\ t.from <= t.to
    BY TreeFacts
  <2>2. t.to <= W[k].at \/ t.from - 3 > W[k].offset
    BY DEF Beside
  <2> QED BY <1>1, <1>3, <2>1, <2>2
<1>5. ASSUME NEW j \in 1 .. Len(W), NEW k \in 1 .. Len(W), j < k PROVE W[j].offset # W[k].offset
  <2>1. W[j].offset < W[k].at
    BY <1>5 DEF Stack
  <2> QED BY <1>1, <1>3, <2>1
<1>6. \A j, k \in 1 .. Len(W) : j < k => W[j].offset # W[k].offset
  BY <1>5
<1>7. \A j, k \in 1 .. Len(W) : j # k => W[j].offset # W[k].offset
  BY <1>2, <1>6
<1>8. \A k \in 1 .. Len(W) : W[k].at <= W[k].offset
  BY <1>1, <1>3
<1> QED BY <1>4, <1>7, <1>8

\* A value, and the parts N that are in it.
Whole(d, K, p, N) ==
  /\ p \in Part /\ IsPart(d, K, p)
  /\ N \in SUBSET Part /\ Apart(N)
  /\ \A u \in N : IsPart(d, K, u) /\ u.within >= p.from /\ u.to < p.to
  /\ d[p.from - 3] \in {Doc, Array} => Chained(d, N, K, p.from, p.to)
  /\ \A u \in N : d[u.from - 3] \in {Doc, Array} => Chained(d, N, K, u.from, u.to)

\* It is written behind the other cells.
LEMMA ValueWritten ==
  ASSUME NEW c, NEW W, NEW V, NEW L, NEW T, Writing(c, W, V, L, T),
         NEW d \in Cells, NEW K, L \subseteq K, NEW X, Alike(W, X),
         Len(c) + 3 <= Len(d), \A x \in 1 .. Len(c) : d[x] = c[x],
         NEW p, p.from = Len(c) + 4, p.to = Len(d) + 1, p.within = W[Len(W)].offset,
         NEW N, Whole(d, K, p, N)
  PROVE  Writing(d, X, V \cup {<<p.from, p.to>>}, K, T \cup ({p} \cup N))
<1> DEFINE Q == {p} \cup N
           U == T \cup Q
           n == Len(W)
<1>1. c \in Cells /\ Tree(c, T, L) /\ Stack(c, W) /\ Leads(c, T, W) /\ Beside(T, W) /\ Noted(V, T)
  BY DEF Writing
<1>2. Len(c) \in Nat /\ Len(d) \in Nat
  BY <1>1, LenNat
<1>3. /\ n \in Nat \ {0} /\ n \in 1 .. n /\ 1 \in 1 .. n
      /\ \A k \in 1 .. n : /\ W[k].offset \in Nat /\ W[k].at \in Nat
                            /\ 1 <= W[k].offset /\ W[k].offset <= Len(c)
  BY <1>1, <1>2, StackNumbers
<1>4. \A t \in T : /\ t.from \in Nat /\ t.to \in Nat /\ t.within \in Nat
                   /\ t.within + 4 <= t.from /\ t.from <= t.to /\ t.to <= Len(c) + 1
  BY <1>1, TreeFacts
<1>5. \A u \in N : /\ u.from \in Nat /\ u.to \in Nat /\ u.within \in Nat
                   /\ u.within + 4 <= u.from /\ u.from <= u.to
                   /\ u.within > Len(c) + 1 /\ u.to < p.to
  <2>1. SUFFICES ASSUME NEW u \in N
                 PROVE  /\ u.from \in Nat /\ u.to \in Nat /\ u.within \in Nat
                        /\ u.within + 4 <= u.from /\ u.from <= u.to
                        /\ u.within > Len(c) + 1 /\ u.to < p.to
    OBVIOUS
  <2>2. u \in Part /\ IsPart(d, K, u) /\ u.within >= p.from /\ u.to < p.to
    BY DEF Whole
  <2>3. /\ u.from \in Nat /\ u.to \in Nat /\ u.within \in Nat
        /\ u.within + 4 <= u.from /\ u.from <= u.to
    BY <2>2, PartNumbers
  <2> QED BY <1>2, <2>2, <2>3
<1>6. /\ p.from \in Nat /\ p.to \in Nat /\ p.within \in Nat /\ p.within = W[n].offset
      /\ p.within <= Len(c) /\ p.to >= p.from /\ p.from > Len(c) + 1
  BY <1>2, <1>3
<1> HIDE DEF n
<1>7. \A t \in T : Kept(c, d, t)
  BY <1>1, KeptBefore
<1>8. \A t \in T, k \in 1 .. n : t.from # W[k].offset
  BY <1>1, StackApart DEF n
<1>9. Tree(d, U, K)
  <2>1. Q \in SUBSET Part /\ \A u \in Q : IsPart(d, K, u)
    BY DEF Whole
  <2>2. Apart(Q)
    <3>1. \A u \in N : u.from # p.from /\ u.within # p.within /\ p.within # u.from /\ u.to < p.to
      BY <1>2, <1>5, <1>6
    <3>2. p.within # p.from
      BY <1>2, <1>6
    <3>3. Apart(N)
      BY DEF Whole
    <3> QED BY <3>1, <3>2, <3>3 DEF Apart
  <2>3. \A t \in T, u \in Q : t.from # u.from /\ u.within # t.from /\ t.within # u.from
    <3>1. ASSUME NEW t \in T, NEW u \in N
          PROVE  t.from # u.from /\ u.within # t.from /\ t.within # u.from
      <4>1. /\ t.from \in Nat /\ t.within \in Nat
            /\ t.from <= Len(c) + 1 /\ t.within <= Len(c) + 1
        BY <1>2, <1>4, SMTT(30)
      <4>2. /\ u.from \in Nat /\ u.within \in Nat
            /\ u.within > Len(c) + 1 /\ u.from > Len(c) + 1
        BY <1>2, <1>5
      <4> QED BY <1>2, <4>1, <4>2
    <3>2. ASSUME NEW t \in T
          PROVE  t.from # p.from /\ p.within # t.from /\ t.within # p.from
      <4>1. /\ t.from \in Nat /\ t.within \in Nat
            /\ t.from <= Len(c) + 1 /\ t.within <= Len(c) + 1
        BY <1>2, <1>4, SMTT(30)
      <4>2. p.within # t.from
        BY <1>3, <1>6, <1>8
      <4> QED BY <1>2, <1>6, <4>1, <4>2
    <3> QED BY <3>1, <3>2
  <2>4. \A u \in Q : d[u.from - 3] \in {Doc, Array} => Chained(d, U, K, u.from, u.to)
    <3>1. N \subseteq U
      OBVIOUS
    <3>2. ASSUME NEW s \in Nat, s >= p.from PROVE \A u \in U : u \in N \/ u.within # s
      BY <1>2, <1>4, <1>6, <3>2, SMTT(30)
    <3> HIDE DEF U
    <3>3. ASSUME NEW u \in N, d[u.from - 3] \in {Doc, Array} PROVE Chained(d, U, K, u.from, u.to)
      <4>1. u.from \in Nat /\ u.from >= p.from
        BY <1>5, <1>6
      <4> QED BY <3>1, <3>2, <3>3, <4>1, ChainedIn DEF Whole
    <3>4. ASSUME d[p.from - 3] \in {Doc, Array} PROVE Chained(d, U, K, p.from, p.to)
      BY <1>6, <3>1, <3>2, <3>4, ChainedIn DEF Whole
    <3> QED BY <3>3, <3>4
  <2>5. Len(c) <= Len(d)
    BY <1>2
  <2> HIDE DEF Q
  <2> QED BY <1>1, <1>7, <2>1, <2>2, <2>3, <2>4, <2>5, Grown
<1>10. /\ Len(X) = n /\ X \in Seq(WriterRecord)
       /\ \A k \in 1 .. n : X[k].offset = W[k].offset /\ X[k].at = W[k].at
  BY DEF Alike, n
<1>11. Stack(d, X)
  <2>1. X # <<>>
    BY <1>3, <1>10, EmptySeq
  <2>2. X[1].offset = 1 /\ X[1].at = 0
    BY <1>1, <1>3, <1>10 DEF Stack
  <2>3. \A k \in 1 .. n : 1 <= X[k].offset /\ X[k].offset <= Len(d)
    BY <1>2, <1>3, <1>10, SMTT(30)
  <2>4. ASSUME NEW k \in 2 .. n
        PROVE  /\ X[k].offset = X[k].at + 3
               /\ d[X[k].offset - 2] # NUL /\ d[X[k].offset - 1] = NUL
    <3>1. k \in 1 .. n /\ W[k].offset = W[k].at + 3
      BY <1>1, <1>3 DEF Stack, n
    <3>2. W[k].offset - 2 \in 1 .. Len(c) /\ W[k].offset - 1 \in 1 .. Len(c)
      <4>1. W[k].offset \in Nat /\ W[k].at \in Nat /\ W[k].offset <= Len(c)
        BY <1>3, <3>1
      <4> QED BY <1>2, <3>1, <4>1, KeyRange
    <3>3. c[W[k].offset - 2] # NUL /\ c[W[k].offset - 1] = NUL
      BY <1>1 DEF Stack, n
    <3> QED BY <1>10, <3>1, <3>2, <3>3
  <2>5. \A j, k \in 1 .. n : j < k => X[j].offset < X[k].at
    BY <1>1, <1>10 DEF Stack, n
  <2> QED BY <1>10, <2>1, <2>2, <2>3, <2>4, <2>5 DEF Stack
<1>12. Leads(d, U, X)
  <2>1. SUFFICES ASSUME NEW k \in 1 .. n, NEW x \in Bounds(U, W[k].offset)
                 PROVE  Continues(d, U, W[k].offset, x) \/ x = EndOf(d, X, k)
    BY <1>10 DEF Leads
  <2>0. W[k].offset \in Nat /\ W[k].offset <= Len(c)
    BY <1>2, <1>3
  <2>2. \A u \in N : u.within # W[k].offset
    BY <1>2, <1>3, <1>5
  <2>3. k # n => p.within # W[k].offset
    <3>1. k # n => W[n].offset # W[k].offset
      BY <1>1, <1>3, StackApart DEF n
    <3> QED BY <3>1 DEF n
  <2>4. x \in Bounds(T, W[k].offset) \/ (k = n /\ x = p.to)
    BY <2>2, <2>3 DEF Bounds
  <2>5. CASE k = n /\ x = p.to
    BY <1>10, <2>5 DEF EndOf
  <2>6. CASE x \in Bounds(T, W[k].offset)
    <3>1. Continues(c, T, W[k].offset, x) \/ x = EndOf(c, W, k)
      BY <1>1, <2>6 DEF Leads, n
    <3>2. x \in Nat
      <4>1. T \in SUBSET Part /\ \A t \in T : IsPart(c, L, t)
        BY <1>1 DEF Tree
      <4>2. W[k].offset \in Nat
        BY <1>3
      <4> QED BY <2>6, <4>1, <4>2, BoundNumbers
    <3>3. CASE Continues(c, T, W[k].offset, x)
      <4>1. T \in SUBSET Part /\ (\A t \in T : IsPart(c, L, t)) /\ T \subseteq U
        BY <1>1 DEF Tree
      <4> HIDE DEF U
      <4>2. Continues(d, U, W[k].offset, x)
        BY <1>7, <3>2, <3>3, <4>1, ContinuesOn
      <4> QED BY <4>2
    <3>4. CASE x = EndOf(c, W, k) /\ k # n
      <4>1. k + 1 \in 1 .. n
        BY <1>3, <3>4
      <4> QED BY <1>10, <3>4, <4>1 DEF EndOf, n
    <3>5. CASE x = EndOf(c, W, k) /\ k = n
      <4>1. x = Len(c) + 1 /\ x + 3 = p.from /\ x = p.from - 3
        BY <1>2, <3>5 DEF EndOf, n
      <4>2. d[x] # NUL
        BY <4>1 DEF Whole, IsPart, HasKey
      <4>3. p \in U /\ p.within = W[k].offset
        BY <3>5 DEF n
      <4> QED BY <4>1, <4>2, <4>3 DEF Continues
    <3> QED BY <3>1, <3>3, <3>4, <3>5
  <2> QED BY <2>4, <2>5, <2>6
<1>13. Beside(U, X)
  <2>1. ASSUME NEW k \in 1 .. n PROVE p.from - 3 > W[k].offset
    BY <1>2, <1>3
  <2>2. ASSUME NEW k \in 1 .. n, NEW u \in N PROVE u.from - 3 > W[k].offset
    <3>1. W[k].offset \in Nat /\ W[k].offset <= Len(c)
      BY <1>2, <1>3
    <3>2. u.from \in Nat /\ u.within \in Nat /\ u.within + 4 <= u.from /\ u.within > Len(c) + 1
      BY <1>5
    <3> HIDE DEF Q, U
    <3> QED BY <1>2, <3>1, <3>2, FurtherOn
  <2>3. \A t \in T, k \in 1 .. n : t.to <= W[k].at \/ t.from - 3 > W[k].offset
    BY <1>1 DEF Beside, n
  <2> QED BY <1>10, <2>1, <2>2, <2>3 DEF Beside
<1>14. Noted(V \cup {<<p.from, p.to>>}, U)
  BY <1>1 DEF Noted
<1> HIDE DEF U
<1>15. Writing(d, X, V \cup {<<p.from, p.to>>}, K, U)
  BY <1>9, <1>11, <1>12, <1>13, <1>14 DEF Writing
<1> QED BY <1>15 DEF U

\* A document is opened behind its key.
LEMMA DocumentOpened ==
  ASSUME NEW c, NEW W, NEW V, NEW L, NEW T, Writing(c, W, V, L, T),
         NEW d \in Cells, Len(d) = Len(c) + 4, \A x \in 1 .. Len(c) : d[x] = c[x],
         d[Len(c) + 2] # NUL, d[Len(c) + 3] = NUL,
         NEW X \in Seq(WriterRecord), Len(X) = Len(W) + 1,
         \A k \in 1 .. Len(W) : X[k].offset = W[k].offset /\ X[k].at = W[k].at,
         X[Len(W) + 1].offset = Len(c) + 4, X[Len(W) + 1].at = Len(c) + 1
  PROVE  Writing(d, X, V, L, T)
<1> DEFINE n == Len(W)
<1>1. c \in Cells /\ Tree(c, T, L) /\ Stack(c, W) /\ Leads(c, T, W) /\ Beside(T, W) /\ Noted(V, T)
  BY DEF Writing
<1>2. Len(c) \in Nat /\ Len(d) \in Nat /\ Len(c) <= Len(d)
  BY <1>1, LenNat
<1>3. /\ n \in Nat \ {0} /\ n \in 1 .. n /\ 1 \in 1 .. n
      /\ \A k \in 1 .. n : /\ W[k].offset \in Nat /\ W[k].at \in Nat
                            /\ 1 <= W[k].offset /\ W[k].offset <= Len(c)
  BY <1>1, <1>2, StackNumbers
<1>4. \A t \in T : /\ t.from \in Nat /\ t.to \in Nat /\ t.within \in Nat
                   /\ t.within + 4 <= t.from /\ t.from <= t.to /\ t.to <= Len(c) + 1
  BY <1>1, TreeFacts
<1>5. \A t \in T : Kept(c, d, t)
  BY <1>1, KeptBefore
<1>6. Tree(d, T, L)
  <2>1. Tree(d, T \cup {}, L)
    <3>1. Apart({}) /\ {} \in SUBSET Part /\ L \subseteq L
      BY DEF Apart
    <3>2. /\ \A u \in {} : IsPart(d, L, u)
          /\ \A t \in T, u \in {} : /\ t.from # u.from /\ u.within # t.from
                                    /\ t.within = u.from => t.to < u.to
          /\ \A u \in {} : d[u.from - 3] \in {Doc, Array} => Chained(d, T \cup {}, L, u.from, u.to)
      OBVIOUS
    <3> QED BY <1>1, <1>2, <1>5, <3>1, <3>2, Grown
  <2>2. T \cup {} = T
    OBVIOUS
  <2> QED BY <2>1, <2>2
<1> HIDE DEF n
<1>7. /\ Len(X) = n + 1 /\ X[n + 1].offset = Len(c) + 4 /\ X[n + 1].at = Len(c) + 1
      /\ \A k \in 1 .. n : X[k].offset = W[k].offset /\ X[k].at = W[k].at
      /\ \A k \in 1 .. n + 1 : k = n + 1 \/ k \in 1 .. n
  BY <1>3 DEF n
<1>8. /\ W[1].offset = 1 /\ W[1].at = 0
      /\ \A k \in 2 .. n : /\ W[k].offset = W[k].at + 3
                           /\ c[W[k].offset - 2] # NUL /\ c[W[k].offset - 1] = NUL
      /\ \A j, k \in 1 .. n : j < k => W[j].offset < W[k].at
  BY <1>1 DEF Stack, n
<1>9. Stack(d, X)
  <2>1. X # <<>>
    BY <1>3, <1>7, EmptySeq
  <2>2. ASSUME NEW k \in 1 .. n + 1 PROVE 1 <= X[k].offset /\ X[k].offset <= Len(d)
    <3>1. CASE k = n + 1
      BY <1>2, <1>7, <3>1
    <3>2. CASE k \in 1 .. n
      <4>1. W[k].offset \in Nat /\ 1 <= W[k].offset /\ W[k].offset <= Len(c)
        BY <1>3, <3>2
      <4>2. X[k].offset = W[k].offset
        BY <1>7, <3>2
      <4> QED BY <1>2, <4>1, <4>2
    <3> QED BY <1>7, <3>1, <3>2
  <2>3. ASSUME NEW k \in 2 .. n + 1
        PROVE  /\ X[k].offset = X[k].at + 3
               /\ d[X[k].offset - 2] # NUL /\ d[X[k].offset - 1] = NUL
    <3>1. CASE k = n + 1
      <4>1. X[k].offset - 2 = Len(c) + 2 /\ X[k].offset - 1 = Len(c) + 3
        BY <1>2, <1>7, <3>1
      <4> QED BY <1>2, <1>7, <3>1, <4>1
    <3>2. CASE k # n + 1
      <4>1. k \in 2 .. n /\ k \in 1 .. n
        BY <1>3, <3>2, LastOrBefore
      <4>2. W[k].offset \in Nat /\ W[k].at \in Nat /\ W[k].offset <= Len(c)
        BY <1>3, <4>1
      <4>3. W[k].offset - 2 \in 1 .. Len(c) /\ W[k].offset - 1 \in 1 .. Len(c)
        BY <1>2, <1>8, <4>1, <4>2, KeyRange
      <4> QED BY <1>7, <1>8, <4>1, <4>3
    <3> QED BY <3>1, <3>2
  <2>4. ASSUME NEW j \in 1 .. n + 1, NEW k \in 1 .. n + 1, j < k PROVE X[j].offset < X[k].at
    <3>1. j \in 1 .. n
      BY <1>3, <2>4
    <3>2. CASE k = n + 1
      BY <1>2, <1>3, <1>7, <3>1, <3>2
    <3>3. CASE k # n + 1
      <4>1. k \in 1 .. n
        BY <1>3, <3>3
      <4> QED BY <1>7, <1>8, <2>4, <3>1, <4>1
    <3> QED BY <3>2, <3>3
  <2>5. X[1].offset = 1 /\ X[1].at = 0
    BY <1>3, <1>7, <1>8
  <2> QED BY <1>7, <2>1, <2>2, <2>3, <2>4, <2>5 DEF Stack
<1>10. Leads(d, T, X)
  <2>1. ASSUME NEW x \in Bounds(T, Len(c) + 4) PROVE x = Len(d) + 1
    <3>1. \A t \in T : t.within # Len(c) + 4
      BY <1>2, <1>4
    <3> QED BY <1>2, <2>1, <3>1 DEF Bounds
  <2>2. ASSUME NEW k \in 1 .. n, NEW x \in Bounds(T, W[k].offset)
        PROVE  Continues(d, T, W[k].offset, x) \/ x = X[k + 1].at
    <3>1. Continues(c, T, W[k].offset, x) \/ x = EndOf(c, W, k)
      BY <1>1, <2>2 DEF Leads, n
    <3>2. T \in SUBSET Part /\ (\A t \in T : IsPart(c, L, t)) /\ T \subseteq T
      BY <1>1 DEF Tree
    <3>3. x \in Nat
      <4>1. W[k].offset \in Nat
        BY <1>3
      <4> QED BY <2>2, <3>2, <4>1, BoundNumbers
    <3>4. Continues(c, T, W[k].offset, x) => Continues(d, T, W[k].offset, x)
      BY <1>5, <3>2, <3>3, ContinuesOn
    <3>5. EndOf(c, W, k) = X[k + 1].at
      <4>1. CASE k = n
        BY <1>7, <4>1 DEF EndOf, n
      <4>2. CASE k # n
        <5>1. k + 1 \in 1 .. n
          BY <1>3, <4>2
        <5> QED BY <1>7, <4>2, <5>1 DEF EndOf, n
      <4> QED BY <4>1, <4>2
    <3> QED BY <3>1, <3>4, <3>5
  <2>3. /\ \A k \in 1 .. n : EndOf(d, X, k) = X[k + 1].at
        /\ EndOf(d, X, n + 1) = Len(d) + 1
    BY <1>3, <1>7 DEF EndOf
  <2> QED BY <1>7, <2>1, <2>2, <2>3, ZenonT(60) DEF Leads
<1>11. Beside(T, X)
  <2>1. \A t \in T, k \in 1 .. n : t.to <= W[k].at \/ t.from - 3 > W[k].offset
    BY <1>1 DEF Beside, n
  <2>2. \A t \in T : t.to <= X[n + 1].at
    BY <1>4, <1>7
  <2> QED BY <1>7, <2>1, <2>2 DEF Beside
<1> QED BY <1>1, <1>6, <1>9, <1>10, <1>11 DEF Writing

\* The innermost document ends: its length and its id are filled in.
Closes(c, d, o, a) ==
  /\ d \in Cells /\ Len(d) = Len(c) + 1 /\ d[Len(c) + 1] = NUL
  /\ d[o] = Len(d) + 1 - o
  /\ a >= 1 => d[a] \in {Doc, Array}
  /\ \A x \in 1 .. Len(c) : x = o \/ x = a \/ d[x] = c[x]

LEMMA InsideRange ==
  ASSUME NEW f \in Nat, NEW t \in Nat, NEW a \in Nat, NEW o \in Nat, NEW m \in Nat,
         f >= 4, f <= t, t <= m + 1, t <= a \/ f - 3 > o, a <= o, NEW x \in f - 3 .. t - 1
  PROVE  x \in 1 .. m /\ x # o /\ x # a
  OBVIOUS

\* No part has the cells that are filled in.
LEMMA KeptOutside ==
  ASSUME NEW c \in Cells, NEW d, NEW o \in Nat, NEW a \in Nat, a <= o, Closes(c, d, o, a),
         NEW T, NEW L, Tree(c, T, L), \A t \in T : t.to <= a \/ t.from - 3 > o
  PROVE  \A t \in T : Kept(c, d, t)
<1>1. SUFFICES ASSUME NEW t \in T, NEW x \in t.from - 3 .. t.to - 1 PROVE d[x] = c[x]
  BY DEF Kept
<1>2. /\ t.from \in Nat /\ t.to \in Nat /\ t.from >= 4 /\ t.from <= t.to /\ t.to <= Len(c) + 1
      /\ t.to <= a \/ t.from - 3 > o
  BY TreeFacts
<1>3. Len(c) \in Nat
  BY LenNat
<1>4. x \in 1 .. Len(c) /\ x # o /\ x # a
  BY <1>2, <1>3, InsideRange
<1> QED BY <1>4 DEF Closes

LEMMA DocumentEnded ==
  ASSUME NEW c, NEW W, NEW V, NEW L, NEW T, Writing(c, W, V, L, T),
         NEW n \in Nat, n + 1 = Len(W), n >= 1,
         NEW d, Closes(c, d, W[n + 1].offset, W[n + 1].at),
         NEW X \in Seq(WriterRecord), Len(X) = n, \A k \in 1 .. n : X[k] = W[k],
         NEW p, p = [from |-> W[n + 1].offset, to |-> Len(d) + 1, within |-> W[n].offset]
  PROVE  Writing(d, X, V \cup {<<p.from, p.to>>}, L, T \cup {p})
<1> DEFINE U == T \cup {p}
           o == W[n + 1].offset
           a == W[n + 1].at
<1>1. c \in Cells /\ Tree(c, T, L) /\ Stack(c, W) /\ Leads(c, T, W) /\ Beside(T, W) /\ Noted(V, T)
  BY DEF Writing
<1>2. Len(c) \in Nat /\ Len(d) \in Nat /\ d \in Cells /\ Len(d) = Len(c) + 1 /\ Len(c) <= Len(d)
  BY <1>1, LenNat DEF Closes
<1>3. /\ n \in 1 .. n /\ 1 \in 1 .. n /\ n + 1 \in 2 .. n + 1 /\ n + 1 \in 1 .. n + 1
      /\ \A k \in 1 .. n : k \in 1 .. n + 1 /\ k < n + 1
      /\ \A k \in 1 .. n + 1 : /\ W[k].offset \in Nat /\ W[k].at \in Nat
                               /\ 1 <= W[k].offset /\ W[k].offset <= Len(c)
  <2>1. \A k \in 1 .. Len(W) : W[k] \in WriterRecord /\ W[k].offset \in 1 .. Len(c) /\ W[k].at \in Nat
    BY <1>1, StackNumbers
  <2>2. \A k \in 1 .. n + 1 : /\ W[k].offset \in Nat /\ W[k].at \in Nat
                               /\ 1 <= W[k].offset /\ W[k].offset <= Len(c)
    BY <1>2, <2>1
  <2> QED BY <2>2
<1>4. \A t \in T : /\ t.from \in Nat /\ t.to \in Nat /\ t.within \in Nat
                   /\ t.within + 4 <= t.from /\ t.from <= t.to /\ t.to <= Len(c) + 1
  BY <1>1, TreeFacts
<1>5. /\ W[1].offset = 1 /\ W[1].at = 0
      /\ \A k \in 2 .. n + 1 : /\ W[k].offset = W[k].at + 3
                               /\ c[W[k].offset - 2] # NUL /\ c[W[k].offset - 1] = NUL
      /\ \A j, k \in 1 .. n + 1 : j < k => W[j].offset < W[k].at
  BY <1>1 DEF Stack
<1>6. /\ o \in Nat /\ a \in Nat /\ o = a + 3 /\ o <= Len(c)
      /\ c[o - 2] # NUL /\ c[o - 1] = NUL
      /\ \A k \in 1 .. n : W[k].offset < a
  BY <1>3, <1>5
<1>7. \A t \in T : t.to <= a \/ t.from - 3 > o
  BY <1>1, <1>3 DEF Beside
<1>8. /\ \A t \in T, k \in 1 .. n + 1 : t.from # W[k].offset
      /\ \A j, k \in 1 .. n + 1 : j # k => W[j].offset # W[k].offset
  <2>1. /\ \A t \in T, k \in 1 .. Len(W) : t.from # W[k].offset
        /\ \A j, k \in 1 .. Len(W) : j # k => W[j].offset # W[k].offset
    BY <1>1, StackApart
  <2> QED BY <2>1
<1>9. p.from = o /\ p.to = Len(d) + 1 /\ p.within = W[n].offset
  OBVIOUS
<1>12. W[n].offset \in Nat /\ 1 <= W[n].offset /\ W[n].offset < a
  BY <1>3, <1>6
<1> HIDE DEF o, a
<1>10. d[a] \in {Doc, Array} /\ d[o] = Len(d) + 1 - o /\ d[Len(c) + 1] = NUL
  BY <1>6, <1>12 DEF Closes, o, a
<1>11. \A x \in 1 .. Len(c) : x = o \/ x = a \/ d[x] = c[x]
  BY DEF Closes, o, a
<1>13. \A t \in T : Kept(c, d, t)
  <2>1. Closes(c, d, o, a) /\ a <= o
    BY <1>6 DEF o, a
  <2> QED BY <1>1, <1>6, <1>7, <2>1, KeptOutside
<1>14. p \in Part /\ IsPart(d, L, p)
  <2>1. p \in Part
    BY <1>2, <1>6, <1>12 DEF Part, o
  <2>2. /\ p.within >= 1 /\ p.within + 4 <= p.from /\ p.from <= p.to /\ p.to <= Len(d) + 1
    BY <1>2, <1>6, <1>9, <1>12
  <2>3. HasKey(d, o)
    <3>1. o - 2 \in 1 .. Len(c) /\ o - 1 \in 1 .. Len(c)
      BY <1>2, <1>6, KeyRange
    <3>2. o - 3 = a /\ o - 2 # a /\ o - 2 # o /\ o - 1 # a /\ o - 1 # o
      BY <1>6
    <3>3. d[o - 2] = c[o - 2] /\ d[o - 1] = c[o - 1]
      BY <1>11, <3>1, <3>2
    <3> QED BY <1>6, <1>10, <3>2, <3>3, Ids19 DEF HasKey
  <2>4. HasValue(d, o, Len(d) + 1)
    <3>1. d[o - 3] \in {Doc, Array}
      BY <1>6, <1>10, SMTT(30)
    <3>2. /\ d[o - 3] \notin DOMAIN FixedSize /\ d[o - 3] # Null /\ d[o - 3] # Regex
          /\ d[o - 3] # Binary /\ d[o - 3] \notin {Str, JavaScript}
      BY <3>1, SMTT(30) DEF FixedSize, F64, Str, Doc, Array, Binary, ObjectId, Bool, DateTime, Null, Regex,
                  JavaScript, JavaScriptWithScope, I32, Timestamp, I64, F128
    <3>3. ValueSize(d[o - 3], d, o) = Len(d) + 1 - o
      BY <1>10, <3>1, <3>2 DEF ValueSize
    <3>4. /\ o + (Len(d) + 1 - o) - 1 <= Len(d) /\ o <= Len(d)
          /\ o + (Len(d) + 1 - o) + 0 = Len(d) + 1 /\ o < Len(d) + 1
      BY <1>2, <1>6
    <3>5. Readable(d[o - 3], d, o)
      BY <3>1, <3>2, <3>3, <3>4 DEF Readable
    <3> QED BY <3>2, <3>3, <3>4, <3>5 DEF HasValue, ValueEnd
  <2>5. d[o - 3] # Regex
    <3>1. d[o - 3] \in {Doc, Array}
      BY <1>6, <1>10, SMTT(30)
    <3> QED BY <3>1, Ids19
  <2> QED BY <1>9, <2>1, <2>2, <2>3, <2>4, <2>5 DEF IsPart
<1>15. T \in SUBSET Part /\ (\A t \in T : IsPart(c, L, t)) /\ T \subseteq U
  BY <1>1 DEF Tree
<1>16. ASSUME NEW s \in Nat, NEW x \in Bounds(T, s), Continues(c, T, s, x)
       PROVE  Continues(d, U, s, x) /\ x \in Nat /\ x <= Len(c)
  <2> HIDE DEF U
  <2>1. x \in Nat
    BY <1>15, BoundNumbers
  <2>2. Continues(d, U, s, x)
    BY <1>13, <1>15, <1>16, <2>1, ContinuesOn
  <2>3. PICK t \in T : t.from = x + 3
    BY <1>16 DEF Continues
  <2>4. x <= Len(c)
    BY <1>2, <1>4, <2>1, <2>3
  <2> QED BY <2>1, <2>2, <2>4
<1>17. Chained(d, U, L, o, Len(d) + 1)
  <2>1. Bounds(U, o) = Bounds(T, o)
    <3>1. p.within # o
      BY <1>6, <1>9, <1>12
    <3> QED BY <3>1 DEF Bounds
  <2>2. SUFFICES ASSUME NEW x \in Bounds(T, o)
                 PROVE  /\ x < Len(d) + 1
                        /\ Continues(d, U, o, x) \/ (d[x] = NUL /\ x = (Len(d) + 1) - 1)
    BY <2>1 DEF Chained
  <2>3. Continues(c, T, o, x) \/ x = EndOf(c, W, n + 1)
    BY <1>1, <1>3 DEF Leads, o
  <2>4. EndOf(c, W, n + 1) = Len(c) + 1
    BY DEF EndOf
  <2>5. CASE x = Len(c) + 1
    BY <1>2, <1>10, <2>5
  <2>6. CASE Continues(c, T, o, x)
    <3>1. Continues(d, U, o, x) /\ x \in Nat /\ x <= Len(c)
      BY <1>6, <1>16, <2>6
    <3> QED BY <1>2, <3>1
  <2> QED BY <2>3, <2>4, <2>5, <2>6
<1>18. Tree(d, U, L)
  <2>1. /\ {p} \in SUBSET Part /\ (\A u \in {p} : IsPart(d, L, u)) /\ L \subseteq L
    BY <1>14
  <2>2. Apart({p})
    BY <1>6, <1>9, <1>12 DEF Apart
  <2>3. \A t \in T, u \in {p} : /\ t.from # u.from /\ u.within # t.from
                                /\ t.within = u.from => t.to < u.to
    BY <1>2, <1>3, <1>4, <1>8, <1>9 DEF o
  <2>4. \A u \in {p} : d[u.from - 3] \in {Doc, Array} => Chained(d, U, L, u.from, u.to)
    BY <1>9, <1>17
  <2> QED BY <1>1, <1>2, <1>13, <2>1, <2>2, <2>3, <2>4, Grown
<1>19. Stack(d, X)
  <2>1. X # <<>>
    BY EmptySeq
  <2>2. \A k \in 1 .. n : 1 <= X[k].offset /\ X[k].offset <= Len(d)
    BY <1>2, <1>3
  <2>3. ASSUME NEW k \in 2 .. n
        PROVE  /\ X[k].offset = X[k].at + 3
               /\ d[X[k].offset - 2] # NUL /\ d[X[k].offset - 1] = NUL
    <3>1. k \in 2 .. n + 1 /\ k \in 1 .. n
      OBVIOUS
    <3>2. W[k].offset \in Nat /\ W[k].at \in Nat /\ W[k].offset <= Len(c) /\ W[k].offset < a
      BY <1>3, <1>6, <3>1
    <3>3. W[k].offset - 2 \in 1 .. Len(c) /\ W[k].offset - 1 \in 1 .. Len(c)
      BY <1>2, <1>5, <3>1, <3>2, KeyRange
    <3>4. /\ W[k].offset - 2 # a /\ W[k].offset - 2 # o
          /\ W[k].offset - 1 # a /\ W[k].offset - 1 # o
      <4> HIDE DEF U
      <4> QED BY <1>6, <3>2, SMTT(30)
    <3>5. /\ d[W[k].offset - 2] = c[W[k].offset - 2] /\ d[W[k].offset - 1] = c[W[k].offset - 1]
      BY <1>11, <3>3, <3>4
    <3> QED BY <1>5, <3>1, <3>5
  <2>4. \A j, k \in 1 .. n : j < k => X[j].offset < X[k].at
    BY <1>3, <1>5
  <2>5. X[1].offset = 1 /\ X[1].at = 0
    BY <1>3, <1>5
  <2> QED BY <2>1, <2>2, <2>3, <2>4, <2>5 DEF Stack
<1>20. Leads(d, U, X)
  <2>1. SUFFICES ASSUME NEW k \in 1 .. n, NEW x \in Bounds(U, W[k].offset)
                 PROVE  Continues(d, U, W[k].offset, x) \/ x = EndOf(d, X, k)
    BY DEF Leads
  <2>2. k # n => p.within # W[k].offset
    BY <1>3, <1>8, <1>9
  <2>3. x \in Bounds(T, W[k].offset) \/ (k = n /\ x = p.to)
    BY <2>2 DEF Bounds
  <2>4. CASE k = n /\ x = p.to
    BY <1>9, <2>4 DEF EndOf
  <2>5. CASE x \in Bounds(T, W[k].offset)
    <3>1. Continues(c, T, W[k].offset, x) \/ x = EndOf(c, W, k)
      BY <1>1, <1>3, <2>5 DEF Leads
    <3>2. W[k].offset \in Nat
      BY <1>3
    <3>3. CASE Continues(c, T, W[k].offset, x)
      BY <1>16, <2>5, <3>2, <3>3
    <3>4. CASE x = EndOf(c, W, k) /\ k # n
      <4>1. k + 1 \in 1 .. n
        BY <3>4
      <4> QED BY <1>3, <3>4, <4>1 DEF EndOf
    <3>5. CASE x = EndOf(c, W, k) /\ k = n
      <4>1. x = a
        BY <3>5 DEF EndOf, a
      <4>2. d[x] # NUL /\ p.from = x + 3
        BY <1>6, <1>9, <1>10, <4>1, Ids19
      <4>3. p \in U /\ p.within = W[k].offset
        BY <1>9, <3>5
      <4> QED BY <4>2, <4>3 DEF Continues
    <3> QED BY <3>1, <3>3, <3>4, <3>5
  <2> QED BY <2>3, <2>4, <2>5
<1>21. Beside(U, X)
  <2>1. \A k \in 1 .. n : p.from - 3 > W[k].offset
    <3>1. p.from - 3 = a
      <4>1. (a + 3) - 3 = a
        BY <1>6
      <4> QED BY <1>6, <1>9, <4>1
    <3> QED BY <1>6, <3>1
  <2>2. \A t \in T, k \in 1 .. n : t.to <= W[k].at \/ t.from - 3 > W[k].offset
    BY <1>1, <1>3 DEF Beside
  <2> QED BY <2>1, <2>2 DEF Beside
<1>22. Noted(V \cup {<<p.from, p.to>>}, U)
  BY <1>1 DEF Noted
<1> QED BY <1>2, <1>18, <1>19, <1>20, <1>21, <1>22 DEF Writing

\* What was written when the outermost document has ended.
Complete(c, V, L, T) ==
  /\ c \in Cells /\ Len(c) >= 2 /\ c[1] = Len(c)
  /\ Tree(c, T, L) /\ Chained(c, T, L, 1, Len(c) + 1)
  /\ \A v \in V : v = <<1, Len(c) + 1>> \/ \E t \in T : v = <<t.from, t.to>>

LEMMA LastEnded ==
  ASSUME NEW c, NEW W, NEW V, NEW L, NEW T, Writing(c, W, V, L, T), Len(W) = 1,
         NEW d, Closes(c, d, 1, 0)
  PROVE  Complete(d, V \cup {<<1, Len(d) + 1>>}, L, T)
<1>1. c \in Cells /\ Tree(c, T, L) /\ Stack(c, W) /\ Leads(c, T, W) /\ Noted(V, T)
  BY DEF Writing
<1>2. /\ Len(c) \in Nat /\ Len(d) \in Nat /\ d \in Cells /\ Len(d) = Len(c) + 1
      /\ Len(c) <= Len(d) /\ d[1] = Len(d) /\ d[Len(c) + 1] = NUL
  <2>1. Len(c) \in Nat /\ d \in Cells /\ Len(d) = Len(c) + 1
    BY <1>1, LenNat DEF Closes
  <2> QED BY <2>1 DEF Closes
<1>3. W[1].offset = 1 /\ Len(c) >= 1
  BY <1>1, StackNumbers, <1>2 DEF Stack
<1>4. \A t \in T : /\ t.from \in Nat /\ t.to \in Nat /\ t.within \in Nat
                   /\ t.within >= 1 /\ t.within + 4 <= t.from /\ t.from <= t.to /\ t.to <= Len(c) + 1
  BY <1>1, TreeFacts
<1>5. \A t \in T : t.from - 3 > 1
  BY <1>4
<1>6. \A t \in T : Kept(c, d, t)
  <2>1. \A t \in T : t.to <= 0 \/ t.from - 3 > 1
    BY <1>5
  <2>2. 0 \in Nat /\ 1 \in Nat /\ 0 <= 1
    OBVIOUS
  <2> QED BY <1>1, <2>1, <2>2, KeptOutside
<1>7. T \in SUBSET Part /\ (\A t \in T : IsPart(c, L, t)) /\ T \subseteq T
  BY <1>1 DEF Tree
<1>8. Chained(d, T, L, 1, Len(d) + 1)
  <2>1. SUFFICES ASSUME NEW x \in Bounds(T, 1)
                 PROVE  /\ x < Len(d) + 1
                        /\ Continues(d, T, 1, x) \/ (d[x] = NUL /\ x = (Len(d) + 1) - 1)
    BY DEF Chained
  <2>2. Continues(c, T, 1, x) \/ x = EndOf(c, W, 1)
    BY <1>1, <1>3 DEF Leads
  <2>3. EndOf(c, W, 1) = Len(c) + 1
    BY DEF EndOf
  <2>4. CASE x = Len(c) + 1
    BY <1>2, <2>4
  <2>5. CASE Continues(c, T, 1, x)
    <3>1. 1 \in Nat
      OBVIOUS
    <3>2. x \in Nat
      BY <1>7, <3>1, BoundNumbers
    <3>3. Continues(d, T, 1, x)
      BY <1>6, <1>7, <2>5, <3>2, ContinuesOn
    <3>4. PICK t \in T : t.from = x + 3
      BY <2>5 DEF Continues
    <3>5. x < Len(d) + 1
      BY <1>2, <1>4, <3>2, <3>4
    <3> QED BY <3>3, <3>5
  <2> QED BY <2>2, <2>3, <2>4, <2>5
<1>9. Tree(d, T, L)
  <2>1. Tree(d, T \cup {}, L)
    <3>1. Apart({}) /\ {} \in SUBSET Part /\ L \subseteq L
      BY DEF Apart
    <3>2. /\ \A u \in {} : IsPart(d, L, u)
          /\ \A t \in T, u \in {} : /\ t.from # u.from /\ u.within # t.from
                                    /\ t.within = u.from => t.to < u.to
          /\ \A u \in {} : d[u.from - 3] \in {Doc, Array} => Chained(d, T \cup {}, L, u.from, u.to)
      OBVIOUS
    <3> QED BY <1>1, <1>2, <1>6, <3>1, <3>2, Grown
  <2>2. T \cup {} = T
    OBVIOUS
  <2> QED BY <2>1, <2>2
<1>10. \A v \in V \cup {<<1, Len(d) + 1>>} :
         v = <<1, Len(d) + 1>> \/ \E t \in T : v = <<t.from, t.to>>
  BY <1>1 DEF Noted
<1>11. Len(d) >= 2
  BY <1>2, <1>3
<1> QED BY <1>2, <1>8, <1>9, <1>10, <1>11 DEF Complete

-----------------------------------------------------------------------------
(* Lengths *)

\* From any place in a document the iterator comes to the terminator of it, if what
\* is written is what is read.
LEMMA ContainerIterates ==
  ASSUME NEW c \in Cells, NEW T, Tree(c, T, {}), NEW s \in Nat, s >= 1,
         NEW e \in Nat, e <= Len(c) + 1, Chained(c, T, {}, s, e)
  PROVE  /\ Iterate(c, s + 1).ok
         /\ Iterate(c, s + 1).stop = e - 1
<1> DEFINE Fine(x) == Iterate(c, x).ok /\ Iterate(c, x).stop = e - 1
           U == {k \in Nat : \A x \in Bounds(T, s) : e - x <= k => Fine(x)}
<1>1. Len(c) \in Nat
  BY LenNat
<1>2. T \in SUBSET Part /\ \A t \in T : IsPart(c, {}, t)
  BY DEF Tree
<1>3. \A x \in Bounds(T, s) : x \in Nat /\ x >= s + 1 /\ x < e
  BY <1>2, BoundNumbers DEF Chained
<1>4. \A x \in Bounds(T, s) : Continues(c, T, s, x) \/ (c[x] = NUL /\ x = e - 1)
  BY DEF Chained
<1>5. 0 \in U
  <2> HIDE DEF Fine
  <2>1. \A x \in Bounds(T, s) : ~(e - x <= 0)
    BY <1>3
  <2> QED BY <2>1
<1>6. ASSUME NEW k \in U, NEW x \in Bounds(T, s), e - x <= k + 1 PROVE Fine(x)
  <2>1. x \in 1 .. Len(c) /\ x \in 1 .. Len(c) + 1 /\ x \in Nat
    BY <1>1, <1>3
  <2>2. CASE c[x] = NUL /\ x = e - 1
    <3>1. c[x] = NUL
      BY <2>2
    <3>2. Iterate(c, x) = [ok |-> TRUE, elements |-> <<>>, stop |-> x]
      BY <2>1, <3>1, IterateUnfolds
    <3> QED BY <2>2, <3>2
  <2>3. CASE Continues(c, T, s, x)
    <3>1. c[x] # NUL
      BY <2>3 DEF Continues
    <3>2. PICK t \in T : t.from = x + 3 /\ t.within = s
      BY <2>3 DEF Continues
    <3> DEFINE size == ValueSize(c[x], c, x + 3)
    <3>3. /\ t.to \in Nat /\ t.to <= Len(c) + 1 /\ x + 3 <= t.to
      BY <3>2, TreeFacts
    <3>4. HasKey(c, x + 3) /\ HasValue(c, x + 3, t.to)
      BY <3>2, <1>2 DEF IsPart
    <3>5. c[(x + 3) - 2] # NUL /\ c[(x + 3) - 1] = NUL
      BY <3>4 DEF HasKey
    <3>6. (x + 3) - 3 = x /\ (x + 3) - 2 = x + 1 /\ (x + 3) - 1 = x + 2
      BY <2>1
    <3>7. Readable(c[x], c, x + 3) /\ t.to = x + 3 + size + (IF c[x] = Regex THEN 1 ELSE 0)
      BY <3>4, <3>6 DEF HasValue, ValueEnd
    <3>8. NulFrom(c, x + 1) = x + 2
      <4>1. x + 1 \in Nat \ {0} /\ (x + 1) + 1 <= Len(c) /\ (x + 1) + 1 = x + 2
        BY <1>1, <2>1, <3>3
      <4> QED BY <3>5, <3>6, <4>1, NulAfterKey
    <3>9. Good(c, x)
      BY <3>7, <3>8 DEF Good
    <3>10. Iterate(c, x) = Walked(c, x, Iterate(c, After(c, x)))
      BY <2>1, <3>1, <3>9, IterateUnfolds
    <3>11. After(c, x) = x + 3 + size
      BY DEF After
    <3>12. t.to \in Bounds(T, s)
      BY <3>2 DEF Bounds
    <3>13. t.to < e /\ size \in Nat
      BY <1>3, <2>1, <3>7, <3>12, SizeFacts
    <3> HIDE DEF size
    <3>14. /\ Iterate(c, After(c, x)).ok
           /\ Iterate(c, After(c, x)).stop = e - 1
      <4>1. c[x] # Regex
        BY <3>2, <3>6, <1>2 DEF IsPart
      <4>2. After(c, x) = t.to
        BY <3>7, <3>11, <3>13, <4>1, <2>1
      <4>3. e - t.to <= k
        BY <1>6, <2>1, <3>3, <3>13
      <4>4. Fine(t.to)
        BY <3>12, <4>3
      <4> QED BY <4>2, <4>4
    <3>15. After(c, x) \in 1 .. Len(c) + 1
      BY <2>1, <3>9, GoodFacts
    <3>16. Iterate(c, After(c, x)) \in [ok : BOOLEAN, elements : Seq(ElementRecord), stop : Nat]
      BY <3>15, IterateFacts
    <3>17. /\ Iterate(c, x).ok = Iterate(c, After(c, x)).ok
           /\ Iterate(c, x).stop = Iterate(c, After(c, x)).stop
      BY <3>10, <3>16 DEF Walked
    <3> QED BY <3>14, <3>17
  <2> QED BY <1>4, <2>2, <2>3
<1>7. \A k \in U : k + 1 \in U
  <2> HIDE DEF Fine
  <2> QED BY <1>6
<1>8. U = Nat
  <2> HIDE DEF Fine
  <2>1. U \in SUBSET Nat
    OBVIOUS
  <2> HIDE DEF U
  <2> QED BY <1>5, <1>7, <2>1, Induction
<1>9. s + 1 \in Bounds(T, s)
  BY DEF Bounds
<1>10. Fine(s + 1)
  <2> HIDE DEF Fine
  <2>1. \A x \in Bounds(T, s) : e - x <= e => Fine(x)
    BY <1>8
  <2>2. e - (s + 1) <= e
    OBVIOUS
  <2> QED BY <1>9, <2>1, <2>2
<1> QED BY <1>10

\* A document among the values has the length it claims, and can be read alone.
LEMMA ValueSpans ==
  ASSUME NEW c, NEW V, NEW L, NEW T, Complete(c, V, L, T),
         NEW v \in V, v[1] = 1 \/ c[v[1] - 3] \in {Doc, Array}
  PROVE  /\ c[v[1]] = v[2] - v[1]
         /\ L = {} => LET read == Iterate(SubSeq(c, v[1], v[2] - 1), 2)
                     IN  read.ok /\ read.stop = v[2] - v[1]
<1> DEFINE s == v[1]
           e == v[2]
<1>1. c \in Cells /\ Len(c) >= 2 /\ c[1] = Len(c) /\ Tree(c, T, L) /\ Chained(c, T, L, 1, Len(c) + 1)
  BY DEF Complete
<1>2. Len(c) \in Nat
  BY <1>1, LenNat
<1>3. /\ s \in Nat /\ e \in Nat /\ s >= 1 /\ e <= Len(c) + 1
      /\ c[s] = e - s /\ Chained(c, T, L, s, e)
  <2>1. CASE v = <<1, Len(c) + 1>>
    BY <1>1, <1>2, <2>1
  <2>2. ASSUME NEW t \in T, v = <<t.from, t.to>>
        PROVE  /\ s \in Nat /\ e \in Nat /\ s >= 1 /\ e <= Len(c) + 1
               /\ c[s] = e - s /\ Chained(c, T, L, s, e)
    <3>1. s = t.from /\ e = t.to
      BY <2>2
    <3>2. /\ IsPart(c, L, t)
          /\ t.from \in Nat /\ t.to \in Nat /\ t.from >= 5 /\ t.from <= t.to /\ t.to <= Len(c) + 1
      BY <1>1, TreeFacts
    <3>3. c[t.from - 3] \in {Doc, Array}
      BY <3>1, <3>2
    <3>4. Chained(c, T, L, t.from, t.to)
      BY <1>1, <3>3 DEF Tree
    <3>5. c[t.from] = t.to - t.from
      <4>1. HasValue(c, t.from, t.to)
        BY <3>2, <3>3, Ids19 DEF IsPart
      <4>2. /\ c[t.from - 3] \notin DOMAIN FixedSize /\ c[t.from - 3] # Regex
            /\ c[t.from - 3] # Binary /\ c[t.from - 3] \notin {Str, JavaScript}
        BY <3>3 DEF FixedSize, F64, Str, Doc, Array, Binary, ObjectId, Bool, DateTime, Null, Regex,
                    JavaScript, JavaScriptWithScope, I32, Timestamp, I64, F128
      <4>3. ValueSize(c[t.from - 3], c, t.from) = c[t.from]
        BY <3>3, <4>2 DEF ValueSize
      <4>4. t.to = t.from + c[t.from] + 0
        BY <4>1, <4>2, <4>3 DEF HasValue, ValueEnd
      <4>5. c[t.from] \in Nat
        <5>1. t.from \in 1 .. Len(c)
          BY <1>2, <3>2, <3>4 DEF Chained, Bounds
        <5> QED BY <1>1, <5>1 DEF Cells
      <4> QED BY <3>2, <4>4, <4>5
    <3> QED BY <3>1, <3>2, <3>4, <3>5
  <2> QED BY <2>1, <2>2 DEF Complete
<1> HIDE DEF s, e
<1>4. ASSUME L = {}
      PROVE  /\ Iterate(SubSeq(c, s, e - 1), 2).ok
             /\ Iterate(SubSeq(c, s, e - 1), 2).stop = e - s
  <2> DEFINE q == Iterate(c, s + 1).stop
             d == SubSeq(c, s, e - 1)
  <2>1. Iterate(c, s + 1).ok /\ q = e - 1 /\ q \in s + 1 .. e - 1
    <3>1. Iterate(c, s + 1).ok /\ q = e - 1
      BY <1>1, <1>3, <1>4, ContainerIterates
    <3>2. s + 1 <= e - 1
      <4>1. s + 1 \in Bounds(T, s)
        BY DEF Bounds
      <4>2. s + 1 < e
        BY <1>3, <4>1 DEF Chained
      <4> QED BY <1>3, <4>2
    <3> QED BY <1>3, <3>1, <3>2
  <2> HIDE DEF q
  <2>2. q \in Nat /\ s + 1 \in 1 .. Len(c) /\ q <= Len(c) /\ s <= e - 1 /\ e - 1 <= Len(c)
    BY <1>2, <1>3, <2>1
  <2>3. /\ d \in Cells /\ Len(d) = e - s
        /\ \A x \in 1 .. e - s : d[x] = c[s + x - 1]
    <3>1. \A x \in s .. e - 1 : c[x] \in Nat
      BY <1>1, <1>2, <1>3, <2>2, SMTT(30) DEF Cells
    <3>2. e - 1 \in Nat /\ s \in Nat \ {0}
      BY <1>3, <2>2
    <3>3. /\ d \in Seq(Nat)
          /\ Len(d) = IF s <= e - 1 THEN (e - 1) - s + 1 ELSE 0
          /\ \A x \in 1 .. (e - 1) - s + 1 : d[x] = c[s + x - 1]
      BY <3>1, <3>2, SubSeqProperties
    <3>4. (e - 1) - s + 1 = e - s
      BY <1>3
    <3> QED BY <2>2, <3>3, <3>4 DEF Cells
  <2> HIDE DEF d
  <2>4. Same(c, s + 1, q, d, 2)
    <3>1. \A x \in s + 1 .. q : 2 + (x - (s + 1)) \in 1 .. e - s /\ s + (2 + (x - (s + 1))) - 1 = x
      BY <1>3, <2>1, <2>2
    <3>2. 2 + (q - (s + 1)) <= e - s
      BY <1>3, <2>1, <2>2
    <3> QED BY <2>2, <2>3, <3>1, <3>2 DEF Same
  <2>5. Iterate(d, 2) = [Iterate(c, s + 1) EXCEPT !.stop = 2 + (@ - (s + 1))]
    <3>1. 2 \in Nat \ {0} /\ c \in Cells /\ d \in Cells /\ s + 1 \in 1 .. Len(c)
      BY <1>1, <2>2, <2>3
    <3>2. Iterate(c, s + 1).ok /\ Same(c, s + 1, Iterate(c, s + 1).stop, d, 2)
      BY <2>1, <2>4 DEF q
    <3> QED BY <3>1, <3>2, IterateShift
  <2>6. Iterate(c, s + 1) \in [ok : BOOLEAN, elements : Seq(ElementRecord), stop : Nat]
    <3>1. s + 1 \in 1 .. Len(c) + 1
      BY <1>2, <2>2
    <3> QED BY <1>1, <3>1, IterateFacts
  <2>7. Iterate(c, s + 1).stop = e - 1
    BY <2>1 DEF q
  <2>8. 2 + ((e - 1) - (s + 1)) = e - s
    BY <1>3
  <2> QED BY <2>1, <2>5, <2>6, <2>7, <2>8 DEF d
<1> QED BY <1>3, <1>4 DEF s, e

-----------------------------------------------------------------------------
(***************************************************************************)
(* The reader.  Its visits go from the outermost document to one within    *)
(* another; it stands where an element or the terminator of the innermost  *)
(* one may stand, or at a value of it whose id it has read.                *)
(***************************************************************************)
LEMMA CodecIds ==
  /\ Codec!F64 = F64 /\ Codec!Str = Str /\ Codec!Binary = Binary /\ Codec!ObjectId = ObjectId
  /\ Codec!Bool = Bool /\ Codec!DateTime = DateTime /\ Codec!Null = Null
  /\ Codec!JavaScript = JavaScript /\ Codec!JavaScriptWithScope = JavaScriptWithScope
  /\ Codec!I32 = I32 /\ Codec!Timestamp = Timestamp
  /\ Codec!I64 = I64 /\ Codec!FixedSize = FixedSize
  BY DEF Codec!F64, Codec!Str, Codec!Doc, Codec!Array, Codec!Binary, Codec!ObjectId,
         Codec!Bool, Codec!DateTime, Codec!Null, Codec!Regex, Codec!JavaScript,
         Codec!JavaScriptWithScope, Codec!I32, Codec!Timestamp, Codec!I64, Codec!F128, Codec!FixedSize,
         F64, Str, Doc, Array, Binary, ObjectId, Bool, DateTime, Null, Regex, JavaScript,
         JavaScriptWithScope, I32, Timestamp, I64, F128, FixedSize

ReaderRecord == [from : Nat, ask : {"map", "tuple", "enum"}]

TopReader == readers[Len(readers)].from

OnPath(T) ==
  /\ readers \in Seq(ReaderRecord)
  /\ readers # <<>> => readers[1].from = 1
  /\ \A k \in 2 .. Len(readers) : \E t \in T :
       /\ t.from = readers[k].from /\ t.within = readers[k - 1].from
       /\ out[t.from - 3] \in {Doc, Array}

AtPlace(T) ==
  /\ readers = <<>> => next = 0
  /\ readers # <<>> /\ next = 0 => pos \in Bounds(T, TopReader)
  /\ readers # <<>> /\ next # 0 =>
       \E t \in T : t.from = pos /\ t.within = TopReader /\ next = out[pos - 3]

WasRead(T) ==
  last = <<0, 0>> \/ last = <<1, Len(out) + 1>> \/ \E t \in T : last = <<t.from, t.to>>

Reading(T) ==
  /\ slipped \/ WasRead(T)
  /\ slipped \/ failed \/ (OnPath(T) /\ AtPlace(T))

LEMMA OneBefore ==
  ASSUME NEW n \in Nat \ {0}, NEW k \in 2 .. n
  PROVE  k - 1 \in 1 .. n
  OBVIOUS

LEMMA SecondOrLater ==
  ASSUME NEW n \in Nat \ {0}, n # 1
  PROVE  n \in 2 .. n
  OBVIOUS

\* The document that is being visited, and where the visit before goes on.
LEMMA Visited ==
  ASSUME NEW T, Complete(out, values, loose, T), OnPath(T), readers # <<>>
  PROVE  /\ TopReader \in Nat /\ Len(readers) \in Nat \ {0}
         /\ \E e \in Nat :
              /\ Chained(out, T, loose, TopReader, e)
              /\ \/ <<TopReader, e>> = <<1, Len(out) + 1>>
                 \/ \E t \in T : <<TopReader, e>> = <<t.from, t.to>>
              /\ Len(readers) > 1 => e \in Bounds(T, readers[Len(readers) - 1].from)
<1>1. readers \in Seq(ReaderRecord) /\ Len(readers) \in Nat \ {0}
  BY EmptySeq DEF OnPath
<1>2. out \in Cells /\ Tree(out, T, loose) /\ Chained(out, T, loose, 1, Len(out) + 1)
  BY DEF Complete
<1>3. CASE Len(readers) = 1
  <2>1. TopReader = 1 /\ Len(out) + 1 \in Nat
    BY <1>2, <1>3, LenNat DEF OnPath, TopReader
  <2> QED BY <1>1, <1>2, <1>3, <2>1
<1>4. CASE Len(readers) # 1
  <2>1. Len(readers) \in 2 .. Len(readers)
    BY <1>1, <1>4, SecondOrLater
  <2>2. PICK t \in T : /\ t.from = TopReader /\ t.within = readers[Len(readers) - 1].from
                       /\ out[t.from - 3] \in {Doc, Array}
    BY <2>1 DEF OnPath, TopReader
  <2>3. t.from \in Nat /\ t.to \in Nat
    BY <1>2, TreeFacts
  <2>4. Chained(out, T, loose, t.from, t.to)
    BY <1>2, <2>2 DEF Tree
  <2>5. t.to \in Bounds(T, readers[Len(readers) - 1].from)
    BY <2>2 DEF Bounds
  <2> QED BY <1>1, <2>2, <2>3, <2>4, <2>5
<1> QED BY <1>3, <1>4

\* The visit of a document begins.
LEMMA Entered ==
  ASSUME NEW T, Complete(out, values, loose, T), OnPath(T), readers # <<>>,
         NEW t \in T, t.within = TopReader, out[t.from - 3] \in {Doc, Array},
         NEW ask \in {"map", "tuple", "enum"},
         readers' = Append(readers, [from |-> t.from, ask |-> ask]), out' = out
  PROVE  OnPath(T)' /\ readers' # <<>> /\ TopReader' = t.from
<1>1. t.from \in Nat
  BY TreeFacts DEF Complete
<1> DEFINE n == Len(readers)
           r == [from |-> t.from, ask |-> ask]
<1>2. readers \in Seq(ReaderRecord) /\ n \in Nat \ {0}
  BY EmptySeq DEF OnPath
<1>3. r \in ReaderRecord
  BY <1>1 DEF ReaderRecord
<1> HIDE DEF r
<1>4. /\ Append(readers, r) \in Seq(ReaderRecord) /\ Len(Append(readers, r)) = n + 1
      /\ \A i \in 1 .. n : Append(readers, r)[i] = readers[i]
      /\ Append(readers, r)[n + 1] = r
  BY <1>2, <1>3
<1>5. /\ readers' \in Seq(ReaderRecord) /\ Len(readers') = n + 1
      /\ \A i \in 1 .. n : readers'[i] = readers[i]
      /\ readers'[n + 1] = r
  BY <1>4 DEF r
<1> HIDE DEF n
<1>6. readers' # <<>>
  BY <1>2, <1>5, EmptySeq
<1>7. readers'[1].from = 1
  BY <1>2, <1>5 DEF OnPath, n
<1>8. r.from = t.from
  BY DEF r
<1>9. ASSUME NEW k \in 2 .. n + 1
      PROVE  \E u \in T : /\ u.from = readers'[k].from /\ u.within = readers'[k - 1].from
                          /\ out'[u.from - 3] \in {Doc, Array}
  <2>1. CASE k = n + 1
    <3>1. readers'[k - 1].from = TopReader
      BY <1>2, <1>5, <2>1 DEF TopReader, n
    <3> QED BY <1>5, <1>8, <2>1, <3>1
  <2>2. CASE k # n + 1
    <3>1. k \in 2 .. n /\ k \in 1 .. n
      BY <1>2, <2>2, LastOrBefore
    <3>2. k - 1 \in 1 .. n
      BY <1>2, <3>1, OneBefore
    <3>3. PICK u \in T : /\ u.from = readers[k].from /\ u.within = readers[k - 1].from
                         /\ out[u.from - 3] \in {Doc, Array}
      BY <3>1 DEF OnPath, n
    <3> QED BY <1>5, <3>1, <3>2, <3>3
  <2> QED BY <2>1, <2>2
<1>10. TopReader' = t.from
  BY <1>5, <1>8 DEF TopReader
<1> QED BY <1>5, <1>6, <1>7, <1>9, <1>10 DEF OnPath

\* The visit of a document ends.
LEMMA Left ==
  ASSUME NEW T, OnPath(T), readers # <<>>, readers' = Codec!Pop(readers), out' = out
  PROVE  /\ OnPath(T)'
         /\ readers' # <<>> => /\ Len(readers) > 1
                               /\ TopReader' = readers[Len(readers) - 1].from
<1> DEFINE n == Len(readers)
<1>1. readers \in Seq(ReaderRecord) /\ n \in Nat \ {0}
  BY EmptySeq DEF OnPath
<1>2. \A i \in 1 .. n : readers[i] \in ReaderRecord
  BY <1>1, ElementOfSeq
<1>3. PICK m \in Nat : m = n - 1
  BY <1>1
<1>4. /\ SubSeq(readers, 1, m) \in Seq(ReaderRecord)
      /\ Len(SubSeq(readers, 1, m)) = IF 1 <= m THEN m - 1 + 1 ELSE 0
      /\ \A i \in 1 .. m - 1 + 1 : SubSeq(readers, 1, m)[i] = readers[1 + i - 1]
  <2>1. \A i \in 1 .. m : readers[i] \in ReaderRecord
    BY <1>1, <1>2, <1>3
  <2> QED BY <2>1, SubSeqProperties
<1>5. /\ readers' \in Seq(ReaderRecord) /\ Len(readers') = m
      /\ \A i \in 1 .. m : readers'[i] = readers[i]
  BY <1>3, <1>4 DEF Codec!Pop
<1> HIDE DEF n
<1>6. \A k \in 2 .. m : k \in 2 .. n /\ k - 1 \in 1 .. m /\ k \in 1 .. m
  BY <1>1, <1>3
<1>7. \A k \in 2 .. m : \E t \in T :
        /\ t.from = readers'[k].from /\ t.within = readers'[k - 1].from
        /\ out'[t.from - 3] \in {Doc, Array}
  <2>1. SUFFICES ASSUME NEW k \in 2 .. m
                 PROVE  \E t \in T :
                          /\ t.from = readers'[k].from /\ t.within = readers'[k - 1].from
                          /\ out'[t.from - 3] \in {Doc, Array}
    OBVIOUS
  <2>2. PICK t \in T : /\ t.from = readers[k].from /\ t.within = readers[k - 1].from
                       /\ out[t.from - 3] \in {Doc, Array}
    BY <1>6 DEF OnPath, n
  <2> QED BY <1>5, <1>6, <2>2
<1>8. ASSUME readers' # <<>>
      PROVE  /\ m >= 1 /\ readers'[1].from = 1
             /\ n > 1 /\ TopReader' = readers[n - 1].from
  <2>1. m >= 1
    BY <1>5, <1>8, EmptySeq
  <2>2. readers'[1].from = 1
    BY <1>5, <2>1 DEF OnPath
  <2>3. n > 1 /\ TopReader' = readers[n - 1].from
    BY <1>3, <1>1, <1>5, <2>1 DEF TopReader
  <2> QED BY <2>1, <2>2, <2>3
<1> QED BY <1>5, <1>7, <1>8 DEF OnPath, n

LEMMA SizeOfFixed ==
  ASSUME NEW id \in DOMAIN FixedSize, NEW c, NEW i
  PROVE  ValueSize(id, c, i) = FixedSize[id]
<1>1. id \notin {Binary, Regex, Str, JavaScript, Doc, Array, JavaScriptWithScope}
  BY DEF FixedSize, F64, Str, Doc, Array, Binary, ObjectId, Bool, DateTime, Null, Regex,
         JavaScript, JavaScriptWithScope, I32, Timestamp, I64, F128
<1> QED BY <1>1 DEF ValueSize

LEMMA SizeOfStr == ASSUME NEW c, NEW i PROVE ValueSize(Str, c, i) = 1 + c[i]
<1>1. Str \notin DOMAIN FixedSize /\ Str \notin {Binary, Regex, Doc, Array, JavaScriptWithScope}
  BY DEF FixedSize, F64, Str, Doc, Array, Binary, ObjectId, Bool, DateTime, Null, Regex,
         JavaScriptWithScope, I32, Timestamp, I64, F128
<1> QED BY <1>1 DEF ValueSize

\* Between two elements of the innermost document: a part, or the terminator.
LEMMA PlaceIs ==
  ASSUME NEW T, Complete(out, values, loose, T), OnPath(T), AtPlace(T), readers # <<>>, next = 0
  PROVE  /\ pos \in Nat
         /\ out[pos] # NUL => \E t \in T : t.from = pos + 3 /\ t.within = TopReader
<1>1. pos \in Bounds(T, TopReader)
  BY DEF AtPlace
<1>2. PICK e \in Nat : Chained(out, T, loose, TopReader, e)
  BY Visited
<1>3. TopReader \in Nat
  BY Visited
<1>4. T \in SUBSET Part /\ \A t \in T : IsPart(out, loose, t)
  BY DEF Complete, Tree
<1>5. pos \in Nat
  BY <1>1, <1>3, <1>4, BoundNumbers
<1>6. Continues(out, T, TopReader, pos) \/ out[pos] = NUL
  BY <1>1, <1>2 DEF Chained
<1> QED BY <1>5, <1>6 DEF Continues

\* A value that is about to be read, and how far it goes.
LEMMA ValueIs ==
  ASSUME NEW T, Complete(out, values, loose, T), OnPath(T), AtPlace(T), readers # <<>>, next # 0
  PROVE  \E t \in T :
           /\ t.from = pos /\ t.within = TopReader /\ next = out[t.from - 3]
           /\ pos \in Nat \ {0} /\ t.to \in Nat
           /\ next \notin Odd \/ pos \notin loose =>
                /\ Readable(next, out, pos)
                /\ next # Regex => t.to = pos + ValueSize(next, out, pos)
<1>1. PICK t \in T : t.from = pos /\ t.within = TopReader /\ next = out[pos - 3]
  BY DEF AtPlace
<1>2. out \in Cells /\ Tree(out, T, loose)
  BY DEF Complete
<1>3. t.from \in Nat /\ t.to \in Nat /\ t.from >= 5 /\ IsPart(out, loose, t)
  BY <1>2, TreeFacts
<1>4. ASSUME next \notin Odd \/ pos \notin loose
      PROVE  /\ Readable(next, out, pos)
             /\ next # Regex => t.to = pos + ValueSize(next, out, pos)
  <2>1. HasValue(out, pos, t.to)
    BY <1>1, <1>3, <1>4 DEF IsPart
  <2>2. Readable(next, out, pos) /\ t.to = ValueEnd(next, out, pos)
    BY <1>1, <2>1 DEF HasValue
  <2>3. pos \in Nat \ {0}
    BY <1>1, <1>3
  <2>4. ValueSize(next, out, pos) \in Nat
    BY <1>2, <2>2, <2>3, SizeFacts
  <2> QED BY <2>2, <2>3, <2>4 DEF ValueEnd
<1>5. pos \in Nat \ {0}
  BY <1>1, <1>3
<1> QED BY <1>1, <1>3, <1>4, <1>5

\* The reader goes on behind a part of the innermost document.
LEMMA WentOn ==
  ASSUME NEW T, OnPath(T), readers # <<>>, NEW t \in T, t.from = pos, t.within = TopReader,
         Codec!Done(pos, t.to), readers' = readers, out' = out
  PROVE  Reading(T)'
<1>1. pos' = t.to /\ next' = 0 /\ last' = <<t.from, t.to>>
  BY DEF Codec!Done, Codec!NoValue
<1>2. OnPath(T)'
  BY DEF OnPath
<1>3. TopReader' = TopReader
  BY DEF TopReader
<1>4. t.to \in Bounds(T, TopReader)
  BY DEF Bounds
<1>5. AtPlace(T)'
  BY <1>1, <1>3, <1>4 DEF AtPlace
<1>6. WasRead(T)'
  BY <1>1 DEF WasRead
<1> QED BY <1>2, <1>5, <1>6 DEF Reading

\* It enters a part.
LEMMA WentIn ==
  ASSUME NEW T, Complete(out, values, loose, T), OnPath(T), WasRead(T), readers # <<>>,
         NEW t \in T, t.from = pos, t.within = TopReader, out[t.from - 3] \in {Doc, Array},
         NEW ask \in {"map", "tuple"}, Codec!Enter(ask), out' = out
  PROVE  Reading(T)'
<1>1. /\ readers' = Append(readers, [from |-> t.from, ask |-> ask])
      /\ pos' = t.from + 1 /\ next' = 0 /\ last' = last
  BY DEF Codec!Enter, Codec!NoValue
<1>2. OnPath(T)' /\ readers' # <<>> /\ TopReader' = t.from
  BY <1>1, Entered
<1>3. t.from + 1 \in Bounds(T, t.from)
  BY DEF Bounds
<1>4. AtPlace(T)'
  BY <1>1, <1>2, <1>3 DEF AtPlace
<1>5. WasRead(T)'
  BY <1>1 DEF WasRead
<1> QED BY <1>2, <1>4, <1>5 DEF Reading

LEMMA ReadStep ==
  ASSUME NEW T, Complete(out, values, loose, T), Reading(T), Codec!Read
  PROVE  Reading(T)' /\ reading' = reading /\ UNCHANGED <<out, writers, values, loose>>
<1>1. reading' = reading /\ UNCHANGED <<out, writers, values, loose>>
  BY DEF Codec!Read, Codec!Begin, Codec!NextKey, Codec!NextIsEnd, Codec!LeaveWithoutEnd,
         Codec!ReadAny, Codec!ReadIgnored, Codec!ReadBytes, Codec!ReadTuple, Codec!ReadEnum,
         Codec!writer
<1>2. Codec!MayRead
  BY DEF Codec!Read, Codec!Begin, Codec!NextKey, Codec!NextIsEnd, Codec!LeaveWithoutEnd,
         Codec!ReadAny, Codec!ReadIgnored, Codec!ReadBytes, Codec!ReadTuple, Codec!ReadEnum,
         Codec!AtKey, Codec!AtValue
<1>3. OnPath(T) /\ AtPlace(T) /\ WasRead(T) /\ ~slipped /\ ~failed
  BY <1>2 DEF Reading, Codec!MayRead
<1>4. out' = out
  BY <1>1
<1>5. out \in Cells /\ Tree(out, T, loose) /\ Len(out) \in Nat
  BY LenNat DEF Complete
<1>6. (failed' = TRUE /\ last' = last) => Reading(T)'
  BY <1>3, <1>4 DEF Reading, WasRead
<1>7. slipped' = TRUE => Reading(T)'
  BY DEF Reading
<1>8. ASSUME Codec!Begin PROVE Reading(T)'
  <2>1. /\ readers = <<>> /\ last' = last /\ pos' = 2 /\ next' = next
        /\ readers' = <<[from |-> 1, ask |-> "map"]>>
    BY <1>8 DEF Codec!Begin
  <2>2. next' = 0
    BY <1>3, <2>1 DEF AtPlace
  <2>3. OnPath(T)'
    BY <2>1 DEF OnPath, ReaderRecord
  <2>4. TopReader' = 1
    BY <2>1 DEF TopReader
  <2>5. pos' \in Bounds(T, 1)
    BY <2>1 DEF Bounds
  <2>6. AtPlace(T)'
    BY <2>1, <2>2, <2>4, <2>5 DEF AtPlace
  <2>7. WasRead(T)'
    BY <1>3, <1>4, <2>1 DEF WasRead
  <2> QED BY <2>3, <2>6, <2>7 DEF Reading
<1>9. ASSUME Codec!NextKey PROVE Reading(T)'
  <2>1. /\ readers # <<>> /\ next = 0 /\ out[pos] # NUL
        /\ next' = out[pos] /\ pos' = NulFrom(out, pos + 1) + 1
        /\ readers' = readers /\ last' = last
    BY <1>9, CodecReads DEF Codec!NextKey, Codec!AtKey, Codec!NoValue
  <2>2. PICK t \in T : t.from = pos + 3 /\ t.within = TopReader
    BY <1>3, <2>1, PlaceIs
  <2>3. pos \in Nat
    BY <1>3, <2>1, PlaceIs
  <2>4. t.from <= t.to /\ t.to \in Nat /\ t.to <= Len(out) + 1 /\ IsPart(out, loose, t)
    BY <1>5, TreeFacts
  <2>5. (pos + 3) - 2 = pos + 1 /\ (pos + 3) - 1 = pos + 2 /\ (pos + 3) - 3 = pos
    BY <2>3
  <2>6. out[pos + 1] # NUL /\ out[pos + 2] = NUL
    BY <2>2, <2>4, <2>5 DEF IsPart, HasKey
  <2>7. NulFrom(out, pos + 1) = pos + 2
    <3>1. pos + 1 \in Nat \ {0} /\ (pos + 1) + 1 <= Len(out) /\ (pos + 1) + 1 = pos + 2
      BY <1>5, <2>2, <2>3, <2>4
    <3> QED BY <1>5, <2>6, <3>1, NulAfterKey
  <2>8. pos' = t.from /\ next' = out[pos' - 3] /\ next' # 0
    BY <2>1, <2>2, <2>3, <2>5, <2>7, Ids19
  <2>9. OnPath(T)' /\ TopReader' = TopReader /\ WasRead(T)'
    BY <1>3, <1>4, <2>1 DEF OnPath, TopReader, WasRead
  <2>10. AtPlace(T)'
    BY <1>4, <2>1, <2>2, <2>8, <2>9 DEF AtPlace
  <2> QED BY <2>9, <2>10 DEF Reading
<1>10. ASSUME Codec!NextIsEnd PROVE Reading(T)'
  <2>1. /\ readers # <<>> /\ next = 0 /\ out[pos] = NUL
        /\ pos' = pos + 1 /\ next' = 0 /\ last' = <<TopReader, pos + 1>>
        /\ readers' = Codec!Pop(readers) /\ slipped' = (TopReader \in loose)
    BY <1>10, CodecReads
    DEF Codec!NextIsEnd, Codec!AtKey, Codec!NoValue, Codec!Done, Codec!Top, TopReader
  <2>2. SUFFICES ASSUME TopReader \notin loose PROVE Reading(T)'
    BY <1>7, <2>1
  <2>3. PICK e \in Nat :
          /\ Chained(out, T, loose, TopReader, e)
          /\ \/ <<TopReader, e>> = <<1, Len(out) + 1>>
             \/ \E t \in T : <<TopReader, e>> = <<t.from, t.to>>
          /\ Len(readers) > 1 => e \in Bounds(T, readers[Len(readers) - 1].from)
    BY <1>3, <2>1, Visited
  <2>4. pos \in Bounds(T, TopReader) /\ pos \in Nat
    BY <1>3, <2>1, PlaceIs DEF AtPlace
  <2>5. pos = e - 1
    BY <2>1, <2>2, <2>3, <2>4 DEF Chained, Continues
  <2>6. pos + 1 = e
    BY <2>3, <2>4, <2>5
  <2>7. WasRead(T)'
    BY <1>4, <2>1, <2>3, <2>6 DEF WasRead
  <2>8. /\ OnPath(T)'
        /\ readers' # <<>> => Len(readers) > 1 /\ TopReader' = readers[Len(readers) - 1].from
    BY <1>3, <1>4, <2>1, Left
  <2>9. AtPlace(T)'
    BY <2>1, <2>3, <2>6, <2>8 DEF AtPlace
  <2> QED BY <2>7, <2>8, <2>9 DEF Reading
<1>11. ASSUME Codec!LeaveWithoutEnd PROVE Reading(T)'
  BY <1>7, <1>11 DEF Codec!LeaveWithoutEnd
<1>12. ASSUME next # 0
       PROVE  /\ readers # <<>>
              /\ \E t \in T :
                   /\ t.from = pos /\ t.within = TopReader /\ next = out[t.from - 3]
                   /\ pos \in Nat \ {0} /\ t.to \in Nat
                   /\ next \notin Odd \/ pos \notin loose =>
                        /\ Readable(next, out, pos)
                        /\ next # Regex => t.to = pos + ValueSize(next, out, pos)
  <2>1. readers # <<>>
    BY <1>3, <1>12 DEF AtPlace
  <2> QED BY <1>3, <1>12, <2>1, ValueIs
<1>13. ASSUME NEW to, next # 0, next \notin Odd \/ pos \notin loose, next # Regex, to = pos + ValueSize(next, out, pos),
              Codec!Done(pos, to), readers' = readers
       PROVE  Reading(T)'
  <2>1. readers # <<>>
    BY <1>12, <1>13
  <2>2. PICK t \in T : t.from = pos /\ t.within = TopReader /\ t.to = to
    BY <1>12, <1>13
  <2>3. Codec!Done(pos, t.to)
    BY <1>13, <2>2
  <2> QED BY <1>3, <1>4, <1>13, <2>1, <2>2, <2>3, WentOn
<1>14. ASSUME next \in {Doc, Array}, NEW ask \in {"map", "tuple"}, Codec!Enter(ask)
       PROVE  Reading(T)'
  <2>1. next # 0
    BY <1>14, Ids19
  <2>2. readers # <<>>
    BY <1>12, <2>1
  <2>3. PICK t \in T : t.from = pos /\ t.within = TopReader /\ next = out[t.from - 3]
    BY <1>12, <2>1
  <2>4. out[t.from - 3] \in {Doc, Array}
    BY <1>14, <2>3
  <2> QED BY <1>3, <1>4, <1>14, <2>2, <2>3, <2>4, WentIn
<1>15. ASSUME Codec!ReadAny PROVE Reading(T)'
  <2>1. next # 0
    BY <1>15 DEF Codec!ReadAny, Codec!AtValue, Codec!NoValue
  <2>2. CASE next \in {Codec!Doc, Codec!Array} /\ Codec!Enter("map")
    BY <1>14, <2>2, CodecReads
  <2>3. CASE /\ next \in {Codec!F64, Codec!Bool, Codec!I32, Codec!I64, Codec!Null}
             /\ Codec!Skip(Codec!FixedSize[next])
    <3>1. /\ next \in DOMAIN FixedSize /\ next \notin Odd /\ next # Regex
          /\ Codec!Done(pos, pos + FixedSize[next]) /\ readers' = readers
      BY <2>3, CodecIds DEF Codec!Skip, FixedSize, F64, Bool, I32, I64, Null, Odd, Binary, JavaScript,
                            JavaScriptWithScope, Regex
    <3>2. ValueSize(next, out, pos) = FixedSize[next]
      BY <3>1, SizeOfFixed
    <3> QED BY <1>13, <2>1, <3>1, <3>2
  <2>4. CASE /\ next = Codec!Str /\ Codec!Done(pos, Codec!StringEnd(pos))
             /\ UNCHANGED <<readers, slipped>>
    <3>1. next = Str /\ next \notin Odd /\ next # Regex /\ next # Null
      BY <2>4, CodecIds DEF Str, Odd, Binary, JavaScript, JavaScriptWithScope, Regex, Null
    <3>2. ValueSize(next, out, pos) = 1 + out[pos]
      BY <3>1, SizeOfStr
    <3>3. pos \in Nat \ {0} /\ Readable(next, out, pos)
      BY <1>12, <2>1, <3>1
    <3>4. out[pos] \in Nat
      <4>1. pos \in 1 .. Len(out)
        BY <1>5, <3>1, <3>3 DEF Readable
      <4> QED BY <1>5, <4>1 DEF Cells
    <3>5. Codec!StringEnd(pos) = pos + ValueSize(next, out, pos)
      <4>1. pos + 1 + out[pos] = pos + (1 + out[pos])
        BY <3>3, <3>4
      <4> QED BY <3>2, <4>1 DEF Codec!StringEnd
    <3> QED BY <1>13, <2>1, <2>4, <3>1, <3>5
  <2>5. CASE Codec!ReadSpecial
    <3>1. /\ next \in DOMAIN FixedSize /\ next \notin Odd /\ next # Regex /\ FixedSize[next] = 1
          /\ Codec!Done(pos, pos + 1) /\ readers' = readers
      BY <2>5, CodecIds
      DEF Codec!ReadSpecial, Codec!Skip, FixedSize, ObjectId, DateTime, Timestamp, Null, Odd, Binary,
          JavaScript, JavaScriptWithScope, Regex
    <3>2. ValueSize(next, out, pos) = 1
      BY <3>1, SizeOfFixed
    <3> QED BY <1>13, <2>1, <3>1, <3>2
  <2>6. CASE Codec!ReadBinary \/ Codec!ReadRegex
    BY <1>6, <2>6 DEF Codec!ReadBinary, Codec!ReadRegex, Codec!Fail
  <2>7. CASE Codec!ReadJavaScript
    BY <1>6, <1>7, <2>7 DEF Codec!ReadJavaScript, Codec!Fail
  <2> QED BY <1>15, <2>2, <2>3, <2>4, <2>5, <2>6, <2>7 DEF Codec!ReadAny
<1>16. ASSUME Codec!ReadIgnored PROVE Reading(T)'
  <2>1. /\ next # 0 /\ Codec!Done(pos, pos + ValueSize(next, out, pos))
        /\ slipped' = (next = Regex \/ (next \in Odd /\ pos \in loose)) /\ readers' = readers
    BY <1>16, CodecReads, CodecIds
    DEF Codec!ReadIgnored, Codec!AtValue, Codec!NoValue, Codec!Skipped, Codec!Sizeless, Odd
  <2>2. CASE next = Regex \/ (next \in Odd /\ pos \in loose)
    BY <1>7, <2>1, <2>2
  <2>3. CASE next # Regex /\ (next \notin Odd \/ pos \notin loose)
    BY <1>13, <2>1, <2>3
  <2> QED BY <2>2, <2>3
<1>17. ASSUME Codec!ReadBytes PROVE Reading(T)'
  <2>1. /\ next # 0 /\ Codec!Done(pos, pos + ValueSize(next, out, pos)) /\ readers' = readers
        /\ next \in {Binary, Doc} /\ slipped' = (next \in Odd /\ pos \in loose)
    BY <1>17, CodecReads, CodecIds
    DEF Codec!ReadBytes, Codec!AtValue, Codec!NoValue, Codec!Skipped, Codec!Sizeless, Odd
  <2>2. next # Regex
    BY <2>1 DEF Binary, Doc, Regex
  <2>3. CASE next \in Odd /\ pos \in loose
    BY <1>7, <2>1, <2>3
  <2>4. CASE next \notin Odd \/ pos \notin loose
    BY <1>13, <2>1, <2>2, <2>4
  <2> QED BY <2>3, <2>4
<1>18. ASSUME Codec!ReadTuple PROVE Reading(T)'
  <2>1. next \in {Doc, Array} /\ Codec!Enter("tuple")
    BY <1>18, CodecReads DEF Codec!ReadTuple
  <2> QED BY <1>14, <2>1
<1>19. ASSUME Codec!ReadEnum PROVE Reading(T)'
  <2>1. next # 0
    BY <1>19 DEF Codec!ReadEnum, Codec!AtValue, Codec!NoValue
  <2>2. CASE ~(next = Codec!Doc /\ out[pos + 1] # Codec!NUL)
    BY <1>6, <1>19, <2>2 DEF Codec!ReadEnum, Codec!Fail
  <2>3. CASE next = Codec!Doc /\ out[pos + 1] # Codec!NUL
    <3>1. /\ next = Doc /\ out[pos + 1] # NUL
          /\ readers' = Append(readers, [from |-> pos, ask |-> "enum"])
          /\ next' = out[pos + 1] /\ pos' = NulFrom(out, pos + 2) + 1 /\ last' = last
      BY <1>19, <2>3, CodecReads DEF Codec!ReadEnum
    <3>2. readers # <<>>
      BY <1>12, <2>1
    <3>3. PICK t \in T : /\ t.from = pos /\ t.within = TopReader /\ next = out[t.from - 3]
                         /\ pos \in Nat \ {0}
      BY <1>12, <2>1
    <3>4. out[t.from - 3] \in {Doc, Array}
      BY <3>1, <3>3
    <3>5. Chained(out, T, loose, pos, t.to) /\ pos + 1 \in Bounds(T, pos)
      BY <1>5, <3>3, <3>4 DEF Tree, Bounds
    <3>6. Continues(out, T, pos, pos + 1)
      BY <3>1, <3>5 DEF Chained
    <3>7. PICK u \in T : u.from = (pos + 1) + 3 /\ u.within = pos
      BY <3>6 DEF Continues
    <3>8. u.from <= u.to /\ u.to \in Nat /\ u.to <= Len(out) + 1 /\ IsPart(out, loose, u)
      BY <1>5, TreeFacts
    <3>9. /\ u.from = pos + 4 /\ (pos + 4) - 2 = pos + 2 /\ (pos + 4) - 1 = pos + 3
          /\ (pos + 4) - 3 = pos + 1 /\ (pos + 3) + 1 = pos + 4
      BY <3>3, <3>7
    <3>10. out[pos + 2] # NUL /\ out[pos + 3] = NUL
      BY <3>8, <3>9 DEF IsPart, HasKey
    <3>11. NulFrom(out, pos + 2) = pos + 3
      <4>1. pos + 2 \in Nat \ {0} /\ (pos + 2) + 1 <= Len(out) /\ (pos + 2) + 1 = pos + 3
        BY <1>5, <3>3, <3>8, <3>9
      <4> QED BY <1>5, <3>10, <4>1, NulAfterKey
    <3>12. pos' = u.from /\ next' = out[pos' - 3] /\ next' # 0
      BY <3>1, <3>9, <3>11, Ids19
    <3>13. OnPath(T)' /\ readers' # <<>> /\ TopReader' = t.from
      <4>1. readers' = Append(readers, [from |-> t.from, ask |-> "enum"])
        BY <3>1, <3>3
      <4> QED BY <1>3, <1>4, <3>2, <3>3, <3>4, <4>1, Entered
    <3>14. AtPlace(T)'
      BY <1>4, <3>3, <3>7, <3>12, <3>13 DEF AtPlace
    <3>15. WasRead(T)'
      BY <1>3, <1>4, <3>1 DEF WasRead
    <3> QED BY <3>13, <3>14, <3>15 DEF Reading
  <2> QED BY <2>2, <2>3
<1> QED BY <1>1, <1>8, <1>9, <1>10, <1>11, <1>15, <1>16, <1>17, <1>18, <1>19 DEF Codec!Read

-----------------------------------------------------------------------------
(* What the serializer appends. *)

\* d is c with an element behind it.
Adds(c, d, id, key, w) ==
  /\ d \in Cells /\ Len(d) = Len(c) + 3 + Len(w)
  /\ \A x \in 1 .. Len(c) : d[x] = c[x]
  /\ d[Len(c) + 1] = id /\ d[Len(c) + 2] = key /\ d[Len(c) + 3] = NUL
  /\ \A x \in 1 .. Len(w) : d[Len(c) + 3 + x] = w[x]

LEMMA CellsLaid ==
  ASSUME NEW c \in Cells, NEW id \in Nat, NEW key \in Nat, NEW w \in Cells
  PROVE  Adds(c, (c \o <<id, key, NUL>>) \o w, id, key, w)
<1> DEFINE h == <<id, key, NUL>>
           b == c \o h
<1>1. h \in Cells /\ Len(h) = 3 /\ h[1] = id /\ h[2] = key /\ h[3] = NUL
  BY DEF Cells, NUL
<1> HIDE DEF h
<1>2. /\ b \in Cells /\ Len(b) = Len(c) + Len(h) /\ Len(c) \in Nat
      /\ \A x \in 1 .. Len(c) : b[x] = c[x]
      /\ \A x \in 1 .. Len(h) : b[Len(c) + x] = h[x]
  BY <1>1, CellsConcat, Zenon
<1> HIDE DEF b
<1>4. /\ b \o w \in Cells /\ Len(b \o w) = Len(b) + Len(w) /\ Len(w) \in Nat
      /\ \A x \in 1 .. Len(b) : (b \o w)[x] = b[x]
      /\ \A x \in 1 .. Len(w) : (b \o w)[Len(b) + x] = w[x]
  BY <1>2, CellsConcat, Zenon
<1>5. \A x \in 1 .. Len(c) : x \in 1 .. Len(b)
  BY <1>1, <1>2
<1>6. Len(c) + 1 \in 1 .. Len(b) /\ Len(c) + 2 \in 1 .. Len(b) /\ Len(c) + 3 \in 1 .. Len(b)
  BY <1>1, <1>2
<1>7. b[Len(c) + 1] = id /\ b[Len(c) + 2] = key /\ b[Len(c) + 3] = NUL
  BY <1>1, <1>2
<1>8. Adds(c, b \o w, id, key, w)
  BY <1>1, <1>2, <1>4, <1>5, <1>6, <1>7 DEF Adds
<1> QED BY <1>8 DEF b, h

LEMMA ReadableIds ==
  ASSUME NEW id, NEW c, NEW i, Readable(id, c, i)
  PROVE  id \in Nat \ {0}
  BY DEF Readable, FixedSize, F64, Str, Doc, Array, Binary, ObjectId, Bool, DateTime, Null, Regex,
         JavaScript, JavaScriptWithScope, I32, Timestamp, I64, F128

\* The parts N in the value from s up to e.
Filled(d, K, s, e, N) ==
  /\ N \in SUBSET Part /\ Apart(N)
  /\ \A u \in N : IsPart(d, K, u) /\ u.within >= s /\ u.to < e
  /\ d[s - 3] \in {Doc, Array} => Chained(d, N, K, s, e)
  /\ \A u \in N : d[u.from - 3] \in {Doc, Array} => Chained(d, N, K, u.from, u.to)

LEMMA NothingFilled ==
  ASSUME NEW d, NEW K, NEW s, NEW e, d[s - 3] \notin {Doc, Array}
  PROVE  Filled(d, K, s, e, {})
  BY DEF Filled, Apart

\* d has one element more than c, under key: w, in which the parts N are.
IsNext(c, W, V, L, T, id, key, w, d, K, X, s, N) ==
  /\ Writing(c, W, V, L, T)
  /\ id \in Nat \ {0} /\ key \in Nat \ {0} /\ w \in Cells /\ Adds(c, d, id, key, w)
  /\ L \subseteq K /\ Alike(W, X) /\ s = Len(c) + 4
  /\ HasValue(d, s, Len(d) + 1) \/ (id \in Odd /\ s \in K)
  /\ id = Regex => s \in K
  /\ Filled(d, K, s, Len(d) + 1, N)

\* The next element, whatever is in its value.
LEMMA NextWritten ==
  ASSUME NEW c, NEW W, NEW V, NEW L, NEW T, NEW id, NEW key, NEW w, NEW d, NEW K, NEW X, NEW s,
         NEW N, IsNext(c, W, V, L, T, id, key, w, d, K, X, s, N)
  PROVE  \E U : Writing(d, X, V \cup {<<s, Len(d) + 1>>}, K, U)
<1> SUFFICES
      ASSUME Writing(c, W, V, L, T),
             id \in Nat \ {0}, key \in Nat \ {0}, w \in Cells, Adds(c, d, id, key, w),
             L \subseteq K, Alike(W, X), s = Len(c) + 4,
             HasValue(d, s, Len(d) + 1) \/ (id \in Odd /\ s \in K), id = Regex => s \in K,
             Filled(d, K, s, Len(d) + 1, N)
      PROVE  \E U : Writing(d, X, V \cup {<<s, Len(d) + 1>>}, K, U)
  BY DEF IsNext
<1>1. c \in Cells /\ Stack(c, W)
  BY DEF Writing
<1>2. /\ d \in Cells /\ Len(d) = Len(c) + 3 + Len(w)
      /\ Len(c) \in Nat /\ Len(w) \in Nat
      /\ \A x \in 1 .. Len(c) : d[x] = c[x]
      /\ d[Len(c) + 1] = id /\ d[Len(c) + 2] = key /\ d[Len(c) + 3] = NUL
      /\ \A x \in 1 .. Len(w) : d[Len(c) + 3 + x] = w[x]
  BY <1>1, LenNat DEF Adds
<1>3. Len(W) \in 1 .. Len(W)
  BY <1>1, StackNumbers
<1>4. W[Len(W)].offset \in Nat /\ 1 <= W[Len(W)].offset /\ W[Len(W)].offset <= Len(c)
  BY <1>1, <1>2, <1>3, StackNumbers
<1> DEFINE p == [from |-> s, to |-> Len(d) + 1, within |-> W[Len(W)].offset]
<1>5. p.from = s /\ p.to = Len(d) + 1 /\ p.within = W[Len(W)].offset
  OBVIOUS
<1>6. p \in Part
  BY <1>2, <1>4 DEF Part
<1> HIDE DEF p
<1>7. /\ p.within >= 1 /\ p.within + 4 <= p.from /\ p.from <= p.to /\ p.to <= Len(d) + 1
      /\ s - 3 = Len(c) + 1 /\ s - 2 = Len(c) + 2 /\ s - 1 = Len(c) + 3
  BY <1>2, <1>4, <1>5, SMTT(30)
<1>8. HasKey(d, s)
  BY <1>2, <1>7, Ids19 DEF HasKey
<1>9. IsPart(d, K, p)
  BY <1>2, <1>5, <1>7, <1>8 DEF IsPart
<1>10. Whole(d, K, p, N)
  BY <1>5, <1>6, <1>9 DEF Whole, Filled
<1>11. Len(c) + 3 <= Len(d) /\ p.from = Len(c) + 4
  BY <1>2, <1>5
<1>12. Writing(d, X, V \cup {<<p.from, p.to>>}, K, T \cup ({p} \cup N))
  BY <1>2, <1>5, <1>10, <1>11, ValueWritten, ZenonT(60)
<1> QED BY <1>5, <1>12

\* A value that is whole and in which there are no others.
LEMMA PlainWritten ==
  ASSUME NEW c, NEW W, NEW V, NEW L, NEW T, Writing(c, W, V, L, T),
         NEW v, IsWhole(v), v.id \notin {Doc, Array, Regex}, NEW key \in Nat \ {0},
         NEW d, Adds(c, d, v.id, key, v.cells),
         NEW X, Alike(W, X), NEW s, s = Len(c) + 4
  PROVE  \E U : Writing(d, X, V \cup {<<s, Len(d) + 1>>}, L, U)
<1> DEFINE w == v.cells
           id == v.id
<1>1. /\ w \in Cells /\ Readable(id, w, 1) /\ ValueSize(id, w, 1) = Len(w)
      /\ id # Null => 1 <= Len(w)
  BY DEF IsWhole, Cells, Readable
<1>2. id \in Nat \ {0} /\ id \notin {Doc, Array, Regex}
  BY <1>1, ReadableIds
<1>3. Adds(c, d, id, key, w) /\ c \in Cells
  BY DEF Writing
<1> HIDE DEF w, id
<1>4. /\ d \in Cells /\ Len(d) = Len(c) + 3 + Len(w)
      /\ Len(c) \in Nat /\ Len(w) \in Nat
      /\ \A x \in 1 .. Len(c) : d[x] = c[x]
      /\ d[Len(c) + 1] = id /\ d[Len(c) + 2] = key /\ d[Len(c) + 3] = NUL
      /\ \A x \in 1 .. Len(w) : d[Len(c) + 3 + x] = w[x]
  BY <1>1, <1>3, LenNat DEF Adds
<1>5. Same(w, 1, Len(w), d, s)
  <2>1. \A x \in 1 .. Len(w) : s + (x - 1) = Len(c) + 3 + x
    BY <1>4
  <2>2. s + (Len(w) - 1) <= Len(d) /\ Len(w) <= Len(w)
    BY <1>4
  <2> QED BY <1>4, <2>1, <2>2 DEF Same
<1>6. Readable(id, d, s) /\ ValueSize(id, d, s) = Len(w)
  <2>1. Len(w) >= 1 + ValueSize(id, w, 1) - 1
    BY <1>1, <1>4
  <2>2. s \in Nat \ {0} /\ 1 \in Nat \ {0}
    BY <1>4
  <2> QED BY <1>1, <1>2, <1>4, <1>5, <2>1, <2>2, SizeShift
<1>7. s - 3 = Len(c) + 1 /\ Len(d) + 1 = s + Len(w) + 0 /\ (id # Null => s < Len(d) + 1)
  BY <1>1, <1>4
<1>8. HasValue(d, s, Len(d) + 1)
  BY <1>2, <1>4, <1>6, <1>7 DEF HasValue, ValueEnd
<1>9. Filled(d, L, s, Len(d) + 1, {})
  BY <1>2, <1>4, <1>7, NothingFilled
<1>10. L \subseteq L
  OBVIOUS
<1>11. IsNext(c, W, V, L, T, id, key, w, d, L, X, s, {})
  BY <1>1, <1>2, <1>3, <1>8, <1>9, <1>10 DEF IsNext
<1> QED BY <1>11, NextWritten

\* A regular expression, whose second NUL the size leaves out.
LEMMA RegexWritten ==
  ASSUME NEW c, NEW W, NEW V, NEW L, NEW T, Writing(c, W, V, L, T), NEW key \in Nat \ {0},
         NEW d, Adds(c, d, Regex, key, <<9, NUL, NUL>>),
         NEW X, Alike(W, X), NEW s, s = Len(c) + 4
  PROVE  \E U : Writing(d, X, V \cup {<<s, Len(d) + 1>>}, L \cup {s}, U)
<1> DEFINE w == <<9, NUL, NUL>>
<1>1. /\ w \in Cells /\ Len(w) = 3 /\ w[1] # NUL /\ w[2] = NUL /\ w[3] = NUL
      /\ Adds(c, d, Regex, key, w) /\ c \in Cells
  BY DEF Cells, NUL, Writing
<1> HIDE DEF w
<1>2. /\ d \in Cells /\ Len(d) = Len(c) + 6 /\ Len(c) \in Nat /\ d[Len(c) + 1] = Regex
      /\ d[Len(c) + 3 + 1] = w[1] /\ d[Len(c) + 3 + 2] = w[2] /\ d[Len(c) + 3 + 3] = w[3]
  BY <1>1, LenNat DEF Adds
<1>3. /\ s \in Nat \ {0} /\ s - 3 = Len(c) + 1 /\ Len(c) + 3 + 1 = s /\ Len(c) + 3 + 2 = s + 1
      /\ Len(c) + 3 + 3 = s + 2 /\ Len(d) + 1 = s + 3 /\ Len(d) = s + 2
  BY <1>2
<1>4. d[s] # NUL /\ d[s + 1] = NUL /\ d[s + 2] = NUL /\ d[s - 3] = Regex
  BY <1>1, <1>2, <1>3
<1> HIDE DEF w
<1>5. NulFrom(d, s) = s + 1
  <2>1. s + 1 <= Len(d)
    BY <1>3
  <2> QED BY <1>2, <1>3, <1>4, <2>1, NulAfterKey
<1>6. NulFrom(d, s + 2) = s + 2
  <2> DEFINE at == {j \in s + 2 .. Len(d) : d[j] = NUL}
  <2>1. at = {s + 2}
    BY <1>3, <1>4
  <2>2. NulFrom(d, s + 2) = IF at = {} THEN 0 ELSE CHOOSE j \in at : \A k \in at : j <= k
    BY DEF NulFrom
  <2> HIDE DEF at
  <2>3. \A j \in at : j = s + 2
    BY <2>1
  <2>4. at # {} /\ s + 2 \in at /\ \A k \in at : s + 2 <= k
    BY <1>3, <2>1
  <2> QED BY <2>2, <2>3, <2>4
<1>7. ValueSize(Regex, d, s) = 2
  <2>1. (s + 1) + 1 = s + 2 /\ (s + 2) - s = 2
    BY <1>3
  <2>2. /\ Regex \notin DOMAIN FixedSize /\ Regex # Binary /\ Regex \notin {Str, JavaScript}
        /\ Regex \notin {Doc, Array, JavaScriptWithScope}
    BY DEF FixedSize, F64, Str, Doc, Array, Binary, ObjectId, Bool, DateTime, Null, Regex,
           JavaScript, JavaScriptWithScope, I32, Timestamp, I64, F128
  <2>3. ValueSize(Regex, d, s) = NulFrom(d, NulFrom(d, s) + 1) - s
    BY <2>2 DEF ValueSize
  <2> QED BY <1>5, <1>6, <2>1, <2>3
<1>8. Readable(Regex, d, s)
  <2>1. (s + 1) + 1 = s + 2 /\ s + 1 # 0 /\ s + 2 # 0 /\ s + 2 - 1 <= Len(d) /\ s <= Len(d)
    BY <1>3
  <2> QED BY <1>5, <1>6, <1>7, <2>1 DEF Readable
<1>9. HasValue(d, s, Len(d) + 1)
  <2>1. s + 3 = s + 2 + 1 /\ s < s + 3 /\ (s + 3) - 1 = s + 2
    BY <1>3
  <2> QED BY <1>3, <1>4, <1>7, <1>8, <2>1 DEF HasValue, ValueEnd
<1>10. Filled(d, L \cup {s}, s, Len(d) + 1, {})
  BY <1>4, Ids19, NothingFilled
<1>11. Regex \in Nat \ {0} /\ L \subseteq L \cup {s} /\ s \in L \cup {s}
  BY DEF Regex
<1>12. IsNext(c, W, V, L, T, Regex, key, w, d, L \cup {s}, X, s, {})
  BY <1>1, <1>9, <1>10, <1>11 DEF IsNext
<1> QED BY <1>12, NextWritten

\* Without its size in front, which nobody reads as it was written.
LEMMA OddWritten ==
  ASSUME NEW c, NEW W, NEW V, NEW L, NEW T, Writing(c, W, V, L, T), NEW key \in Nat \ {0},
         NEW id \in Odd, NEW w \in Cells, NEW d, Adds(c, d, id, key, w),
         NEW X, Alike(W, X), NEW s, s = Len(c) + 4
  PROVE  \E U : Writing(d, X, V \cup {<<s, Len(d) + 1>>}, L \cup {s}, U)
<1>1. c \in Cells
  BY DEF Writing
<1>2. s - 3 = Len(c) + 1
  BY <1>1, LenNat
<1>3. d[s - 3] = id
  BY <1>2 DEF Adds
<1>4. Filled(d, L \cup {s}, s, Len(d) + 1, {})
  BY <1>3, Ids19, NothingFilled
<1>5. id \in Nat \ {0} /\ L \subseteq L \cup {s} /\ s \in L \cup {s}
  BY Ids19
<1>6. IsNext(c, W, V, L, T, id, key, w, d, L \cup {s}, X, s, {})
  BY <1>4, <1>5 DEF IsNext
<1> QED BY <1>6, NextWritten

-----------------------------------------------------------------------------
(* A Document among the values, with all that is in it. *)

WellFormed(b, P) ==
  /\ b \in Cells /\ b[1] \in 2 .. Len(b)
  /\ IsNested(b, P) /\ FollowEachOther(b, P, 1, b[1])

\* Where the regular expressions are.
RegexesIn(b, P) == {t.from : t \in {u \in P : b[u.from - 3] = Regex}}

Shifted(t, m) == [from |-> t.from + m, to |-> t.to + m, within |-> t.within + m]

\* The cells of t are in d, m further on.
Moved(b, d, t, m) == \A x \in t.from - 3 .. t.to - 1 : d[x + m] = b[x]

LEMMA PartsAreParts ==
  ASSUME NEW b, NEW P, WellFormed(b, P), NEW t \in P
  PROVE  /\ t \in Part /\ IsPart(b, RegexesIn(b, P), t) /\ t.to <= b[1]
         /\ HasValue(b, t.from, t.to)
<1>1. /\ P \subseteq [from : Nat, to : Nat, within : Nat \ {0}]
      /\ t.within + 4 <= t.from /\ t.to <= b[1] /\ HasKey(b, t.from) /\ HasValue(b, t.from, t.to)
      /\ b \in Cells /\ b[1] \in 2 .. Len(b)
  BY DEF WellFormed, IsNested
<1>2. t.from \in Nat /\ t.to \in Nat /\ t.within \in Nat \ {0} /\ t \in Part
  BY <1>1 DEF Part
<1>3. t.from \in Nat \ {0} /\ Len(b) \in Nat /\ b[1] \in Nat
  BY <1>1, <1>2, LenNat
<1>4. Readable(b[t.from - 3], b, t.from) /\ t.to = ValueEnd(b[t.from - 3], b, t.from)
  BY <1>1 DEF HasValue
<1>5. ValueSize(b[t.from - 3], b, t.from) \in Nat
  BY <1>1, <1>3, <1>4, SizeFacts
<1>6. t.from <= t.to
  BY <1>3, <1>4, <1>5 DEF ValueEnd
<1>7. t.to <= Len(b) + 1 /\ t.within >= 1
  BY <1>1, <1>2, <1>3
<1>8. b[t.from - 3] = Regex => t.from \in RegexesIn(b, P)
  BY DEF RegexesIn
<1> QED BY <1>1, <1>2, <1>6, <1>7, <1>8 DEF IsPart

LEMMA ShiftedPart ==
  ASSUME NEW b \in Cells, NEW d \in Cells, NEW t \in Part, NEW R, IsPart(b, R, t), NEW m \in Nat,
         HasValue(b, t.from, t.to), Moved(b, d, t, m), t.to + m <= Len(d) + 1,
         NEW K, b[t.from - 3] = Regex => t.from + m \in K
  PROVE  /\ Shifted(t, m) \in Part /\ IsPart(d, K, Shifted(t, m))
         /\ d[Shifted(t, m).from - 3] = b[t.from - 3]
<1>1. /\ t.from \in Nat /\ t.to \in Nat /\ t.within \in Nat
      /\ t.within >= 1 /\ t.within + 4 <= t.from /\ t.from <= t.to /\ t.to <= Len(b) + 1
  BY PartNumbers
<1>2. /\ Shifted(t, m).from = t.from + m /\ Shifted(t, m).to = t.to + m
      /\ Shifted(t, m).within = t.within + m
  BY DEF Shifted
<1>3. Shifted(t, m) \in Part
  BY <1>1 DEF Shifted, Part
<1> DEFINE i == t.from
           to == t.to
           j == i + m
<1>4. Len(b) \in Nat /\ Len(d) \in Nat /\ to + m <= Len(d) + 1
  BY LenNat
<1>5. \A x \in i - 3 .. to - 1 : d[x + m] = b[x]
  BY DEF Moved
<1>6. HasKey(b, i) /\ HasValue(b, i, to) /\ (b[i - 3] = Regex => j \in K)
  BY DEF IsPart
<1>7. i \in Nat /\ to \in Nat /\ i >= 5 /\ i <= to /\ to <= Len(b) + 1
  BY <1>1
<1> HIDE DEF i, to
<1>8. j \in Nat /\ j >= 4 /\ j - 3 = (i - 3) + m /\ j + (to - i) = to + m
  BY <1>7
<1> HIDE DEF j
<1>9. Same(b, i - 3, to - 1, d, j - 3)
  <2>1. \A x \in i - 3 .. to - 1 : (j - 3) + (x - (i - 3)) = x + m
    BY <1>7, <1>8
  <2>2. to - 1 <= Len(b) /\ (j - 3) + ((to - 1) - (i - 3)) <= Len(d)
    BY <1>4, <1>7, <1>8
  <2> QED BY <1>5, <2>1, <2>2 DEF Same
<1>10. /\ HasKey(d, j) /\ HasValue(d, j, j + (to - i)) /\ d[j - 3] = b[i - 3]
  <2>1. i >= 4
    BY <1>7
  <2> QED BY <1>6, <1>7, <1>8, <1>9, <2>1, ValueShift
<1>11. Shifted(t, m).from = j /\ Shifted(t, m).to = to + m
  BY <1>2 DEF i, j, to
<1>12. /\ Shifted(t, m).within >= 1 /\ Shifted(t, m).within + 4 <= Shifted(t, m).from
       /\ Shifted(t, m).from <= Shifted(t, m).to /\ Shifted(t, m).to <= Len(d) + 1
  <2>1. t.within + m >= 1 /\ (t.within + m) + 4 <= t.from + m /\ t.from + m <= t.to + m
    BY <1>1, SMTT(30)
  <2> QED BY <1>2, <2>1
<1>13. d[j - 3] = Regex => j \in K
  BY <1>6, <1>10
<1> QED BY <1>3, <1>8, <1>10, <1>11, <1>12, <1>13 DEF IsPart, i

LEMMA ShiftedApart ==
  ASSUME NEW P \in SUBSET Part, Apart(P), NEW m \in Nat
  PROVE  Apart({Shifted(t, m) : t \in P})
<1>1. SUFFICES ASSUME NEW t \in P, NEW u \in P
               PROVE  /\ t.from + m = u.from + m => t = u
                      /\ t.within + m = u.from + m => t.to + m < u.to + m
  BY DEF Apart, Shifted
<1>2. /\ t.from \in Nat /\ t.to \in Nat /\ t.within \in Nat
      /\ u.from \in Nat /\ u.to \in Nat /\ u.within \in Nat
  BY DEF Part
<1>3. (t.from = u.from => t = u) /\ (t.within = u.from => t.to < u.to)
  BY DEF Apart
<1> QED BY <1>2, <1>3

MovedTo(b, P, d, N, m) ==
  /\ b \in Cells /\ P \in SUBSET Part /\ m \in Nat
  /\ \A t \in P : IsPart(b, RegexesIn(b, P), t) /\ Moved(b, d, t, m)
  /\ N = {Shifted(t, m) : t \in P}

LEMMA ShiftedBounds ==
  ASSUME NEW b, NEW P, NEW d, NEW N, NEW m, MovedTo(b, P, d, N, m),
         NEW s \in Nat, NEW z \in Nat, FollowEachOther(b, P, s, z), NEW x \in Bounds(N, s + m)
  PROVE  \E y \in Bounds(P, s) :
           /\ y \in Nat /\ y >= s + 1 /\ x = y + m
           /\ \/ \E t \in P : t.from = y + 3 /\ t.within = s /\ Continues(d, N, s + m, x)
              \/ b[y] = NUL /\ y = z
<1>0. /\ b \in Cells /\ P \in SUBSET Part /\ m \in Nat
      /\ \A t \in P : IsPart(b, RegexesIn(b, P), t) /\ Moved(b, d, t, m)
      /\ N = {Shifted(t, m) : t \in P}
  BY DEF MovedTo
<1>1. \E y \in Bounds(P, s) : x = y + m
  <2>1. CASE x = (s + m) + 1
    <3>1. x = (s + 1) + m
      BY <1>0, <2>1
    <3> QED BY <3>1 DEF Bounds
  <2>2. ASSUME NEW u \in N, u.within = s + m, x = u.to PROVE \E y \in Bounds(P, s) : x = y + m
    <3>1. PICK t \in P : u = Shifted(t, m)
      BY <1>0
    <3>2. u.within = t.within + m /\ u.to = t.to + m
      BY <3>1 DEF Shifted
    <3>3. t.within \in Nat
      BY <1>0 DEF Part
    <3>4. t.within = s
      BY <1>0, <2>2, <3>2, <3>3
    <3> QED BY <2>2, <3>2, <3>4 DEF Bounds
  <2> QED BY <2>1, <2>2 DEF Bounds
<1>2. PICK y \in Bounds(P, s) : x = y + m
  BY <1>1
<1>3. y \in Nat /\ y >= s + 1
  BY <1>0, BoundNumbers
<1>4. Continues(b, P, s, y) \/ (b[y] = NUL /\ y = z)
  BY DEF FollowEachOther, Bounds
<1>5. ASSUME Continues(b, P, s, y)
      PROVE  \E t \in P : t.from = y + 3 /\ t.within = s /\ Continues(d, N, s + m, x)
  <2>1. b[y] # NUL
    BY <1>5 DEF Continues
  <2>2. PICK t \in P : t.from = y + 3 /\ t.within = s
    BY <1>5 DEF Continues
  <2>3. t.from \in Nat /\ t.to \in Nat /\ t.from <= t.to
    BY <1>0, PartNumbers
  <2>4. y \in t.from - 3 .. t.to - 1
    BY <1>3, <2>2, <2>3
  <2>5. d[x] = b[y]
    BY <1>0, <1>2, <2>4 DEF Moved
  <2>6. Shifted(t, m) \in N /\ Shifted(t, m).from = x + 3 /\ Shifted(t, m).within = s + m
    <3>1. (y + 3) + m = x + 3
      BY <1>0, <1>2, <1>3
    <3> QED BY <1>0, <2>2, <3>1 DEF Shifted
  <2> QED BY <2>1, <2>2, <2>5, <2>6 DEF Continues
<1> QED BY <1>2, <1>3, <1>4, <1>5

LEMMA SizeOfDocument ==
  ASSUME NEW id \in {Doc, Array}, NEW c, NEW i
  PROVE  ValueSize(id, c, i) = c[i] /\ id # Regex /\ id # Null
<1>1. id \notin DOMAIN FixedSize /\ id \notin {Binary, Regex, Str, JavaScript, Null}
  BY DEF FixedSize, F64, Str, Doc, Array, Binary, ObjectId, Bool, DateTime, Null, Regex,
         JavaScript, JavaScriptWithScope, I32, Timestamp, I64, F128
<1> QED BY <1>1 DEF ValueSize

\* The content of b in between a length and a terminator.
Embeds(w, b) ==
  /\ w \in Cells /\ Len(w) = Len(b) /\ w[1] = Len(b) /\ w[Len(b)] = NUL
  /\ \A x \in 2 .. Len(b) - 1 : w[x] = b[x]

LEMMA EmbeddedWritten ==
  ASSUME NEW c, NEW W, NEW V, NEW L, NEW T, Writing(c, W, V, L, T), NEW key \in Nat \ {0},
         NEW b, NEW P, WellFormed(b, P),
         NEW w, Embeds(w, b),
         NEW d, Adds(c, d, Doc, key, w),
         NEW X, Alike(W, X), NEW s, s = Len(c) + 4,
         NEW K, L \subseteq K, Len(b) = b[1] \/ s \in K,
         \A i \in RegexesIn(b, P) : Len(c) + 3 + i \in K
  PROVE  \E U : Writing(d, X, V \cup {<<s, Len(d) + 1>>}, K, U)
<1> DEFINE n == Len(b)
           e == b[1]
           m == Len(c) + 3
<1>1. c \in Cells /\ b \in Cells /\ e \in 2 .. n
  BY DEF Writing, WellFormed
<1>2. Len(c) \in Nat /\ n \in Nat /\ Len(w) = n /\ w \in Cells
  BY <1>1, LenNat DEF Embeds
<1>3. /\ d \in Cells /\ Len(d) = m + n /\ d[Len(c) + 1] = Doc
      /\ \A x \in 1 .. n : d[m + x] = w[x]
  BY <1>2 DEF Adds
<1>4. \A x \in 2 .. n - 1 : w[x] = b[x] /\ x \in 1 .. n
  BY <1>2 DEF Embeds
<1>5. w[1] = n /\ w[n] = NUL /\ (n = e \/ s \in K)
  BY DEF Embeds
<1>6. m \in Nat /\ s = m + 1 /\ s = 1 + m /\ s - 3 = Len(c) + 1
  BY <1>2
<1> HIDE DEF n, e, m
<1>7. e \in Nat /\ 2 <= e /\ e <= n /\ 1 \in 1 .. n /\ n \in 1 .. n
  BY <1>1, <1>2
<1>8. /\ d[s] = n /\ d[m + n] = NUL /\ d[s - 3] = Doc
      /\ \A x \in 2 .. n - 1 : d[m + x] = b[x]
  BY <1>3, <1>4, <1>5, <1>6, <1>7
<1>9. \A x \in 2 .. n - 1 : d[x + m] = b[x]
  <2>1. \A x \in 2 .. n - 1 : x + m = m + x
    BY <1>2, <1>6
  <2> QED BY <1>8, <2>1
<1>10. /\ P \in SUBSET Part /\ Apart(P)
       /\ \A t \in P : IsPart(b, RegexesIn(b, P), t) /\ t.to <= e /\ HasValue(b, t.from, t.to)
  <2>1. \A t \in P : /\ t \in Part /\ IsPart(b, RegexesIn(b, P), t) /\ t.to <= e
                    /\ HasValue(b, t.from, t.to)
    BY PartsAreParts DEF e
  <2>2. Apart(P)
    BY DEF WellFormed, IsNested, Apart
  <2> QED BY <2>1, <2>2
<1>11. \A t \in P : /\ t.from \in Nat /\ t.to \in Nat /\ t.within \in Nat
                    /\ t.within >= 1 /\ t.from >= 5 /\ t.from <= t.to /\ t.to <= e
  <2>1. SUFFICES ASSUME NEW t \in P
                 PROVE  /\ t.from \in Nat /\ t.to \in Nat /\ t.within \in Nat
                        /\ t.within >= 1 /\ t.from >= 5 /\ t.from <= t.to /\ t.to <= e
    OBVIOUS
  <2>2. t \in Part /\ IsPart(b, RegexesIn(b, P), t) /\ t.to <= e
    BY <1>10
  <2>3. /\ t.from \in Nat /\ t.to \in Nat /\ t.within \in Nat
        /\ t.within >= 1 /\ t.within + 4 <= t.from /\ t.from <= t.to
    BY <2>2, PartNumbers
  <2> QED BY <2>2, <2>3
<1>12. \A t \in P : Moved(b, d, t, m)
  <2>1. SUFFICES ASSUME NEW t \in P, NEW x \in t.from - 3 .. t.to - 1 PROVE d[x + m] = b[x]
    BY DEF Moved
  <2>2. /\ t.from \in Nat /\ t.to \in Nat /\ t.from >= 5 /\ t.from <= t.to /\ t.to <= e
    BY <1>11
  <2>3. x \in 2 .. n - 1
    BY <1>2, <1>7, <2>2
  <2> QED BY <1>9, <2>3
<1>13. \A t \in P : t.to + m <= Len(d)
  <2>1. SUFFICES ASSUME NEW t \in P PROVE t.to + m <= Len(d)
    OBVIOUS
  <2>2. t.to \in Nat /\ t.to <= e
    BY <1>11
  <2> QED BY <1>2, <1>3, <1>6, <1>7, <2>2
<1>14. \A t \in P : /\ Shifted(t, m) \in Part /\ IsPart(d, K, Shifted(t, m))
                    /\ d[Shifted(t, m).from - 3] = b[t.from - 3]
  <2>1. SUFFICES ASSUME NEW t \in P
                 PROVE  /\ Shifted(t, m) \in Part /\ IsPart(d, K, Shifted(t, m))
                        /\ d[Shifted(t, m).from - 3] = b[t.from - 3]
    OBVIOUS
  <2>2. /\ t \in Part /\ IsPart(b, RegexesIn(b, P), t) /\ Moved(b, d, t, m)
        /\ HasValue(b, t.from, t.to)
    BY <1>10, <1>12
  <2>3. t.to + m <= Len(d) + 1
    <3>1. t.to \in Nat /\ t.to + m <= Len(d)
      BY <1>11, <1>13
    <3> QED BY <1>2, <1>3, <1>6, <3>1
  <2>4. b \in Cells /\ d \in Cells /\ m \in Nat
    BY <1>1, <1>3, <1>6
  <2>5. b[t.from - 3] = Regex => t.from + m \in K
    <3>1. b[t.from - 3] = Regex => m + t.from \in K
      BY DEF RegexesIn, m
    <3>2. m + t.from = t.from + m
      BY <1>6, <1>11
    <3> QED BY <3>1, <3>2
  <2> QED BY <2>2, <2>3, <2>4, <2>5, ShiftedPart
<1> DEFINE N == {Shifted(t, m) : t \in P}
<1>15. N \in SUBSET Part /\ Apart(N)
  BY <1>6, <1>10, <1>14, ShiftedApart
<1>16. \A u \in N : IsPart(d, K, u) /\ u.within >= s /\ u.to < Len(d) + 1
  <2>1. SUFFICES ASSUME NEW t \in P
                 PROVE  /\ IsPart(d, K, Shifted(t, m)) /\ Shifted(t, m).within >= s
                        /\ Shifted(t, m).to < Len(d) + 1
    OBVIOUS
  <2>2. Shifted(t, m).within = t.within + m /\ Shifted(t, m).to = t.to + m
    BY DEF Shifted
  <2>3. t.within \in Nat /\ t.within >= 1 /\ t.to \in Nat /\ t.to + m <= Len(d)
    BY <1>11, <1>13
  <2>4. t.within + m >= s /\ t.to + m < Len(d) + 1
    BY <1>2, <1>3, <1>6, <2>3, SMTT(30)
  <2> QED BY <1>14, <2>2, <2>4
<1>22. MovedTo(b, P, d, N, m)
  BY <1>1, <1>6, <1>10, <1>12 DEF MovedTo
<1> HIDE DEF N
<1>17. Chained(d, N, K, s, Len(d) + 1)
  <2>1. SUFFICES ASSUME NEW x \in Bounds(N, s)
                 PROVE  /\ x < Len(d) + 1
                        /\ \/ Continues(d, N, s, x)
                           \/ d[x] = NUL /\ (x = (Len(d) + 1) - 1 \/ s \in K)
    BY DEF Chained
  <2>2. FollowEachOther(b, P, 1, e)
    BY DEF WellFormed, e
  <2>3. x \in Bounds(N, 1 + m)
    BY <1>6
  <2>4. PICK y \in Bounds(P, 1) :
          /\ y \in Nat /\ y >= 1 + 1 /\ x = y + m
          /\ \/ \E t \in P : t.from = y + 3 /\ t.within = 1 /\ Continues(d, N, 1 + m, x)
             \/ b[y] = NUL /\ y = e
    <3>1. 1 \in Nat
      OBVIOUS
    <3> QED BY <1>7, <1>22, <2>2, <2>3, <3>1, ShiftedBounds
  <2>5. ASSUME NEW t \in P, t.from = y + 3, Continues(d, N, 1 + m, x)
        PROVE  x < Len(d) + 1 /\ Continues(d, N, s, x)
    <3>1. t.from \in Nat /\ t.to \in Nat /\ t.from <= t.to /\ t.to + m <= Len(d)
      BY <1>11, <1>13
    <3>2. x < Len(d) + 1
      BY <1>2, <1>3, <1>6, <2>4, <2>5, <3>1
    <3> QED BY <1>6, <2>5, <3>2
  <2>6. ASSUME b[y] = NUL, y = e
        PROVE  x < Len(d) + 1 /\ d[x] = NUL /\ (x = (Len(d) + 1) - 1 \/ s \in K)
    <3>1. x = e + m
      BY <2>4, <2>6
    <3>2. x < Len(d) + 1
      BY <1>2, <1>3, <1>6, <1>7, <3>1
    <3>3. CASE e = n
      <4>1. x = m + n /\ x = (Len(d) + 1) - 1
        BY <1>2, <1>3, <1>6, <3>1, <3>3
      <4> QED BY <1>8, <3>2, <4>1
    <3>4. CASE e # n
      <4>1. e \in 2 .. n - 1
        BY <1>2, <1>7, <3>4
      <4> QED BY <1>5, <1>9, <2>6, <3>1, <3>2, <3>4, <4>1
    <3> QED BY <3>3, <3>4
  <2> QED BY <2>4, <2>5, <2>6
<1>18. ASSUME NEW u \in N, d[u.from - 3] \in {Doc, Array}
       PROVE  Chained(d, N, K, u.from, u.to)
  <2>1. PICK t \in P : u = Shifted(t, m)
    BY DEF N
  <2>2. u.from = t.from + m /\ u.to = t.to + m /\ b[t.from - 3] \in {Doc, Array}
    BY <1>14, <1>18, <2>1 DEF Shifted
  <2>3. /\ t.from \in Nat /\ t.to \in Nat /\ t.from >= 5 /\ t.from <= t.to /\ t.to <= e
    BY <1>11
  <2>4. FollowEachOther(b, P, t.from, t.to - 1)
    BY <2>2 DEF WellFormed, IsNested
  <2>5. SUFFICES ASSUME NEW x \in Bounds(N, t.from + m)
                 PROVE  /\ x < t.to + m
                        /\ \/ Continues(d, N, t.from + m, x)
                           \/ d[x] = NUL /\ x = (t.to + m) - 1
    BY <2>2 DEF Chained
  <2>6. t.to - 1 \in Nat
    BY <2>3
  <2>7. PICK y \in Bounds(P, t.from) :
          /\ y \in Nat /\ y >= t.from + 1 /\ x = y + m
          /\ \/ \E v \in P : v.from = y + 3 /\ v.within = t.from /\ Continues(d, N, t.from + m, x)
             \/ b[y] = NUL /\ y = t.to - 1
    BY <1>22, <2>3, <2>4, <2>5, <2>6, ShiftedBounds
  <2>8. ASSUME NEW v \in P, v.from = y + 3, v.within = t.from, Continues(d, N, t.from + m, x)
        PROVE  x < t.to + m
    <3>1. v.from \in Nat /\ v.to \in Nat /\ v.from <= v.to /\ v.to < t.to
      BY <1>10, <1>11, <2>8 DEF Apart
    <3>2. y < t.to
      BY <2>3, <2>7, <2>8, <3>1
    <3> QED BY <1>6, <2>3, <2>7, <3>2
  <2>9. ASSUME b[y] = NUL, y = t.to - 1
        PROVE  x < t.to + m /\ d[x] = NUL /\ x = (t.to + m) - 1
    <3>1. x < t.to + m /\ x = (t.to + m) - 1
      BY <1>6, <2>3, <2>7, <2>9
    <3>2. y \in t.from - 3 .. t.to - 1
      BY <2>3, <2>7, <2>9
    <3>3. d[y + m] = b[y]
      BY <1>12, <3>2 DEF Moved
    <3> QED BY <2>7, <2>9, <3>1, <3>3
  <2> QED BY <2>7, <2>8, <2>9
<1>19. Filled(d, K, s, Len(d) + 1, N)
  BY <1>15, <1>16, <1>17, <1>18 DEF Filled
<1>20. HasValue(d, s, Len(d) + 1)
  <2>1. ValueSize(Doc, d, s) = n /\ Doc # Regex /\ Doc # Null
    BY <1>8, SizeOfDocument
  <2>2. /\ s + n - 1 <= Len(d) /\ s <= Len(d) /\ Len(d) + 1 = s + n + 0 /\ s < Len(d) + 1
    <3>1. Len(d) = m + n
      BY <1>3
    <3>2. m \in Nat /\ n \in Nat /\ s = m + 1 /\ 2 <= n
      BY <1>2, <1>6, <1>7
    <3> QED BY <3>1, <3>2
  <2>3. Readable(Doc, d, s)
    BY <2>1, <2>2 DEF Readable
  <2> QED BY <1>8, <2>1, <2>2, <2>3 DEF HasValue, ValueEnd
<1>21. Doc \in Nat \ {0}
  BY DEF Doc
<1>23. IsNext(c, W, V, L, T, Doc, key, w, d, K, X, s, N)
  BY <1>2, <1>19, <1>20, <1>21, Ids19 DEF IsNext
<1> QED BY <1>23, NextWritten

-----------------------------------------------------------------------------
(* The steps of the serializer. *)

Started ==
  readers = <<>> /\ next = 0 /\ last = <<0, 0>>

CodecInv ==
  \/ ~reading /\ Started /\ \E T : Writing(out, writers, values, loose, T)
  \/ reading /\ \E T : Complete(out, values, loose, T) /\ Reading(T)

\* The element is counted in the document that is open.
LEMMA CountedAlike ==
  ASSUME NEW c, NEW W, NEW V, NEW L, NEW T, Writing(c, W, V, L, T), W = writers
  PROVE  /\ Alike(W, Codec!Counted)
         /\ Codec!Top(writers).index + 1 \in Nat \ {0}
<1>1. c \in Cells /\ Stack(c, W) /\ W \in Seq(WriterRecord)
  BY DEF Writing, Stack
<1>2. Len(W) \in Nat \ {0} /\ Len(W) \in 1 .. Len(W)
  BY <1>1, StackNumbers
<1>3. \A k \in 1 .. Len(W) : W[k] \in WriterRecord
  BY <1>1, ElementOfSeq
<1>4. W[Len(W)].index \in Nat
  BY <1>2, <1>3 DEF WriterRecord
<1> DEFINE r == [W[Len(W)] EXCEPT !.index = W[Len(W)].index + 1]
           X == [W EXCEPT ![Len(W)] = r]
<1>5. Codec!Counted = X
  BY DEF Codec!Counted
<1>6. r \in WriterRecord /\ r.offset = W[Len(W)].offset /\ r.at = W[Len(W)].at
  BY <1>2, <1>3, <1>4 DEF WriterRecord
<1> HIDE DEF r
<1>7. /\ X \in Seq(WriterRecord) /\ Len(X) = Len(W)
      /\ \A k \in 1 .. Len(W) : X[k] = IF k = Len(W) THEN r ELSE W[k]
  BY <1>1, <1>2, <1>6
<1>8. Alike(W, X)
  BY <1>6, <1>7 DEF Alike
<1> QED BY <1>4, <1>5, <1>8 DEF Codec!Top

LEMMA HeaderIs ==
  ASSUME NEW id
  PROVE  [Codec!Header EXCEPT ![1] = id] = <<id, Codec!Top(writers).index + 1, NUL>>
  BY CodecReads DEF Codec!Header

LEMMA OneLess ==
  ASSUME NEW n \in Nat \ {0}, n # 1
  PROVE  \E k \in Nat : k + 1 = n /\ k = n - 1 /\ k >= 1
<1>1. n - 1 \in Nat /\ (n - 1) + 1 = n /\ n - 1 >= 1
  OBVIOUS
<1> QED BY <1>1

\* The outermost document ends, or the one before goes on.
LEMMA EndStep ==
  ASSUME NEW T, Writing(out, writers, values, loose, T), Started, ~reading, Codec!End
  PROVE  CodecInv'
<1> DEFINE n == Len(writers)
           w == writers[n]
           o == w.offset
           a == w.at
           c == out
           d == out'
           ended == Append(c, NUL)
<1>1. c \in Cells /\ Stack(c, writers) /\ writers \in Seq(WriterRecord)
  BY DEF Writing, Stack
<1>2. /\ n \in Nat \ {0} /\ n \in 1 .. n /\ w \in WriterRecord
      /\ o \in 1 .. Len(c) /\ a \in Nat
  BY <1>1, StackNumbers
<1>3. w.type \in {Doc, Array} /\ Doc \in Nat /\ Array \in Nat
  BY <1>2 DEF WriterRecord, Doc, Array
<1>4. /\ d = [i \in DOMAIN ended |-> IF i = o THEN Len(ended) + 1 - o
                                     ELSE IF i = a THEN w.type ELSE ended[i]]
      /\ values' = values \cup {<<o, Len(ended) + 1>>}
      /\ writers' = Codec!Pop(writers) /\ reading' = (n = 1)
      /\ loose' = loose /\ Started'
  BY CodecReads DEF Codec!End, Codec!Top, Codec!reader, Started
<1>5. /\ ended \in Cells /\ Len(ended) = Len(c) + 1 /\ Len(c) \in Nat
      /\ DOMAIN ended = 1 .. Len(c) + 1
      /\ ended[Len(c) + 1] = NUL /\ \A x \in 1 .. Len(c) : ended[x] = c[x]
  BY <1>1, LenNat DEF Cells, NUL
<1>6. o # a
  <2>1. CASE n = 1
    BY <1>1, <2>1 DEF Stack
  <2>2. CASE n # 1
    <3>1. n \in 2 .. n
      BY <1>2, <2>2, SecondOrLater
    <3>2. o = a + 3
      BY <1>1, <3>1 DEF Stack
    <3> QED BY <1>2, <3>2
  <2> QED BY <2>1, <2>2
<1> HIDE DEF ended, o, a, w
<1>7. a <= Len(c)
  <2>1. a <= o
    <3>1. T = T /\ Tree(c, T, loose) /\ Beside(T, writers)
      BY DEF Writing
    <3> QED BY <1>1, <1>2, <3>1, StackApart DEF o, a, w
  <2> QED BY <1>2, <1>5, <2>1
<1>8. /\ d \in Cells /\ Len(d) = Len(c) + 1
      /\ \A x \in 1 .. Len(c) + 1 : d[x] = IF x = o THEN Len(c) + 1 + 1 - o
                                           ELSE IF x = a THEN w.type ELSE ended[x]
  <2> DEFINE f(x) == IF x = o THEN Len(c) + 1 + 1 - o ELSE IF x = a THEN w.type ELSE ended[x]
  <2>1. d = [x \in 1 .. Len(c) + 1 |-> f(x)]
    BY <1>4, <1>5
  <2>2. \A x \in 1 .. Len(c) + 1 : f(x) \in Nat
    <3>1. Len(c) + 1 + 1 - o \in Nat
      BY <1>2, <1>5
    <3>2. \A x \in 1 .. Len(c) + 1 : ended[x] \in Nat
      BY <1>5 DEF Cells
    <3> QED BY <1>3, <3>1, <3>2
  <2>3. \A x \in 1 .. Len(c) + 1 : d[x] = f(x)
    BY <2>1
  <2> HIDE DEF f
  <2>4. d \in Seq(Nat) /\ Len(d) = Len(c) + 1
    <3>1. d \in [1 .. Len(c) + 1 -> Nat] /\ Len(c) + 1 \in Nat
      BY <1>5, <2>1, <2>2
    <3> QED BY <3>1, SeqDef, LenProperties
  <2> QED BY <2>3, <2>4 DEF Cells, f
<1> HIDE DEF d
<1>9. Closes(c, d, o, a)
  <2>1. d[Len(c) + 1] = NUL
    <3>1. Len(c) + 1 # o /\ Len(c) + 1 # a /\ Len(c) + 1 \in 1 .. Len(c) + 1
      BY <1>2, <1>5, <1>7
    <3> QED BY <1>5, <1>8, <3>1
  <2>2. d[o] = Len(d) + 1 - o
    <3>1. o \in 1 .. Len(c) + 1
      BY <1>2, <1>5
    <3> QED BY <1>8, <3>1
  <2>3. a >= 1 => d[a] \in {Doc, Array}
    <3>1. a >= 1 => a \in 1 .. Len(c) + 1
      BY <1>2, <1>5, <1>7
    <3> QED BY <1>3, <1>6, <1>8, <3>1
  <2>4. \A x \in 1 .. Len(c) : x = o \/ x = a \/ d[x] = c[x]
    <3>1. \A x \in 1 .. Len(c) : x \in 1 .. Len(c) + 1
      BY <1>5
    <3> QED BY <1>5, <1>8, <3>1
  <2> QED BY <1>8, <2>1, <2>2, <2>3, <2>4 DEF Closes
<1>10. values' = values \cup {<<o, Len(d) + 1>>}
  BY <1>4, <1>5, <1>8
<1>11. CASE n = 1
  <2>1. o = 1 /\ a = 0
    BY <1>1, <1>11 DEF Stack, o, a, w
  <2>2. Complete(d, values \cup {<<1, Len(d) + 1>>}, loose, T)
    BY <1>9, <1>11, <2>1, LastEnded
  <2>3. Complete(out', values', loose', T)
    BY <1>4, <1>10, <2>1, <2>2 DEF d
  <2>4. reading'
    BY <1>4, <1>11
  <2>5. Reading(T)'
    BY <1>4 DEF Started, Reading, OnPath, AtPlace, WasRead
  <2> QED BY <2>3, <2>4, <2>5 DEF CodecInv
<1>12. CASE n # 1
  <2>1. PICK k \in Nat : k + 1 = n /\ k = n - 1 /\ k >= 1
    BY <1>2, <1>12, OneLess
  <2>2. /\ writers' \in Seq(WriterRecord) /\ Len(writers') = k
        /\ \A i \in 1 .. k : writers'[i] = writers[i]
    <3>1. \A i \in 1 .. k : i \in 1 .. n
      BY <1>2, <2>1
    <3>2. \A i \in 1 .. k : writers[i] \in WriterRecord
      BY <1>1, <3>1, ElementOfSeq
    <3>3. /\ SubSeq(writers, 1, k) \in Seq(WriterRecord)
          /\ Len(SubSeq(writers, 1, k)) = IF 1 <= k THEN k - 1 + 1 ELSE 0
          /\ \A i \in 1 .. k - 1 + 1 : SubSeq(writers, 1, k)[i] = writers[1 + i - 1]
      BY <3>2, SubSeqProperties
    <3>4. writers' = SubSeq(writers, 1, k)
      BY <1>4, <2>1 DEF Codec!Pop
    <3> QED BY <2>1, <3>3, <3>4
  <2> DEFINE p == [from |-> o, to |-> Len(d) + 1, within |-> writers[k].offset]
  <2>3. /\ o = writers[k + 1].offset /\ a = writers[k + 1].at
        /\ p = [from |-> writers[k + 1].offset, to |-> Len(d) + 1, within |-> writers[k].offset]
        /\ p.from = o /\ p.to = Len(d) + 1
    BY <2>1 DEF o, a, w
  <2> HIDE DEF p
  <2>4. Writing(d, writers', values \cup {<<p.from, p.to>>}, loose, T \cup {p})
    <3>1. Closes(out, d, writers[k + 1].offset, writers[k + 1].at) /\ k + 1 = Len(writers)
      BY <1>9, <2>1, <2>3
    <3>2. /\ writers' \in Seq(WriterRecord) /\ Len(writers') = k
          /\ \A i \in 1 .. k : writers'[i] = writers[i]
      BY <2>2
    <3> HIDE DEF n, c
    <3> QED BY <2>1, <2>3, <3>1, <3>2, DocumentEnded
  <2>5. Writing(out', writers', values', loose', T \cup {p})
    BY <1>4, <1>10, <2>3, <2>4 DEF d
  <2>6. ~reading'
    BY <1>4, <1>12
  <2> QED BY <1>4, <2>5, <2>6 DEF CodecInv
<1> QED BY <1>11, <1>12

LEMMA WriteAdds ==
  ASSUME NEW T, Writing(out, writers, values, loose, T), NEW v, v.cells \in Cells, v.id \in Nat,
         NEW key \in Nat, NEW odd, Codec!WriteUnder(key, v, odd)
  PROVE  /\ Adds(out, out', v.id, key, v.cells)
         /\ writers' = Codec!Counted
         /\ values' = values \cup {<<Len(out) + 4, Len(out') + 1>>}
         /\ loose' = loose \cup {Len(out) + 3 + i : i \in odd}
         /\ reading' = reading /\ UNCHANGED <<readers, next, last>>
<1>1. /\ out' = (out \o <<v.id, key, NUL>>) \o v.cells
      /\ writers' = Codec!Counted
      /\ values' = values \cup {<<Len(out) + 4, Len(out') + 1>>}
      /\ loose' = loose \cup {Len(out) + 3 + i : i \in odd}
      /\ reading' = reading /\ UNCHANGED <<readers, next, last>>
  BY CodecReads DEF Codec!WriteUnder, Codec!reader
<1>2. out \in Cells
  BY DEF Writing
<1>3. Adds(out, (out \o <<v.id, key, NUL>>) \o v.cells, v.id, key, v.cells)
  BY <1>2, CellsLaid
<1> QED BY <1>1, <1>3

LEMMA ScalarStep ==
  ASSUME NEW T, Writing(out, writers, values, loose, T), Started, ~reading, Codec!WriteScalar
  PROVE  CodecInv'
<1>1. PICK v \in Scalars : Codec!WriteUnder(Codec!Top(writers).index + 1, v, {})
  BY DEF Codec!WriteScalar, Codec!Write
<1>2. IsWhole(v) /\ v.id \notin {Doc, Array, Regex}
  BY BsonAssumption, CodecReads DEF Codec!ScalarAssumption
<1>3. v.cells \in Cells /\ v.id \in Nat
  BY <1>2, ReadableIds DEF IsWhole, Cells
<1> DEFINE key == Codec!Top(writers).index + 1
<1>4. key \in Nat \ {0} /\ Alike(writers, Codec!Counted)
  BY CountedAlike
<1>5. /\ Adds(out, out', v.id, key, v.cells) /\ writers' = Codec!Counted
      /\ values' = values \cup {<<Len(out) + 4, Len(out') + 1>>} /\ loose' = loose
      /\ reading' = reading /\ UNCHANGED <<readers, next, last>>
  <2>1. key \in Nat /\ Codec!WriteUnder(key, v, {})
    BY <1>1, <1>4
  <2> HIDE DEF key
  <2>2. loose \cup {Len(out) + 3 + i : i \in {}} = loose
    OBVIOUS
  <2> QED BY <1>3, <2>1, <2>2, WriteAdds
<1> HIDE DEF key
<1>6. Alike(writers, writers')
  BY <1>4, <1>5
<1>7. \E U : Writing(out', writers', values \cup {<<Len(out) + 4, Len(out') + 1>>}, loose, U)
  BY <1>2, <1>4, <1>5, <1>6, PlainWritten
<1>8. \E U : Writing(out', writers', values', loose', U)
  BY <1>5, <1>7
<1> QED BY <1>5, <1>8 DEF CodecInv, Started

\* A value that is written without its size.
LEMMA OddStep ==
  ASSUME NEW T, Writing(out, writers, values, loose, T), Started, ~reading,
         NEW key \in Nat \ {0}, NEW id \in Odd, NEW w \in Cells,
         Codec!WriteUnder(key, [id |-> id, cells |-> w], {1})
  PROVE  CodecInv'
<1> DEFINE v == [id |-> id, cells |-> w]
<1>1. v.id = id /\ v.cells = w /\ id \in Nat /\ key \in Nat /\ Codec!WriteUnder(key, v, {1})
  BY Ids19
<1> HIDE DEF v
<1>2. /\ Adds(out, out', id, key, w) /\ writers' = Codec!Counted
      /\ values' = values \cup {<<Len(out) + 4, Len(out') + 1>>}
      /\ loose' = loose \cup {Len(out) + 3 + i : i \in {1}}
      /\ reading' = reading /\ UNCHANGED <<readers, next, last>>
  BY <1>1, WriteAdds
<1>3. loose' = loose \cup {Len(out) + 4}
  <2>1. Len(out) + 3 + 1 = Len(out) + 4
    BY LenNat DEF Writing
  <2> QED BY <1>2, <2>1
<1>4. Alike(writers, writers')
  BY <1>2, CountedAlike
<1>5. \E U : Writing(out', writers', values \cup {<<Len(out) + 4, Len(out') + 1>>},
                     loose \cup {Len(out) + 4}, U)
  BY <1>2, <1>4, OddWritten
<1>6. \E U : Writing(out', writers', values', loose', U)
  BY <1>2, <1>3, <1>5
<1> QED BY <1>2, <1>6 DEF CodecInv, Started

LEMMA JavaScriptStep ==
  ASSUME NEW T, Writing(out, writers, values, loose, T), Started, ~reading, Codec!WriteJavaScript
  PROVE  CodecInv'
<1> DEFINE w == <<0>> \o Codec!StrValue(<<9>>).cells \o <<9>> \o <<Codec!NUL>>
           z == Codec!DocValue(Codec!Doc, <<Codec!NUL>>).cells
           key == Codec!Top(writers).index + 1
<1>1. \/ Codec!WriteUnder(key, [id |-> JavaScript, cells |-> w], {1})
      \/ Codec!WriteUnder(key, [id |-> JavaScriptWithScope, cells |-> w \o z], {1})
  BY CodecIds DEF Codec!WriteJavaScript, Codec!Write
<1>2. w \in Cells
  BY DEF Codec!StrValue, Codec!NUL, Cells
<1>3. z \in Cells
  BY DEF Codec!DocValue, Codec!NUL, Cells
<1> HIDE DEF w, z
<1>4. w \o z \in Cells
  BY <1>2, <1>3, CellsConcat
<1>5. key \in Nat \ {0}
  BY CountedAlike
<1>6. JavaScript \in Odd /\ JavaScriptWithScope \in Odd
  BY DEF Odd
<1> HIDE DEF key
<1>7. CASE Codec!WriteUnder(key, [id |-> JavaScript, cells |-> w], {1})
  BY <1>2, <1>5, <1>6, <1>7, OddStep
<1>8. CASE Codec!WriteUnder(key, [id |-> JavaScriptWithScope, cells |-> w \o z], {1})
  <2> DEFINE y == w \o z
  <2>1. y \in Cells /\ Codec!WriteUnder(key, [id |-> JavaScriptWithScope, cells |-> y], {1})
    BY <1>4, <1>8
  <2> HIDE DEF y
  <2> QED BY <1>5, <1>6, <2>1, OddStep
<1> QED BY <1>1, <1>7, <1>8

LEMMA BinaryStep ==
  ASSUME NEW T, Writing(out, writers, values, loose, T), Started, ~reading, Codec!WriteBinary
  PROVE  CodecInv'
<1> DEFINE w == <<9>> \o <<0, 0>>
<1>1. Codec!WriteUnder(Len(<<9>>), [id |-> Binary, cells |-> w], {1})
  BY CodecIds DEF Codec!WriteBinary
<1>2. w \in Cells /\ Len(<<9>>) = 1 /\ 1 \in Nat \ {0} /\ Binary \in Odd
  BY DEF Cells, Odd
<1> HIDE DEF w
<1> QED BY <1>1, <1>2, OddStep

LEMMA EmbeddedIs ==
  ASSUME NEW b, NEW P, WellFormed(b, P)
  PROVE  /\ Codec!Embedded(b).id = Doc
         /\ Embeds(Codec!Embedded(b).cells, b)
<1>1. b \in Cells /\ Len(b) \in Nat /\ Len(b) >= 2
  <2>1. b \in Cells /\ b[1] \in 2 .. Len(b)
    BY DEF WellFormed
  <2> QED BY <2>1, LenNat
<1> DEFINE n == Len(b)
           inner == SubSeq(b, 2, n - 1)
           body == inner \o <<NUL>>
           w == <<Len(body) + 1>> \o body
<1>2. Codec!Embedded(b).id = Doc /\ Codec!Embedded(b).cells = w
  BY CodecReads DEF Codec!Embedded, Codec!DocValue
<1> HIDE DEF w, body
<1>3. /\ inner \in Cells /\ Len(inner) = n - 2
      /\ \A x \in 1 .. n - 2 : inner[x] = b[x + 1]
  <2>1. \A x \in 2 .. n - 1 : b[x] \in Nat
    BY <1>1 DEF Cells
  <2>2. 2 \in Nat \ {0} /\ n - 1 \in Nat
    BY <1>1
  <2>3. /\ inner \in Seq(Nat) /\ Len(inner) = (IF 2 <= n - 1 THEN (n - 1) - 2 + 1 ELSE 0)
        /\ \A x \in 1 .. (n - 1) - 2 + 1 : inner[x] = b[2 + x - 1]
    BY <2>1, <2>2, SubSeqProperties
  <2> HIDE DEF inner
  <2>4. (n - 1) - 2 + 1 = n - 2
    BY <1>1
  <2>5. Len(inner) = n - 2
    <3> HIDE DEF n
    <3>1. CASE 2 <= n - 1
      BY <2>3, <2>4, <3>1
    <3>2. CASE ~(2 <= n - 1)
      <4>1. n \in Nat /\ n >= 2
        BY <1>1 DEF n
      <4>2. n = 2
        BY <3>2, <4>1
      <4> QED BY <2>3, <3>2, <4>2
    <3> QED BY <3>1, <3>2
  <2>6. \A x \in 1 .. n - 2 : 2 + x - 1 = x + 1
    BY <1>1
  <2> QED BY <2>3, <2>4, <2>5, <2>6 DEF Cells
<1> HIDE DEF inner
<1>4. /\ body \in Cells /\ Len(body) = n - 1 /\ body[n - 1] = NUL
      /\ \A x \in 1 .. n - 2 : body[x] = b[x + 1]
  <2>1. <<NUL>> \in Cells /\ Len(<<NUL>>) = 1 /\ <<NUL>>[1] = NUL
    BY DEF Cells, NUL
  <2>2. /\ body \in Cells /\ Len(body) = Len(inner) + 1
        /\ \A x \in 1 .. Len(inner) : body[x] = inner[x]
        /\ \A x \in 1 .. 1 : body[Len(inner) + x] = <<NUL>>[x]
    BY <1>3, <2>1, CellsConcat DEF body
  <2>3. body[Len(inner) + 1] = NUL
    BY <2>1, <2>2
  <2>4. Len(inner) + 1 = n - 1
    BY <1>1, <1>3
  <2> QED BY <1>3, <2>2, <2>3, <2>4
<1>5. /\ w \in Cells /\ Len(w) = n /\ w[1] = n
      /\ \A x \in 1 .. n - 1 : w[1 + x] = body[x]
  <2> DEFINE h == <<Len(body) + 1>>
  <2>1. h \in Cells /\ Len(h) = 1 /\ h[1] = n
    BY <1>1, <1>4 DEF Cells
  <2> HIDE DEF h
  <2>2. /\ h \o body \in Cells /\ Len(h \o body) = Len(h) + Len(body)
        /\ \A x \in 1 .. Len(h) : (h \o body)[x] = h[x]
        /\ \A x \in 1 .. Len(body) : (h \o body)[Len(h) + x] = body[x]
    BY <1>4, <2>1, CellsConcat, Zenon
  <2>3. (h \o body)[1] = n
    BY <2>1, <2>2
  <2>4. 1 + Len(body) = n
    BY <1>1, <1>4
  <2>5. w = h \o body
    BY DEF h, w
  <2> QED BY <1>4, <2>1, <2>2, <2>3, <2>4, <2>5
<1>6. w[n] = NUL
  <2>1. n - 1 \in 1 .. n - 1 /\ 1 + (n - 1) = n
    BY <1>1
  <2> QED BY <1>4, <1>5, <2>1
<1>7. \A x \in 2 .. n - 1 : w[x] = b[x]
  <2>1. SUFFICES ASSUME NEW x \in 2 .. n - 1 PROVE w[x] = b[x]
    OBVIOUS
  <2>2. x - 1 \in 1 .. n - 2 /\ x - 1 \in 1 .. n - 1 /\ 1 + (x - 1) = x /\ (x - 1) + 1 = x
    BY <1>1
  <2> QED BY <1>4, <1>5, <2>2
<1> QED BY <1>2, <1>5, <1>6, <1>7 DEF Embeds

LEMMA DocumentStep ==
  ASSUME NEW T, Writing(out, writers, values, loose, T), Started, ~reading, Codec!WriteDocument
  PROVE  CodecInv'
<1>1. PICK b \in Documents :
        Codec!WriteUnder(Codec!Top(writers).index + 1, Codec!Embedded(b),
                         Codec!Regexes(b) \cup IF Codec!HasJunk(b) THEN {1} ELSE {})
  BY DEF Codec!WriteDocument, Codec!Write
<1> DEFINE odd == Codec!Regexes(b) \cup IF Codec!HasJunk(b) THEN {1} ELSE {}
           P == Codec!Parts(b)
           w == Codec!Embedded(b).cells
           s == Len(out) + 4
<1>2. WellFormed(b, P)
  BY BsonAssumption, CodecReads DEF Codec!DocumentsAssumption, WellFormed, Cells
<1>0. Codec!Regexes(b) = RegexesIn(b, P)
  BY CodecReads DEF Codec!Regexes, RegexesIn
<1> HIDE DEF P
<1>3. Codec!Embedded(b).id = Doc /\ Embeds(w, b) /\ w \in Cells /\ Doc \in Nat
  BY <1>2, EmbeddedIs DEF Embeds, Doc
<1> DEFINE key == Codec!Top(writers).index + 1
<1>4. key \in Nat \ {0} /\ Alike(writers, Codec!Counted)
  BY CountedAlike
<1>5. /\ Adds(out, out', Doc, key, w) /\ writers' = Codec!Counted
      /\ values' = values \cup {<<s, Len(out') + 1>>}
      /\ loose' = loose \cup {Len(out) + 3 + i : i \in odd}
      /\ reading' = reading /\ UNCHANGED <<readers, next, last>>
  <2> HIDE DEF odd
  <2>1. Codec!WriteUnder(key, Codec!Embedded(b), odd)
    BY <1>1 DEF odd
  <2>2. key \in Nat
    BY <1>4
  <2> HIDE DEF key
  <2> QED BY <1>3, <2>1, <2>2, WriteAdds
<1>6. /\ loose \subseteq loose' /\ (Len(b) = b[1] \/ s \in loose')
      /\ \A i \in RegexesIn(b, P) : Len(out) + 3 + i \in loose'
  <2>1. \A i \in RegexesIn(b, P) : i \in odd
    BY <1>0
  <2>2. Len(b) = b[1] \/ 1 \in odd
    BY DEF Codec!HasJunk
  <2>3. Len(out) + 3 + 1 = s
    BY LenNat DEF Writing
  <2> HIDE DEF odd, s
  <2> QED BY <1>5, <2>1, <2>2, <2>3
<1> HIDE DEF key, w, odd
<1>7. Alike(writers, writers')
  BY <1>4, <1>5
<1>8. s = Len(out) + 4
  OBVIOUS
<1> HIDE DEF s
<1>9. \E U : Writing(out', writers', values \cup {<<s, Len(out') + 1>>}, loose', U)
  <2>1. /\ Writing(out, writers, values, loose, T) /\ key \in Nat \ {0}
        /\ WellFormed(b, P) /\ Embeds(w, b) /\ Adds(out, out', Doc, key, w)
        /\ Alike(writers, writers') /\ s = Len(out) + 4
        /\ loose \subseteq loose' /\ (Len(b) = b[1] \/ s \in loose')
        /\ \A i \in RegexesIn(b, P) : Len(out) + 3 + i \in loose'
    BY <1>2, <1>3, <1>4, <1>5, <1>6, <1>7, <1>8
  <2> QED BY <2>1, EmbeddedWritten
<1>10. \E U : Writing(out', writers', values', loose', U)
  BY <1>5, <1>9
<1> QED BY <1>5, <1>10 DEF CodecInv, Started

LEMMA TakenBack ==
  ASSUME NEW a \in Cells, NEW x \in Nat
  PROVE  SubSeq(a \o <<x>>, 1, Len(a \o <<x>>) - 1) = a
<1> DEFINE z == a \o <<x>>
           y == SubSeq(z, 1, Len(a))
<1>1. /\ z \in Cells /\ Len(z) = Len(a) + 1 /\ Len(a) \in Nat
      /\ \A i \in 1 .. Len(a) : z[i] = a[i]
  <2> DEFINE h == <<x>>
  <2>1. h \in Cells /\ Len(h) = 1
    BY DEF Cells
  <2> HIDE DEF h
  <2>2. /\ a \o h \in Cells /\ Len(a \o h) = Len(a) + Len(h) /\ Len(a) \in Nat
        /\ \A i \in 1 .. Len(a) : (a \o h)[i] = a[i]
    BY <2>1, CellsConcat, Zenon
  <2> QED BY <2>1, <2>2 DEF h
<1> HIDE DEF z
<1>2. Len(z) - 1 = Len(a)
  BY <1>1
<1>3. y \in Seq(Nat) /\ Len(y) = Len(a) /\ \A i \in 1 .. Len(a) : y[i] = a[i]
  <2>1. \A i \in 1 .. Len(a) : z[i] \in Nat
    BY <1>1 DEF Cells
  <2>2. 1 \in Nat \ {0}
    OBVIOUS
  <2>3. /\ y \in Seq(Nat) /\ Len(y) = (IF 1 <= Len(a) THEN Len(a) - 1 + 1 ELSE 0)
        /\ \A i \in 1 .. Len(a) - 1 + 1 : y[i] = z[1 + i - 1]
    BY <1>1, <2>1, <2>2, SubSeqProperties
  <2> HIDE DEF y
  <2>4. Len(a) - 1 + 1 = Len(a) /\ \A i \in 1 .. Len(a) : 1 + i - 1 = i
    BY <1>1
  <2>5. Len(y) = Len(a)
    <3>1. CASE 1 <= Len(a)
      BY <2>3, <2>4, <3>1
    <3>2. CASE ~(1 <= Len(a))
      BY <1>1, <2>3, <3>2
    <3> QED BY <3>1, <3>2
  <2> QED BY <1>1, <2>3, <2>4, <2>5
<1> HIDE DEF y
<1>4. y = a
  BY <1>3, SeqEqual DEF Cells
<1> QED BY <1>2, <1>4 DEF y, z

LEMMA RegexCells == <<9>> \o <<NUL>> \o <<>> \o <<NUL>> = <<9, NUL, NUL>>
<1> DEFINE a == <<9>> \o <<NUL>>
           b == a \o <<NUL>>
<1>1. <<NUL>> \in Cells /\ Len(<<NUL>>) = 1 /\ <<NUL>>[1] = NUL
  BY DEF Cells, NUL
<1>2. <<9>> \in Cells /\ Len(<<9>>) = 1 /\ <<9>>[1] = 9
  BY DEF Cells
<1>3. a \in Cells /\ Len(a) = 2 /\ a[1] = 9 /\ a[2] = NUL
  <2>1. /\ a \in Cells /\ Len(a) = Len(<<9>>) + Len(<<NUL>>)
        /\ \A i \in 1 .. Len(<<9>>) : a[i] = <<9>>[i]
        /\ \A i \in 1 .. Len(<<NUL>>) : a[Len(<<9>>) + i] = <<NUL>>[i]
    BY <1>1, <1>2, CellsConcat, Zenon
  <2>2. 1 \in 1 .. 1 /\ 1 + 1 = 2
    OBVIOUS
  <2> HIDE DEF a
  <2> QED BY <1>1, <1>2, <2>1, <2>2
<1> HIDE DEF a
<1>4. b \in Cells /\ Len(b) = 3 /\ b[1] = 9 /\ b[2] = NUL /\ b[3] = NUL
  <2>1. /\ b \in Cells /\ Len(b) = Len(a) + Len(<<NUL>>)
        /\ \A i \in 1 .. Len(a) : b[i] = a[i]
        /\ \A i \in 1 .. Len(<<NUL>>) : b[Len(a) + i] = <<NUL>>[i]
    BY <1>1, <1>3, CellsConcat, Zenon
  <2>2. 1 \in 1 .. 2 /\ 2 \in 1 .. 2 /\ 1 \in 1 .. 1 /\ 2 + 1 = 3
    OBVIOUS
  <2> HIDE DEF b
  <2> QED BY <1>1, <1>3, <2>1, <2>2
<1>5. a \o <<>> = a
  BY <1>3 DEF Cells
<1> HIDE DEF b
<1>6. b = <<9, NUL, NUL>>
  <2> DEFINE d == <<9, NUL, NUL>>
  <2>1. d \in Seq(Nat) /\ Len(d) = 3 /\ d[1] = 9 /\ d[2] = NUL /\ d[3] = NUL
    BY DEF NUL
  <2> HIDE DEF d
  <2>2. \A i \in 1 .. 3 : b[i] = d[i]
    BY <1>4, <2>1
  <2>3. b = d
    BY <1>4, <2>1, <2>2, SeqEqual DEF Cells
  <2> QED BY <2>3 DEF d
<1> QED BY <1>5, <1>6 DEF a, b

LEMMA SpecialStep ==
  ASSUME NEW T, Writing(out, writers, values, loose, T), Started, ~reading, Codec!WriteSpecial
  PROVE  CodecInv'
<1> DEFINE key == Codec!Top(writers).index + 1
<1>1. key \in Nat \ {0} /\ Alike(writers, Codec!Counted) /\ out \in Cells
  BY CountedAlike DEF Writing
<1>2. PICK kind \in Specials :
        LET opened == out \o [Codec!Header EXCEPT ![1] = Codec!Special[kind].id] \o <<0>>
        IN  /\ out' = Codec!TakeLengthBack(opened) \o Codec!Special[kind].cells
            /\ values' = values \cup {<<Len(out) + 4, Len(out) + 4 + Len(Codec!Special[kind].cells)>>}
            /\ loose' = IF Codec!Special[kind].id = Codec!Regex THEN loose \cup {Len(out) + 4} ELSE loose
  BY DEF Codec!WriteSpecial
<1> DEFINE v == Codec!Special[kind]
           id == v.id
           w == v.cells
<1>3. /\ writers' = Codec!Counted /\ reading' = reading
      /\ UNCHANGED <<readers, next, last>>
  BY DEF Codec!WriteSpecial, Codec!reader
<1>4. \/ id \in {ObjectId, DateTime, Timestamp} /\ w = <<7>>
      \/ id = Regex /\ w = <<9, NUL, NUL>>
  <2>1. kind \in {"oid", "date", "regularExpression", "timestamp"}
    BY BsonAssumption DEF Codec!SpecialAssumption
  <2>2. CASE kind = "oid"
    BY <2>2, CodecIds DEF Codec!Special, Codec!FixedValue, ObjectId, Null
  <2>3. CASE kind = "date"
    BY <2>3, CodecIds DEF Codec!Special, Codec!FixedValue, DateTime, Null
  <2>4. CASE kind = "timestamp"
    BY <2>4, CodecIds DEF Codec!Special, Codec!FixedValue, Timestamp, Null
  <2>5. CASE kind = "regularExpression"
    <3>1. Codec!RegexValue(<<9>>, <<>>) = [id |-> Regex, cells |-> <<9>> \o <<NUL>> \o <<>> \o <<NUL>>]
      BY CodecReads DEF Codec!RegexValue
    <3>2. <<9>> \o <<NUL>> \o <<>> \o <<NUL>> = <<9, NUL, NUL>>
      BY RegexCells
    <3>3. v = Codec!RegexValue(<<9>>, <<>>)
      BY <2>5 DEF Codec!Special
    <3> QED BY <3>1, <3>2, <3>3
  <2> QED BY <2>1, <2>2, <2>3, <2>4, <2>5
<1>5. w \in Cells /\ id \in Nat
  <2> HIDE DEF v, id, w
  <2>1. <<7>> \in Cells /\ <<9, NUL, NUL>> \in Cells
    BY DEF Cells, NUL
  <2>2. ObjectId \in Nat /\ DateTime \in Nat /\ Timestamp \in Nat /\ Regex \in Nat
    BY DEF ObjectId, DateTime, Timestamp, Regex
  <2>3. w \in Cells
    BY <1>4, <2>1 DEF id, w
  <2>4. id \in Nat
    BY <1>4, <2>2 DEF id, w
  <2> QED BY <2>3, <2>4
<1>6. out' = (out \o <<id, key, NUL>>) \o w
  <2> DEFINE a == out \o <<id, key, NUL>>
  <2>1. Codec!TakeLengthBack(a \o <<0>>) = a
    <3>1. a \in Cells
      <4>1. <<id, key, NUL>> \in Cells
        BY <1>1, <1>5 DEF Cells, NUL
      <4> QED BY <1>1, <4>1, CellsConcat
    <3> HIDE DEF a
    <3>2. SubSeq(a \o <<0>>, 1, Len(a \o <<0>>) - 1) = a
      BY <3>1, TakenBack
    <3> QED BY <3>2 DEF Codec!TakeLengthBack, Codec!Pop
  <2>2. out' = Codec!TakeLengthBack(a \o <<0>>) \o w
    <3>1. out' = Codec!TakeLengthBack(out \o [Codec!Header EXCEPT ![1] = id] \o <<0>>) \o w
      BY <1>2
    <3> QED BY <3>1, HeaderIs
  <2> QED BY <2>1, <2>2
<1>7. /\ values' = values \cup {<<Len(out) + 4, Len(out) + 4 + Len(w)>>}
      /\ loose' = IF id = Regex THEN loose \cup {Len(out) + 4} ELSE loose
  BY <1>2, CodecReads
<1> HIDE DEF v, id, w, key
<1>8. Adds(out, out', id, key, w)
  BY <1>1, <1>5, <1>6, CellsLaid
<1>9. Len(out) + 4 + Len(w) = Len(out') + 1
  BY <1>1, <1>5, <1>8, LenNat DEF Adds
<1>10. Alike(writers, writers')
  BY <1>1, <1>3
<1>11. \E U : Writing(out', writers', values \cup {<<Len(out) + 4, Len(out') + 1>>}, loose', U)
  <2>1. CASE id \in {ObjectId, DateTime, Timestamp} /\ w = <<7>>
    <3> DEFINE x == [id |-> id, cells |-> w]
    <3>1. id \in DOMAIN FixedSize /\ FixedSize[id] = 1 /\ id # Null /\ id \notin {Doc, Array, Regex}
      BY <2>1 DEF FixedSize, ObjectId, DateTime, Timestamp, Null, Doc, Array, Regex
    <3>2. ValueSize(id, w, 1) = 1 /\ Len(w) = 1
      BY <2>1, <3>1, SizeOfFixed
    <3>3. Readable(id, w, 1)
      BY <3>1, <3>2 DEF Readable
    <3>4. IsWhole(x) /\ x.id = id /\ x.cells = w
      BY <1>5, <3>2, <3>3 DEF IsWhole, Cells
    <3> HIDE DEF x
    <3>5. loose' = loose
      BY <1>7, <3>1
    <3> QED BY <1>1, <1>8, <1>10, <3>1, <3>4, <3>5, PlainWritten
  <2>2. CASE id = Regex /\ w = <<9, NUL, NUL>>
    <3>1. Adds(out, out', Regex, key, <<9, NUL, NUL>>)
      BY <1>8, <2>2
    <3>2. loose' = loose \cup {Len(out) + 4}
      BY <1>7, <2>2
    <3> QED BY <1>1, <1>10, <3>1, <3>2, RegexWritten
  <2> QED BY <1>4, <2>1, <2>2 DEF id, w
<1>12. \E U : Writing(out', writers', values', loose', U)
  BY <1>7, <1>9, <1>11
<1> QED BY <1>3, <1>12 DEF CodecInv, Started

LEMMA OpenStep ==
  ASSUME NEW T, Writing(out, writers, values, loose, T), Started, ~reading, Codec!OpenNested
  PROVE  CodecInv'
<1> DEFINE key == Codec!Top(writers).index + 1
           n == Len(writers)
           C == Codec!Counted
<1>1. key \in Nat \ {0} /\ Alike(writers, C) /\ out \in Cells
  BY CountedAlike DEF Writing
<1>2. PICK type \in {Codec!Doc, Codec!Array} :
        writers' = Append(C, Codec!NewWriter(Len(out) + 1, Len(out) + 4, type))
  BY DEF Codec!OpenNested
<1>3. /\ out' = (out \o Codec!Header) \o <<0>> /\ values' = values /\ loose' = loose
      /\ reading' = reading /\ UNCHANGED <<readers, next, last>>
  BY DEF Codec!OpenNested, Codec!reader
<1>4. Codec!Header = <<0, key, NUL>>
  BY CodecReads DEF Codec!Header
<1>5. <<0>> \in Cells /\ Len(<<0>>) = 1
  BY DEF Cells
<1> DEFINE r == [at |-> Len(out) + 1, offset |-> Len(out) + 4, index |-> 0, type |-> type]
<1>6. Codec!NewWriter(Len(out) + 1, Len(out) + 4, type) = r
  BY DEF Codec!NewWriter
<1>7. Len(out) \in Nat
  BY <1>1, LenNat
<1>8. r \in WriterRecord /\ r.offset = Len(out) + 4 /\ r.at = Len(out) + 1
  BY <1>7, CodecReads DEF WriterRecord
<1> HIDE DEF r
<1>9. /\ C \in Seq(WriterRecord) /\ Len(C) = n /\ n \in Nat
      /\ \A k \in 1 .. n : C[k].offset = writers[k].offset /\ C[k].at = writers[k].at
  <2>1. /\ C \in Seq(WriterRecord) /\ Len(C) = n
        /\ \A k \in 1 .. n : C[k].offset = writers[k].offset /\ C[k].at = writers[k].at
    BY <1>1 DEF Alike
  <2> HIDE DEF C
  <2>2. Len(C) \in Nat
    BY <2>1
  <2> QED BY <2>1, <2>2
<1> HIDE DEF C, key
<1>10. Adds(out, (out \o <<0, key, NUL>>) \o <<0>>, 0, key, <<0>>)
  <2>1. key \in Nat /\ 0 \in Nat
    BY <1>1
  <2> QED BY <1>1, <1>5, <2>1, CellsLaid
<1>11. Adds(out, out', 0, key, <<0>>)
  BY <1>3, <1>4, <1>10
<1>12. /\ out' \in Cells /\ Len(out') = Len(out) + 4
       /\ \A x \in 1 .. Len(out) : out'[x] = out[x]
       /\ out'[Len(out) + 2] # NUL /\ out'[Len(out) + 3] = NUL
  BY <1>1, <1>5, <1>7, <1>11, Ids19 DEF Adds
<1>13. /\ writers' \in Seq(WriterRecord) /\ Len(writers') = n + 1
       /\ \A k \in 1 .. n : writers'[k].offset = writers[k].offset /\ writers'[k].at = writers[k].at
       /\ writers'[n + 1].offset = Len(out) + 4 /\ writers'[n + 1].at = Len(out) + 1
  <2>1. writers' = Append(C, r)
    BY <1>2, <1>6
  <2> HIDE DEF n
  <2>2. /\ Append(C, r) \in Seq(WriterRecord) /\ Len(Append(C, r)) = n + 1
        /\ \A k \in 1 .. n : Append(C, r)[k] = C[k]
        /\ Append(C, r)[n + 1] = r
    BY <1>8, <1>9
  <2> QED BY <1>8, <1>9, <2>1, <2>2
<1>14. Writing(out', writers', values, loose, T)
  BY <1>12, <1>13, DocumentOpened, SMTT(30)
<1> QED BY <1>3, <1>14 DEF CodecInv, Started

LEMMA CodecStarts == ASSUME Codec!Init PROVE CodecInv
<1> DEFINE c == <<0>>
           W == <<[at |-> 0, offset |-> 1, index |-> 0, type |-> Doc]>>
<1>1. out = c /\ writers = W /\ values = {} /\ loose = {} /\ ~reading /\ Started
  BY CodecReads DEF Codec!Init, Codec!NewWriter, Codec!NoValue, Started
<1>2. c \in Cells /\ Len(c) = 1
  BY DEF Cells
<1>3. /\ W \in Seq(WriterRecord) /\ Len(W) = 1 /\ W # <<>>
      /\ W[1].offset = 1 /\ W[1].at = 0
  BY DEF WriterRecord
<1> HIDE DEF c, W
<1>4. Tree(c, {}, {})
  BY DEF Tree, Apart
<1>5. Stack(c, W)
  BY <1>2, <1>3 DEF Stack
<1>6. Leads(c, {}, W)
  <2>1. Bounds({}, 1) = {2}
    BY DEF Bounds
  <2>2. EndOf(c, W, 1) = 2
    BY <1>2, <1>3 DEF EndOf
  <2>3. \A k \in 1 .. Len(W) : k = 1
    BY <1>3
  <2> QED BY <1>3, <2>1, <2>2, <2>3 DEF Leads
<1>7. Beside({}, W) /\ Noted({}, {})
  BY DEF Beside, Noted
<1>8. Writing(c, W, {}, {}, {})
  BY <1>2, <1>4, <1>5, <1>6, <1>7 DEF Writing
<1> QED BY <1>1, <1>8 DEF CodecInv

LEMMA CodecStep == ASSUME CodecInv, [Next]_vars PROVE CodecInv'
<1>1. CASE UNCHANGED codec
  <2>1. /\ UNCHANGED <<out, writers, values, loose, reading>>
        /\ UNCHANGED <<pos, next, readers, last, slipped, failed>>
    BY <1>1 DEF codec
  <2>2. ASSUME NEW T PROVE Reading(T)' <=> Reading(T)
    BY <2>1 DEF Reading, OnPath, AtPlace, WasRead, TopReader
  <2>3. Started' <=> Started
    BY <2>1 DEF Started
  <2> QED BY <2>1, <2>2, <2>3 DEF CodecInv
<1>2. CASE Codec!Next
  <2>1. CASE ~reading
    <3>1. PICK T : Writing(out, writers, values, loose, T)
      BY <2>1 DEF CodecInv
    <3>2. Started
      BY <2>1 DEF CodecInv
    <3>3. ~Codec!Read
      BY <2>1 DEF Codec!Read, Codec!Begin, Codec!NextKey, Codec!NextIsEnd, Codec!LeaveWithoutEnd,
                  Codec!ReadAny, Codec!ReadIgnored, Codec!ReadBytes, Codec!ReadTuple,
                  Codec!ReadEnum, Codec!AtKey, Codec!AtValue, Codec!MayRead
    <3> QED BY <1>2, <2>1, <3>1, <3>2, <3>3, ScalarStep, SpecialStep, BinaryStep, DocumentStep,
               JavaScriptStep, OpenStep, EndStep DEF Codec!Next
  <2>2. CASE reading
    <3>1. PICK T : Complete(out, values, loose, T) /\ Reading(T)
      BY <2>2 DEF CodecInv
    <3>2. Codec!Read
      BY <1>2, <2>2 DEF Codec!Next, Codec!WriteScalar, Codec!WriteSpecial, Codec!WriteDocument,
                        Codec!WriteBinary, Codec!WriteJavaScript, Codec!OpenNested, Codec!End,
                        Codec!Write, Codec!WriteUnder, Codec!MayWrite
    <3>3. Reading(T)' /\ reading' = reading /\ UNCHANGED <<out, writers, values, loose>>
      BY <3>1, <3>2, ReadStep
    <3> QED BY <2>2, <3>1, <3>3 DEF CodecInv
  <2> QED BY <2>1, <2>2
<1> QED BY <1>1, <1>2 DEF Next, vars

LEMMA CodecStays == Spec => []CodecInv
<1>1. Init => CodecInv
  BY CodecStarts DEF Init
<1>2. CodecInv /\ [Next]_vars => CodecInv'
  BY CodecStep
<1> QED BY <1>1, <1>2, PTL DEF Spec

\* Each value that a reader has read, whatever it asked for, ends for it where it
\* ended for the serializer, unless the read is one of those known to slip: of tuples
\* and enums, ignored regular expressions, JavaScript with and without a scope,
\* BinaryData, and Documents with bytes behind their terminator.
THEOREM ReadersStayInStep == Spec => []ReaderInStep
<1>1. ASSUME CodecInv, last[1] \in {v[1] : v \in values}, ~slipped PROVE last \in values
  <2>1. PICK v \in values : v[1] = last[1]
    BY <1>1
  <2>2. ASSUME NEW T, Writing(out, writers, values, loose, T), Started PROVE FALSE
    <3>1. PICK t \in T : v = <<t.from, t.to>>
      BY <2>2 DEF Writing, Noted
    <3>2. t.from \in Nat /\ t.from >= 5
      BY <2>2, TreeFacts DEF Writing
    <3> QED BY <2>1, <2>2, <3>1, <3>2 DEF Started
  <2>3. ASSUME NEW T, Complete(out, values, loose, T), Reading(T) PROVE last \in values
    <3>1. Tree(out, T, loose) /\ Apart(T)
      BY <2>3 DEF Complete, Tree
    <3>2. \A t \in T : t.from \in Nat /\ t.from >= 5
      BY <3>1, TreeFacts
    <3>3. v = <<1, Len(out) + 1>> \/ \E t \in T : v = <<t.from, t.to>>
      BY <2>3 DEF Complete
    <3>4. last = <<0, 0>> \/ last = <<1, Len(out) + 1>> \/ \E t \in T : last = <<t.from, t.to>>
      BY <1>1, <2>3 DEF Reading, WasRead
    <3>5. last # <<0, 0>>
      BY <2>1, <3>2, <3>3
    <3>6. CASE last = <<1, Len(out) + 1>>
      BY <2>1, <3>2, <3>3, <3>6
    <3>7. ASSUME NEW t \in T, last = <<t.from, t.to>> PROVE last \in values
      <4>1. v[1] = t.from /\ t.from # 1
        BY <2>1, <3>2, <3>7
      <4>2. PICK u \in T : v = <<u.from, u.to>>
        BY <3>3, <4>1
      <4>3. u = t
        BY <3>1, <4>1, <4>2 DEF Apart
      <4> QED BY <3>7, <4>2, <4>3
    <3> QED BY <3>4, <3>5, <3>6, <3>7
  <2> QED BY <1>1, <2>2, <2>3 DEF CodecInv
<1>2. CodecInv => ReaderInStep
  BY <1>1 DEF ReaderInStep, Codec!ReaderInStep, Codec!Starts
<1> QED BY <1>2, CodecStays, PTL

\* The length of each document among the values is filled in as what it spans.  If no
\* regular expression, JavaScript, BinaryData or Document with bytes behind its
\* terminator was written, the iterator stops at the terminator that it says.
THEOREM LengthsAreNested == Spec => []LengthsNest
<1>1. ASSUME CodecInv, reading, NEW v \in values, v[1] = 1 \/ out[v[1] - 3] \in {Doc, Array}
      PROVE  /\ out[v[1]] = v[2] - v[1]
             /\ loose = {} => LET read == Iterate(SubSeq(out, v[1], v[2] - 1), 2)
                             IN  read.ok /\ read.stop = v[2] - v[1]
  <2>1. PICK T : Complete(out, values, loose, T)
    BY <1>1 DEF CodecInv
  <2> QED BY <1>1, <2>1, ValueSpans
<1>2. CodecInv => LengthsNest
  BY <1>1, CodecReads DEF LengthsNest, Codec!LengthsNest
<1> QED BY <1>2, CodecStays, PTL
=============================================================================
