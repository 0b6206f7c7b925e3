---------------------------- MODULE RulesProofs -----------------------------
(***************************************************************************)
(* Theorems about Game and the rules of chess: the tables of the move      *)
(* generator give the attacks that Rules finds on the board, what the code *)
(* says of checks is what the rules say, and the moves it lists, judges    *)
(* and tries are those of the rules.                                       *)
(***************************************************************************)
EXTENDS GameProofs

(* The geometry of the board: lines of squares in files and ranks. *)

\* A square is its rank and its file.
LEMMA SquareIs ==
  ASSUME NEW f \in 0 .. 7, NEW r \in 0 .. 7
  PROVE  8 * r + f \in Square /\ fileOf(8 * r + f) = f /\ rankOf(8 * r + f) = r
BY DEF Square, fileOf, rankOf

\* a line that ends on the board stays on it
LEMMA FreeIs ==
  ASSUME NEW d \in Directions, NEW t \in Square, NEW n \in 1 .. 7,
         fileOf(t) + n * Run(d) \in 0 .. 7, rankOf(t) + n * Rise(d) \in 0 .. 7
  PROVE  Free(d, t, n)
<1> DEFINE a == fileOf(t)
           b == rankOf(t)
<1>1. a \in 0 .. 7 /\ b \in 0 .. 7 /\ t = 8 * b + a
  BY Coordinates
<1>2. a + n * Run(d) \in 0 .. 7 /\ b + n * Rise(d) \in 0 .. 7
  OBVIOUS
<1> HIDE DEF a, b
<1>3. ASSUME NEW i \in 0 .. n
      PROVE  /\ t + i * d \in Square
             /\ fileOf(t + i * d) = a + i * Run(d)
             /\ rankOf(t + i * d) = b + i * Rise(d)
  <2>1. /\ a + i * Run(d) \in 0 .. 7 /\ b + i * Rise(d) \in 0 .. 7
        /\ t + i * d = 8 * (b + i * Rise(d)) + (a + i * Run(d))
    <3>1. d \in {8, 1, -8, -1, 9, -7, -9, 7}
      BY DirectionsAre
    <3>2. CASE d = 8 BY <1>1, <1>2, <3>2 DEF Run, Rise
    <3>3. CASE d = 1 BY <1>1, <1>2, <3>3 DEF Run, Rise
    <3>4. CASE d = -8 BY <1>1, <1>2, <3>4 DEF Run, Rise
    <3>5. CASE d = -1 BY <1>1, <1>2, <3>5 DEF Run, Rise
    <3>6. CASE d = 9 BY <1>1, <1>2, <3>6 DEF Run, Rise
    <3>7. CASE d = -7 BY <1>1, <1>2, <3>7 DEF Run, Rise
    <3>8. CASE d = -9 BY <1>1, <1>2, <3>8 DEF Run, Rise
    <3>9. CASE d = 7 BY <1>1, <1>2, <3>9 DEF Run, Rise
    <3> QED BY <3>1, <3>2, <3>3, <3>4, <3>5, <3>6, <3>7, <3>8, <3>9
  <2> DEFINE f == a + i * Run(d)
             r == b + i * Rise(d)
  <2>2. f \in 0 .. 7 /\ r \in 0 .. 7 /\ t + i * d = 8 * r + f
    BY <2>1
  <2> HIDE DEF f, r
  <2>3. 8 * r + f \in Square /\ fileOf(8 * r + f) = f /\ rankOf(8 * r + f) = r
    BY <2>2, SquareIs
  <2> QED BY <2>2, <2>3 DEF f, r
<1>4. ASSUME NEW i \in 1 .. n PROVE OnBoard(d, t, i)
  <2>1. i \in 0 .. n /\ i - 1 \in 0 .. n
    OBVIOUS
  <2> DEFINE u == t + i * d
             v == t + (i - 1) * d
  <2>2. /\ u \in Square /\ fileOf(u) = a + i * Run(d) /\ rankOf(u) = b + i * Rise(d)
        /\ fileOf(v) = a + (i - 1) * Run(d) /\ rankOf(v) = b + (i - 1) * Rise(d)
    BY <1>3, <2>1
  <2> HIDE DEF u, v
  <2>3. distance(u, v) = 1
    <3> DEFINE x == fileOf(u)
               y == rankOf(u)
               w == fileOf(v)
               z == rankOf(v)
    <3>1. x = a + i * Run(d) /\ y = b + i * Rise(d) /\ w = a + (i - 1) * Run(d) /\ z = b + (i - 1) * Rise(d)
      BY <2>2
    <3>2. distance(u, v) = Larger(Gap(x, w), Gap(y, z))
      BY DEF distance
    <3> HIDE DEF x, y, w, z
    <3>3. d \in {8, 1, -8, -1, 9, -7, -9, 7}
      BY DirectionsAre
    <3>4. x \in Int /\ y \in Int /\ w \in Int /\ z \in Int
          /\ x - w = Run(d) /\ y - z = Rise(d)
      <4>1. CASE d = 8 BY <1>1, <3>1, <4>1 DEF Run, Rise
      <4>2. CASE d = 1 BY <1>1, <3>1, <4>2 DEF Run, Rise
      <4>3. CASE d = -8 BY <1>1, <3>1, <4>3 DEF Run, Rise
      <4>4. CASE d = -1 BY <1>1, <3>1, <4>4 DEF Run, Rise
      <4>5. CASE d = 9 BY <1>1, <3>1, <4>5 DEF Run, Rise
      <4>6. CASE d = -7 BY <1>1, <3>1, <4>6 DEF Run, Rise
      <4>7. CASE d = -9 BY <1>1, <3>1, <4>7 DEF Run, Rise
      <4>8. CASE d = 7 BY <1>1, <3>1, <4>8 DEF Run, Rise
      <4> QED BY <3>3, <4>1, <4>2, <4>3, <4>4, <4>5, <4>6, <4>7, <4>8
    <3>5. Run(d) \in {-1, 0, 1} /\ Rise(d) \in {-1, 0, 1} /\ (Run(d) # 0 \/ Rise(d) # 0)
      BY <3>3 DEF Run, Rise
    <3>6. Larger(Gap(x, w), Gap(y, z)) = 1
      BY <3>4, <3>5 DEF Larger, Gap
    <3> QED BY <3>2, <3>6
  <2> QED BY <2>2, <2>3 DEF OnBoard, u, v
<1> QED BY <1>4 DEF Free

-----------------------------------------------------------------------------
(* The rules speak of the same board. *)
LEMMA RulesBoard ==
  /\ \A s : R!fileOf(s) = fileOf(s) /\ R!rankOf(s) = rankOf(s)
  /\ \A m, n : R!Gap(m, n) = Gap(m, n)
  /\ \A s, t : R!distance(s, t) = distance(s, t)
  /\ R!Square = Square /\ R!PIECE_NONE = PIECE_NONE
  /\ \A pc : R!typeOf(pc) = typeOf(pc) /\ R!colorOf(pc) = colorOf(pc)
  /\ \A c, pt : R!makePiece(c, pt) = makePiece(c, pt)
  /\ R!KING = KING /\ R!PAWN = PAWN /\ R!KNIGHT = KNIGHT /\ R!BISHOP = BISHOP /\ R!ROOK = ROOK /\ R!QUEEN = QUEEN
  /\ R!WHITE = WHITE /\ R!BLACK = BLACK /\ \A c : R!Other(c) = Other(c)
<1>1. \A s : R!fileOf(s) = fileOf(s) /\ R!rankOf(s) = rankOf(s)
  BY DEF R!fileOf, R!rankOf, fileOf, rankOf
<1>2. \A m, n : R!Gap(m, n) = Gap(m, n)
  BY DEF R!Gap, R!Larger, Gap, Larger
<1>3. \A s, t : R!distance(s, t) = distance(s, t)
  BY <1>1, <1>2 DEF R!distance, distance, R!Larger, Larger
<1>4. R!Square = Square /\ R!PIECE_NONE = PIECE_NONE
  BY DEF R!Square, Square, R!PIECE_NONE, PIECE_NONE
<1>5. \A pc : R!typeOf(pc) = typeOf(pc) /\ R!colorOf(pc) = colorOf(pc)
  BY DEF R!typeOf, typeOf, R!colorOf, colorOf
<1>6. \A c, pt : R!makePiece(c, pt) = makePiece(c, pt)
  BY DEF R!makePiece, makePiece
<1>7a. R!KING = KING /\ R!PAWN = PAWN /\ R!KNIGHT = KNIGHT /\ R!BISHOP = BISHOP /\ R!ROOK = ROOK /\ R!QUEEN = QUEEN
  BY DEF R!KING, R!PAWN, R!KNIGHT, R!BISHOP, R!ROOK, R!QUEEN, KING, PAWN, KNIGHT, BISHOP, ROOK, QUEEN
<1>8. R!WHITE = WHITE /\ R!BLACK = BLACK /\ \A c : R!Other(c) = Other(c)
  BY DEF R!WHITE, WHITE, R!BLACK, BLACK, R!Other, Other
<1> QED BY <1>1, <1>2, <1>3, <1>4, <1>5, <1>6, <1>7a, <1>8

FilesApart(s, t) == Gap(fileOf(s), fileOf(t))
RanksApart(s, t) == Gap(rankOf(s), rankOf(t))

\* The gaps of Rules are those of the board.
LEMMA RulesLines ==
  /\ \A s, t : R!FileGap(s, t) = FilesApart(s, t) /\ R!RankGap(s, t) = RanksApart(s, t)
  /\ \A s, t : R!Straight(s, t) <=> FilesApart(s, t) = 0 \/ RanksApart(s, t) = 0
  /\ \A s, t : R!Diagonal(s, t) <=> FilesApart(s, t) = RanksApart(s, t)
  /\ \A s, t : distance(s, t) = Larger(FilesApart(s, t), RanksApart(s, t))
<1>1. \A s, t : R!FileGap(s, t) = FilesApart(s, t) /\ R!RankGap(s, t) = RanksApart(s, t)
  BY RulesBoard DEF R!FileGap, R!RankGap, FilesApart, RanksApart
<1> QED BY <1>1 DEF R!Straight, R!Diagonal, distance, FilesApart, RanksApart

(* Two squares of a line, in the words of the rules. *)
OfLine(d, t, n, s) ==
  /\ s \in Square /\ s # t
  /\ d \in bishopDirections => FilesApart(s, t) = RanksApart(s, t)
  /\ d \in rookDirections => FilesApart(s, t) = 0 \/ RanksApart(s, t) = 0
  /\ distance(s, t) = n
  /\ R!Between(s, t) = {t + i * d : i \in 1 .. n - 1}

\* The squares strictly between the ends of a line that stays on the board.
LEMMA LineIs ==
  ASSUME NEW d \in Directions, NEW t \in Square, NEW n \in 1 .. 7, Free(d, t, n)
  PROVE  OfLine(d, t, n, t + n * d)
<1> DEFINE s == t + n * d
           a == fileOf(t)
           b == rankOf(t)
           x == fileOf(s)
           y == rankOf(s)
<1>1. n \in 0 .. n /\ n \in 0 .. 7 /\ n \in Int /\ t \in Int
  BY DEF Square
<1>2. s \in Square /\ x = a + n * Run(d) /\ y = b + n * Rise(d)
  BY <1>1, Line
<1>3. a \in Int /\ b \in Int /\ x \in Int /\ y \in Int
  BY <1>2, Coordinates
<1>4. /\ FilesApart(s, t) = Gap(x, a) /\ RanksApart(s, t) = Gap(y, b)
      /\ distance(s, t) = Larger(Gap(x, a), Gap(y, b))
  BY DEF FilesApart, RanksApart, distance
<1>5. R!Between(s, t) = {s + k * (8 * R!Sign(b - y) + R!Sign(a - x)) : k \in 1 .. distance(s, t) - 1}
  BY RulesBoard DEF R!Between
<1>6. s + n * (-d) = t /\ \A k \in Int : s + k * (-d) = t + (n - k) * d
  <2>1. \A k \in Int : s + k * (-d) = t + (n - k) * d
    BY <1>1, Multiples
  <2>2. t + (n - n) * d = t
    <3>1. n - n = 0 BY <1>1
    <3> QED BY <1>1, <3>1, Multiples
  <2> QED BY <1>1, <2>1, <2>2
<1>7a. s # t
  <2>1. d \in {8, 1, -8, -1, 9, -7, -9, 7}
    BY DirectionsAre
  <2> QED BY <1>1, <2>1
<1> HIDE DEF s, a, b, x, y
<1>7b. d \in {8, 1, -8, -1, 9, -7, -9, 7}
  BY DirectionsAre
<1>8. bishopDirections = {9, -7, -9, 7} /\ rookDirections = {8, 1, -8, -1}
  BY DEF bishopDirections, rookDirections, NORTH, EAST, SOUTH, WEST
<1>9. /\ d \in bishopDirections => Gap(x, a) = Gap(y, b)
      /\ d \in rookDirections => Gap(x, a) = 0 \/ Gap(y, b) = 0
      /\ Larger(Gap(x, a), Gap(y, b)) = n
      /\ 8 * R!Sign(b - y) + R!Sign(a - x) = -d
  <2> USE <1>1, <1>2, <1>3, <1>8 DEF Run, Rise, Gap, Larger, R!Sign
  <2>1. CASE d = 8 BY <2>1
  <2>2. CASE d = 1 BY <2>2
  <2>3. CASE d = -8 BY <2>3
  <2>4. CASE d = -1 BY <2>4
  <2>5. CASE d = 9 BY <2>5
  <2>6. CASE d = -7 BY <2>6
  <2>7. CASE d = -9
    <3>1. x = a - n /\ y = b - n
      BY <2>7
    <3>2. Gap(x, a) = n /\ Gap(y, b) = n
      BY <3>1
    <3>3. R!Sign(b - y) = 1 /\ R!Sign(a - x) = 1
      BY <3>1
    <3>4. 8 * R!Sign(b - y) + R!Sign(a - x) = -d
      BY ONLY <2>7, <3>3
    <3>5. Larger(Gap(x, a), Gap(y, b)) = n
      BY ONLY <1>1, <3>2 DEF Larger
    <3>6. d \notin rookDirections
      BY ONLY <1>8, <2>7
    <3> QED BY ONLY <3>2, <3>4, <3>5, <3>6
  <2>8. CASE d = 7 BY <2>8
  <2> QED BY <1>7b, <2>1, <2>2, <2>3, <2>4, <2>5, <2>6, <2>7, <2>8
<1>10. R!Between(s, t) = {s + k * (-d) : k \in 1 .. n - 1}
  BY <1>4, <1>5, <1>9
<1>11. {s + k * (-d) : k \in 1 .. n - 1} = {t + i * d : i \in 1 .. n - 1}
  <2>1. ASSUME NEW k \in 1 .. n - 1 PROVE n - k \in 1 .. n - 1 /\ k \in Int /\ n - (n - k) = k
    BY <1>1
  <2>2. ASSUME NEW k \in 1 .. n - 1 PROVE s + k * (-d) = t + (n - k) * d /\ s + (n - k) * (-d) = t + k * d
    <3>1. s + (n - k) * (-d) = t + (n - (n - k)) * d
      BY <1>1, <1>6, <2>1
    <3> QED BY <1>6, <2>1, <3>1
  <2> QED BY <2>1, <2>2
<1> QED BY <1>2, <1>4, <1>7a, <1>9, <1>10, <1>11 DEF OfLine, s

\* Two squares on a line are joined by steps of one direction.
LEMMA LineFound ==
  ASSUME NEW s \in Square, NEW t \in Square, s # t
  PROVE  /\ FilesApart(s, t) = RanksApart(s, t) =>
               \E d \in bishopDirections : \E n \in 1 .. 7 : s = t + n * d /\ Free(d, t, n)
         /\ FilesApart(s, t) = 0 \/ RanksApart(s, t) = 0 =>
               \E d \in rookDirections : \E n \in 1 .. 7 : s = t + n * d /\ Free(d, t, n)
<1> DEFINE a == fileOf(t)
           b == rankOf(t)
           x == fileOf(s)
           y == rankOf(s)
<1>1. /\ a \in 0 .. 7 /\ b \in 0 .. 7 /\ x \in 0 .. 7 /\ y \in 0 .. 7
      /\ t = 8 * b + a /\ s = 8 * y + x
  BY Coordinates
<1>2. FilesApart(s, t) = Gap(x, a) /\ RanksApart(s, t) = Gap(y, b)
  BY DEF FilesApart, RanksApart
<1>3. bishopDirections = {9, -7, -9, 7} /\ rookDirections = {8, 1, -8, -1}
  BY DEF bishopDirections, rookDirections, NORTH, EAST, SOUTH, WEST
<1>4. ASSUME NEW d \in {8, 1, -8, -1, 9, -7, -9, 7}, NEW n \in 1 .. 7,
             x = a + n * Run(d), y = b + n * Rise(d)
      PROVE  Free(d, t, n)
  BY <1>1, <1>4, FreeIs, DirectionsAre
<1> HIDE DEF a, b, x, y
<1>5. ASSUME Gap(x, a) = Gap(y, b)
      PROVE  \E d \in bishopDirections : \E n \in 1 .. 7 : s = t + n * d /\ Free(d, t, n)
  <2>1. PICK n \in 1 .. 7 : (x = a + n \/ x = a - n) /\ (y = b + n \/ y = b - n)
    <3>1. Gap(x, a) \in 1 .. 7
      BY <1>1, <1>5 DEF Gap, Larger
    <3> QED BY <1>1, <1>5, <3>1 DEF Gap, Larger
  <2>2. CASE x = a + n /\ y = b + n
    <3>1. Free(9, t, n) BY <1>1, <1>4, <2>2 DEF Run, Rise
    <3>2. s = t + n * 9 BY <1>1, <2>2
    <3> QED BY <1>3, <3>1, <3>2
  <2>3. CASE x = a + n /\ y = b - n
    <3>1. Free(-7, t, n) BY <1>1, <1>4, <2>3 DEF Run, Rise
    <3>2. s = t + n * (-7) BY <1>1, <2>3
    <3> QED BY <1>3, <3>1, <3>2
  <2>4. CASE x = a - n /\ y = b + n
    <3>1. Free(7, t, n) BY <1>1, <1>4, <2>4 DEF Run, Rise
    <3>2. s = t + n * 7 BY <1>1, <2>4
    <3> QED BY <1>3, <3>1, <3>2
  <2>5. CASE x = a - n /\ y = b - n
    <3>1. Free(-9, t, n) BY <1>1, <1>4, <2>5 DEF Run, Rise
    <3>2. s = t + n * (-9) BY <1>1, <2>5
    <3> QED BY <1>3, <3>1, <3>2
  <2> QED BY <2>1, <2>2, <2>3, <2>4, <2>5
<1>6. ASSUME Gap(x, a) = 0 \/ Gap(y, b) = 0
      PROVE  \E d \in rookDirections : \E n \in 1 .. 7 : s = t + n * d /\ Free(d, t, n)
  <2>1. PICK n \in 1 .. 7 : \/ x = a /\ (y = b + n \/ y = b - n)
                            \/ y = b /\ (x = a + n \/ x = a - n)
    <3>1. CASE Gap(x, a) = 0
      <4>1. x = a /\ Gap(y, b) \in 1 .. 7
        BY <1>1, <3>1 DEF Gap, Larger
      <4> QED BY <1>1, <4>1 DEF Gap, Larger
    <3>2. CASE Gap(y, b) = 0
      <4>1. y = b /\ Gap(x, a) \in 1 .. 7
        BY <1>1, <3>2 DEF Gap, Larger
      <4> QED BY <1>1, <4>1 DEF Gap, Larger
    <3> QED BY <1>6, <3>1, <3>2
  <2>2. CASE x = a /\ y = b + n
    <3>1. Free(8, t, n) BY <1>1, <1>4, <2>2 DEF Run, Rise
    <3>2. s = t + n * 8 BY <1>1, <2>2
    <3> QED BY <1>3, <3>1, <3>2
  <2>3. CASE x = a /\ y = b - n
    <3>1. Free(-8, t, n) BY <1>1, <1>4, <2>3 DEF Run, Rise
    <3>2. s = t + n * (-8) BY <1>1, <2>3
    <3> QED BY <1>3, <3>1, <3>2
  <2>4. CASE x = a + n /\ y = b
    <3>1. Free(1, t, n) BY <1>1, <1>4, <2>4 DEF Run, Rise
    <3>2. s = t + n * 1 BY <1>1, <2>4
    <3> QED BY <1>3, <3>1, <3>2
  <2>5. CASE x = a - n /\ y = b
    <3>1. Free(-1, t, n) BY <1>1, <1>4, <2>5 DEF Run, Rise
    <3>2. s = t + n * (-1) BY <1>1, <2>5
    <3> QED BY <1>3, <3>1, <3>2
  <2> QED BY <2>1, <2>2, <2>3, <2>4, <2>5
<1> QED BY <1>2, <1>5, <1>6

-----------------------------------------------------------------------------
\* which of the squares are taken
Occupies(board, occ) == \A s \in Square : s \in occ <=> board[s] # PIECE_NONE

\* the sliders, by the rules
LEMMA SlidesByRules ==
  ASSUME NEW board, NEW occ, Occupies(board, occ), NEW s \in Square, NEW t \in Square
  PROVE  /\ Slides(bishopDirections, t, occ, s) <=> s # t /\ R!Diagonal(s, t) /\ R!Clear(board, s, t)
         /\ Slides(rookDirections, t, occ, s) <=> s # t /\ R!Straight(s, t) /\ R!Clear(board, s, t)
<1>1. ASSUME NEW d \in Directions, NEW n \in 1 .. 7, s = t + n * d, Free(d, t, n)
      PROVE  /\ OfLine(d, t, n, s)
             /\ R!Clear(board, s, t) <=> \A i \in 1 .. n - 1 : t + i * d \notin occ
  <2>1. OfLine(d, t, n, s)
    BY <1>1, LineIs
  <2>2. \A i \in 1 .. n - 1 : t + i * d \in Square
    <3> TAKE i \in 1 .. n - 1
    <3>1. n \in 0 .. 7 /\ i \in 0 .. n
      OBVIOUS
    <3> QED BY <1>1, <3>1, Line
  <2>3. R!Clear(board, s, t) <=> \A u \in {t + i * d : i \in 1 .. n - 1} : board[u] = PIECE_NONE
    BY <2>1, RulesBoard DEF R!Clear, OfLine
  <2>4. R!Clear(board, s, t) <=> \A i \in 1 .. n - 1 : board[t + i * d] = PIECE_NONE
    BY <2>3
  <2> QED BY <2>1, <2>2, <2>4 DEF Occupies
<1>2. ASSUME NEW dirs, dirs \subseteq Directions, Slides(dirs, t, occ, s)
      PROVE  R!Clear(board, s, t) /\ \E d \in dirs : \E n \in 1 .. 7 : OfLine(d, t, n, s)
  <2>1. PICK d \in dirs : \E n \in 1 .. 7 : /\ s = t + n * d
                                            /\ Free(d, t, n)
                                            /\ \A i \in 1 .. n - 1 : t + i * d \notin occ
    BY <1>2 DEF Slides
  <2>2. d \in Directions
    BY <1>2
  <2> QED BY <1>1, <2>1, <2>2
<1>3. ASSUME NEW dirs, dirs \subseteq Directions, R!Clear(board, s, t),
             \E d \in dirs : \E n \in 1 .. 7 : s = t + n * d /\ Free(d, t, n)
      PROVE  Slides(dirs, t, occ, s)
  <2>1. PICK d \in dirs : \E n \in 1 .. 7 : s = t + n * d /\ Free(d, t, n)
    BY <1>3
  <2>2. PICK n \in 1 .. 7 : s = t + n * d /\ Free(d, t, n)
    BY <2>1
  <2>3. d \in Directions
    BY <1>3
  <2>4. \A i \in 1 .. n - 1 : t + i * d \notin occ
    BY <1>1, <1>3, <2>2, <2>3
  <2> QED BY <2>2, <2>4 DEF Slides
<1>4. bishopDirections \subseteq Directions /\ rookDirections \subseteq Directions
  BY DirectionSets
<1>5. Slides(bishopDirections, t, occ, s) => s # t /\ R!Diagonal(s, t) /\ R!Clear(board, s, t)
  BY <1>2, <1>4, RulesLines DEF OfLine
<1>6. Slides(rookDirections, t, occ, s) => s # t /\ R!Straight(s, t) /\ R!Clear(board, s, t)
  BY <1>2, <1>4, RulesLines DEF OfLine
<1>7a. s # t /\ R!Diagonal(s, t) /\ R!Clear(board, s, t) => Slides(bishopDirections, t, occ, s)
  BY <1>3, <1>4, RulesLines, LineFound
<1>8. s # t /\ R!Straight(s, t) /\ R!Clear(board, s, t) => Slides(rookDirections, t, occ, s)
  BY <1>3, <1>4, RulesLines, LineFound
<1> QED BY <1>5, <1>6, <1>7a, <1>8

\* the steps of pawns, knights and kings
LEMMA JumpsByRules ==
  ASSUME NEW s \in Square, NEW t \in Square
  PROVE  /\ \A c \in Color : s \in pawnAttacks[Other(c)][t] <=>
                               FilesApart(s, t) = 1 /\ R!Ahead(c, s, t) = 1
         /\ s \in knightAttacks[t] <=> {FilesApart(s, t), RanksApart(s, t)} = {1, 2}
         /\ s \in kingAttacks[t] <=> distance(s, t) = 1
<1> DEFINE a == fileOf(t)
           b == rankOf(t)
           x == fileOf(s)
           y == rankOf(s)
<1>1. /\ a \in 0 .. 7 /\ b \in 0 .. 7 /\ x \in 0 .. 7 /\ y \in 0 .. 7
      /\ t = 8 * b + a /\ s = 8 * y + x
  BY Coordinates
<1>2. /\ FilesApart(s, t) = Gap(x, a) /\ RanksApart(s, t) = Gap(y, b)
      /\ distance(s, t) = Larger(Gap(x, a), Gap(y, b))
      /\ distance(t, s) = Larger(Gap(a, x), Gap(b, y))
  BY DEF FilesApart, RanksApart, distance
<1>3. \A c : R!Ahead(c, s, t) = (b - y) * (IF c = WHITE THEN 1 ELSE -1)
  BY RulesBoard DEF R!Ahead
<1>4. ASSUME NEW steps PROVE s \in Jumps(t, steps) <=> distance(t, s) < 3 /\ \E d \in steps : s = t + d
  BY DEF Jumps
<1>5. /\ pawnSteps = {7, 9} /\ Negated(pawnSteps) = {-7, -9}
      /\ kingSteps \cup Negated(kingSteps) = {7, 8, 9, 1, -7, -8, -9, -1}
      /\ knightSteps \cup Negated(knightSteps) = {6, 10, 15, 17, -6, -10, -15, -17}
  BY DEF pawnSteps, kingSteps, knightSteps, Negated, NORTH, WEST, EAST
<1>6. /\ pawnAttacks[WHITE][t] = Jumps(t, {7, 9}) /\ pawnAttacks[BLACK][t] = Jumps(t, {-7, -9})
      /\ kingAttacks[t] = Jumps(t, {7, 8, 9, 1, -7, -8, -9, -1})
      /\ knightAttacks[t] = Jumps(t, {6, 10, 15, 17, -6, -10, -15, -17})
  BY <1>5 DEF pawnAttacks, kingAttacks, knightAttacks, Color, WHITE, BLACK
<1>7a. /\ Gap(a, x) = Gap(x, a) /\ Gap(b, y) = Gap(y, b)
       /\ Gap(x, a) = (IF x > a THEN x - a ELSE a - x) /\ Gap(y, b) = (IF y > b THEN y - b ELSE b - y)
  BY <1>1 DEF Gap, Larger
<1> HIDE DEF a, b, x, y
<1>7b. ASSUME NEW d \in -17 .. 17 PROVE s = t + d <=> 8 * (y - b) + (x - a) = d
  BY <1>1
<1>7c. distance(t, s) < 3 <=> x - a \in -2 .. 2 /\ y - b \in -2 .. 2
  BY <1>1, <1>2, <1>7a DEF Larger
<1> DEFINE u == x - a
           v == y - b
<1>7d. u \in -7 .. 7 /\ v \in -7 .. 7 /\ b - y = -v
  BY <1>1
<1>8. s \in knightAttacks[t] <=> u \in -2 .. 2 /\ v \in -2 .. 2 /\ 8 * v + u \in {6, 10, 15, 17, -6, -10, -15, -17}
  BY <1>4, <1>6, <1>7b, <1>7c
<1>9. s \in kingAttacks[t] <=> u \in -2 .. 2 /\ v \in -2 .. 2 /\ 8 * v + u \in {7, 8, 9, 1, -7, -8, -9, -1}
  BY <1>4, <1>6, <1>7b, <1>7c
<1>10. s \in pawnAttacks[WHITE][t] <=> u \in -2 .. 2 /\ v \in -2 .. 2 /\ 8 * v + u \in {7, 9}
  BY <1>4, <1>6, <1>7b, <1>7c
<1>11. s \in pawnAttacks[BLACK][t] <=> u \in -2 .. 2 /\ v \in -2 .. 2 /\ 8 * v + u \in {-7, -9}
  BY <1>4, <1>6, <1>7b, <1>7c
<1>12. /\ Gap(x, a) = (IF u > 0 THEN u ELSE -u) /\ Gap(y, b) = (IF v > 0 THEN v ELSE -v)
  BY <1>1, <1>7a
<1> HIDE DEF u, v
<1>13. s \in knightAttacks[t] <=> {Gap(x, a), Gap(y, b)} = {1, 2}
  <2>1. {Gap(x, a), Gap(y, b)} = {1, 2} <=> (Gap(x, a) = 1 /\ Gap(y, b) = 2) \/ (Gap(x, a) = 2 /\ Gap(y, b) = 1)
    OBVIOUS
  <2>2. \A n \in -2 .. 2 : n = -2 \/ n = -1 \/ n = 0 \/ n = 1 \/ n = 2
    OBVIOUS
  <2>3. s \in knightAttacks[t] <=> \/ (u = 1 \/ u = -1) /\ (v = 2 \/ v = -2)
                                   \/ (u = 2 \/ u = -2) /\ (v = 1 \/ v = -1)
    <3> DEFINE w == 8 * v + u
    <3>1. w \in {6, 10, 15, 17, -6, -10, -15, -17} <=>
            w = 6 \/ w = 10 \/ w = 15 \/ w = 17 \/ w = -6 \/ w = -10 \/ w = -15 \/ w = -17
      OBVIOUS
    <3>2. s \in knightAttacks[t] <=> /\ -2 <= u /\ u <= 2 /\ -2 <= v /\ v <= 2
                                     /\ w \in {6, 10, 15, 17, -6, -10, -15, -17}
      BY <1>7d, <1>8
    <3>3. u \in Int /\ v \in Int
      BY <1>7d
    <3> QED BY ONLY <3>1, <3>2, <3>3
  <2>4. /\ Gap(x, a) = 1 <=> u = 1 \/ u = -1
        /\ Gap(x, a) = 2 <=> u = 2 \/ u = -2
        /\ Gap(y, b) = 1 <=> v = 1 \/ v = -1
        /\ Gap(y, b) = 2 <=> v = 2 \/ v = -2
    BY <1>7d, <1>12
  <2> QED BY <2>1, <2>3, <2>4
<1>14. s \in kingAttacks[t] <=> Larger(Gap(x, a), Gap(y, b)) = 1
  BY <1>7d, <1>9, <1>12 DEF Larger
<1>15. s \in pawnAttacks[BLACK][t] <=> Gap(x, a) = 1 /\ b - y = 1
  BY <1>7d, <1>11, <1>12
<1>16. s \in pawnAttacks[WHITE][t] <=> Gap(x, a) = 1 /\ b - y = -1
  BY <1>7d, <1>10, <1>12
<1>17. Other(WHITE) = BLACK /\ Other(BLACK) = WHITE /\ WHITE # BLACK /\ (b - y) * 1 = b - y
       /\ ((b - y) * (-1) = 1 <=> b - y = -1)
  BY <1>7d DEF Other, WHITE, BLACK
<1>18. R!Ahead(WHITE, s, t) = b - y /\ (R!Ahead(BLACK, s, t) = 1 <=> b - y = -1)
  BY <1>3, <1>17
<1>19. ASSUME NEW c \in Color
       PROVE  s \in pawnAttacks[Other(c)][t] <=> FilesApart(s, t) = 1 /\ R!Ahead(c, s, t) = 1
  <2>1. CASE c = WHITE
    BY <1>2, <1>15, <1>17, <1>18, <2>1
  <2>2. CASE c = BLACK
    BY <1>2, <1>16, <1>17, <1>18, <2>2
  <2> QED BY <2>1, <2>2 DEF Color
<1> QED BY <1>2, <1>13, <1>14, <1>19

-----------------------------------------------------------------------------
(* Who attacks a square: the tables, looked up from that square, and the rules. *)

\* the squares from which a piece of a type and a colour attacks t
Strikers(occ, c, pt, t) ==
    CASE pt = KING -> kingAttacks[t]
      [] pt = PAWN -> pawnAttacks[Other(c)][t]
      [] pt = KNIGHT -> knightAttacks[t]
      [] pt = BISHOP -> bishopAttacks(t, occ)
      [] pt = ROOK -> rookAttacks(t, occ)
      [] pt = QUEEN -> bishopAttacks(t, occ) \cup rookAttacks(t, occ)

\* The squares from which a piece strikes, type by type.
LEMMA StrikersAre ==
  ASSUME NEW occ, NEW c, NEW t
  PROVE  /\ Strikers(occ, c, KING, t) = kingAttacks[t]
         /\ Strikers(occ, c, PAWN, t) = pawnAttacks[Other(c)][t]
         /\ Strikers(occ, c, KNIGHT, t) = knightAttacks[t]
         /\ Strikers(occ, c, BISHOP, t) = bishopAttacks(t, occ)
         /\ Strikers(occ, c, ROOK, t) = rookAttacks(t, occ)
         /\ Strikers(occ, c, QUEEN, t) = bishopAttacks(t, occ) \cup rookAttacks(t, occ)
<1>1. KING = 1 /\ PAWN = 2 /\ KNIGHT = 3 /\ BISHOP = 4 /\ ROOK = 5 /\ QUEEN = 6
  BY DEF KING, PAWN, KNIGHT, BISHOP, ROOK, QUEEN
<1> QED BY <1>1 DEF Strikers

\* A square is no step away from itself.
LEMMA SamePlace == \A s \in Square : FilesApart(s, s) = 0 /\ RanksApart(s, s) = 0 /\ distance(s, s) = 0
<1> SUFFICES ASSUME NEW s \in Square
             PROVE  FilesApart(s, s) = 0 /\ RanksApart(s, s) = 0 /\ distance(s, s) = 0
  OBVIOUS
<1>1. fileOf(s) \in Int /\ rankOf(s) \in Int
  BY Coordinates
<1>2. Gap(fileOf(s), fileOf(s)) = 0 /\ Gap(rankOf(s), rankOf(s)) = 0
  BY <1>1, GapIs
<1> QED BY <1>2 DEF FilesApart, RanksApart, distance, Larger

\* A piece attacks by the rules what it strikes by the tables.
LEMMA AttackIs ==
  ASSUME NEW board, NEW occ, Occupies(board, occ),
         NEW s \in Square, NEW t \in Square, NEW c \in Color, NEW pt \in PieceType,
         board[s] = makePiece(c, pt)
  PROVE  R!Attacks(board, s, t) <=> s \in Strikers(occ, c, pt, t)
<1>3. board[s] # PIECE_NONE /\ typeOf(board[s]) = pt /\ colorOf(board[s]) = c
  BY PieceFacts
<1>4. \A a, b : R!FileGap(a, b) = FilesApart(a, b) /\ R!RankGap(a, b) = RanksApart(a, b)
  BY RulesBoard DEF R!FileGap, R!RankGap, FilesApart, RanksApart
<1>5. KING = 1 /\ PAWN = 2 /\ KNIGHT = 3 /\ BISHOP = 4 /\ ROOK = 5 /\ QUEEN = 6
  BY DEF KING, PAWN, KNIGHT, BISHOP, ROOK, QUEEN
<1>6. R!typeOf(board[s]) = pt /\ R!colorOf(board[s]) = c /\ board[s] # R!PIECE_NONE
  BY <1>3, RulesBoard
<1>7a. R!KING = 1 /\ R!PAWN = 2 /\ R!KNIGHT = 3 /\ R!BISHOP = 4 /\ R!ROOK = 5 /\ R!QUEEN = 6
  BY <1>5, RulesBoard
<1>8. pt \in 1 .. 6
  BY <1>5 DEF PieceType
<1>9. pawnAttacks[Other(c)][t] = pawnAttacks[Other(c)][t] /\ (s = t => FilesApart(s, t) = 0 /\ RanksApart(s, t) = 0 /\ distance(s, t) = 0)
  BY SamePlace
<1>11. CASE pt = 1
  <2>1. R!Attacks(board, s, t) <=> s # t /\ distance(s, t) = 1
    BY <1>6, <1>7a, <1>11, RulesBoard DEF R!Attacks
  <2>2. Strikers(occ, c, pt, t) = kingAttacks[t]
    BY <1>5, <1>11 DEF Strikers
  <2> QED BY <1>9, <2>1, <2>2, JumpsByRules
<1>12. CASE pt = 2
  <2>1. R!Attacks(board, s, t) <=> s # t /\ FilesApart(s, t) = 1 /\ R!Ahead(c, s, t) = 1
    BY <1>4, <1>6, <1>7a, <1>12 DEF R!Attacks
  <2>2. Strikers(occ, c, pt, t) = pawnAttacks[Other(c)][t]
    BY <1>5, <1>12 DEF Strikers
  <2> QED BY <1>9, <2>1, <2>2, JumpsByRules
<1>13. CASE pt = 3
  <2>1. R!Attacks(board, s, t) <=> s # t /\ {FilesApart(s, t), RanksApart(s, t)} = {1, 2}
    BY <1>4, <1>6, <1>7a, <1>13 DEF R!Attacks
  <2>2. Strikers(occ, c, pt, t) = knightAttacks[t]
    BY <1>5, <1>13 DEF Strikers
  <2> QED BY <1>9, <2>1, <2>2, JumpsByRules
<1>14. CASE pt = 4
  <2>1. R!Attacks(board, s, t) <=> s # t /\ R!Diagonal(s, t) /\ R!Clear(board, s, t)
    BY <1>6, <1>7a, <1>14 DEF R!Attacks
  <2>2. Strikers(occ, c, pt, t) = bishopAttacks(t, occ)
    BY <1>5, <1>14 DEF Strikers
  <2> QED BY <2>1, <2>2, SlidersSlide, SlidesByRules
<1>15. CASE pt = 5
  <2>1. R!Attacks(board, s, t) <=> s # t /\ R!Straight(s, t) /\ R!Clear(board, s, t)
    BY <1>6, <1>7a, <1>15 DEF R!Attacks
  <2>2. Strikers(occ, c, pt, t) = rookAttacks(t, occ)
    BY <1>5, <1>15 DEF Strikers
  <2> QED BY <2>1, <2>2, SlidersSlide, SlidesByRules
<1>16. CASE pt = 6
  <2>1. R!Attacks(board, s, t) <=> s # t /\ (R!Diagonal(s, t) \/ R!Straight(s, t)) /\ R!Clear(board, s, t)
    BY <1>6, <1>7a, <1>16 DEF R!Attacks
  <2>2. Strikers(occ, c, pt, t) = bishopAttacks(t, occ) \cup rookAttacks(t, occ)
    BY <1>5, <1>16 DEF Strikers
  <2> QED BY <2>1, <2>2, SlidersSlide, SlidesByRules
<1> QED BY <1>8, <1>11, <1>12, <1>13, <1>14, <1>15, <1>16

\* the attackers of a square, by the rules and by the bitboards
LEMMA AttackersAre ==
  ASSUME NEW p, Good(p), NEW t \in Square, NEW c \in Color
  PROVE  \A s : s \in R!Attackers(p.board, t, c) <=>
                  \E pt \in PieceType : s \in p.piecesBb[c][pt] \cap Strikers(getOccupiedBb(p), c, pt, t)
<1>1. \A s : s \in R!Attackers(p.board, t, c) <=>
               s \in Square /\ p.board[s] # PIECE_NONE /\ colorOf(p.board[s]) = c /\ R!Attacks(p.board, s, t)
  BY RulesBoard DEF R!Attackers, R!Army
<1>0. Occupies(p.board, getOccupiedBb(p))
  BY BitboardsAre DEF Occupies
<1>2. \A s, pt : pt \in PieceType => (s \in p.piecesBb[c][pt] <=> s \in Square /\ p.board[s] = makePiece(c, pt))
  BY BitboardsAre DEF Placed
<1>3. ASSUME NEW s, s \in R!Attackers(p.board, t, c)
      PROVE  \E pt \in PieceType : s \in p.piecesBb[c][pt] \cap Strikers(getOccupiedBb(p), c, pt, t)
  <2>1. s \in Square /\ p.board[s] \in Piece /\ colorOf(p.board[s]) = c /\ R!Attacks(p.board, s, t)
    BY <1>1, <1>3, BitboardsAre
  <2>2. typeOf(p.board[s]) \in PieceType /\ p.board[s] = makePiece(c, typeOf(p.board[s]))
    BY <2>1, PieceFacts
  <2>3. s \in Strikers(getOccupiedBb(p), c, typeOf(p.board[s]), t)
    BY <1>0, <2>1, <2>2, AttackIs
  <2> QED BY <1>2, <2>1, <2>2, <2>3
<1>4. ASSUME NEW s, NEW pt \in PieceType, s \in p.piecesBb[c][pt] \cap Strikers(getOccupiedBb(p), c, pt, t)
      PROVE  s \in R!Attackers(p.board, t, c)
  <2>1. s \in Square /\ p.board[s] = makePiece(c, pt)
    BY <1>2, <1>4
  <2>2. p.board[s] # PIECE_NONE /\ colorOf(p.board[s]) = c
    BY <2>1, PieceFacts
  <2>3. R!Attacks(p.board, s, t)
    BY <1>0, <1>4, <2>1, AttackIs
  <2> QED BY <1>1, <2>1, <2>2, <2>3
<1> QED BY <1>3, <1>4

\* isAttacked says what the rules say, and counts the pawn that can be taken en passant
LEMMA AttackedByRules ==
  ASSUME NEW p, Good(p), NEW t \in Square, NEW c \in Color
  PROVE  isAttacked(p, t, c) <=> R!Attackers(p.board, t, c) # {} \/ EnPassantAttacked(p, t, c)
<1> DEFINE Takes(pt) == \E s : s \in p.piecesBb[c][pt] \cap Strikers(getOccupiedBb(p), c, pt, t)
<1>1. /\ KING \in PieceType /\ PAWN \in PieceType /\ KNIGHT \in PieceType
      /\ BISHOP \in PieceType /\ ROOK \in PieceType /\ QUEEN \in PieceType
      /\ \A pt \in PieceType : pt = KING \/ pt = PAWN \/ pt = KNIGHT \/ pt = BISHOP \/ pt = ROOK \/ pt = QUEEN
  BY DEF PieceType, KING, PAWN, KNIGHT, BISHOP, ROOK, QUEEN
<1>2. R!Attackers(p.board, t, c) # {} <=> \E pt \in PieceType : Takes(pt)
  BY AttackersAre
<1>3. R!Attackers(p.board, t, c) # {} <=>
        Takes(KING) \/ Takes(PAWN) \/ Takes(KNIGHT) \/ Takes(BISHOP) \/ Takes(ROOK) \/ Takes(QUEEN)
  <2> HIDE DEF Takes
  <2> QED BY <1>1, <1>2
<1>4. /\ Strikers(getOccupiedBb(p), c, KING, t) = kingAttacks[t]
      /\ Strikers(getOccupiedBb(p), c, PAWN, t) = pawnAttacks[Other(c)][t]
      /\ Strikers(getOccupiedBb(p), c, KNIGHT, t) = knightAttacks[t]
      /\ Strikers(getOccupiedBb(p), c, BISHOP, t) = bishopAttacks(t, getOccupiedBb(p))
      /\ Strikers(getOccupiedBb(p), c, ROOK, t) = rookAttacks(t, getOccupiedBb(p))
      /\ Strikers(getOccupiedBb(p), c, QUEEN, t) = bishopAttacks(t, getOccupiedBb(p)) \cup rookAttacks(t, getOccupiedBb(p))
  BY StrikersAre
<1>5. /\ Takes(PAWN) <=> pawnAttacks[Other(c)][t] \cap p.piecesBb[c][PAWN] # {}
      /\ Takes(KNIGHT) <=> knightAttacks[t] \cap p.piecesBb[c][KNIGHT] # {}
      /\ Takes(KING) <=> kingAttacks[t] \cap p.piecesBb[c][KING] # {}
  BY <1>4
<1>6. /\ bishopAttacks(t, getOccupiedBb(p)) \cap (p.piecesBb[c][BISHOP] \cup p.piecesBb[c][QUEEN]) # {} =>
           Takes(BISHOP) \/ Takes(QUEEN)
      /\ rookAttacks(t, getOccupiedBb(p)) \cap (p.piecesBb[c][ROOK] \cup p.piecesBb[c][QUEEN]) # {} =>
           Takes(ROOK) \/ Takes(QUEEN)
  BY <1>4
<1>7a. /\ Takes(BISHOP) => bishopAttacks(t, getOccupiedBb(p)) \cap (p.piecesBb[c][BISHOP] \cup p.piecesBb[c][QUEEN]) # {}
       /\ Takes(ROOK) => rookAttacks(t, getOccupiedBb(p)) \cap (p.piecesBb[c][ROOK] \cup p.piecesBb[c][QUEEN]) # {}
       /\ Takes(QUEEN) =>
            \/ bishopAttacks(t, getOccupiedBb(p)) \cap (p.piecesBb[c][BISHOP] \cup p.piecesBb[c][QUEEN]) # {}
            \/ rookAttacks(t, getOccupiedBb(p)) \cap (p.piecesBb[c][ROOK] \cup p.piecesBb[c][QUEEN]) # {}
  BY <1>4
<1> HIDE DEF Takes
<1> QED BY <1>3, <1>5, <1>6, <1>7a DEF isAttacked

-----------------------------------------------------------------------------
\* the attackers of a square on any placement of pieces
Placement(board) == board \in [Square -> Piece \cup {PIECE_NONE}]

\* The attackers by the rules, found from the attacked square.
LEMMA AttackersOf ==
  ASSUME NEW board, Placement(board), NEW occ, Occupies(board, occ),
         NEW t \in Square, NEW c \in Color, NEW s
  PROVE  s \in R!Attackers(board, t, c) <=>
           s \in Square /\ \E pt \in PieceType : board[s] = makePiece(c, pt) /\ s \in Strikers(occ, c, pt, t)
<1>1. s \in R!Attackers(board, t, c) <=>
        s \in Square /\ board[s] # PIECE_NONE /\ colorOf(board[s]) = c /\ R!Attacks(board, s, t)
  BY RulesBoard DEF R!Attackers, R!Army
<1>2. ASSUME s \in R!Attackers(board, t, c)
      PROVE  s \in Square /\ \E pt \in PieceType : board[s] = makePiece(c, pt) /\ s \in Strikers(occ, c, pt, t)
  <2>1. s \in Square /\ board[s] \in Piece /\ colorOf(board[s]) = c /\ R!Attacks(board, s, t)
    BY <1>1, <1>2 DEF Placement
  <2>2. typeOf(board[s]) \in PieceType /\ board[s] = makePiece(c, typeOf(board[s]))
    BY <2>1, PieceFacts
  <2>3. s \in Strikers(occ, c, typeOf(board[s]), t)
    BY <2>1, <2>2, AttackIs
  <2> QED BY <2>1, <2>2, <2>3
<1>3. ASSUME s \in Square, NEW pt \in PieceType, board[s] = makePiece(c, pt), s \in Strikers(occ, c, pt, t)
      PROVE  s \in R!Attackers(board, t, c)
  <2>1. board[s] # PIECE_NONE /\ colorOf(board[s]) = c
    BY <1>3, PieceFacts
  <2>2. R!Attacks(board, s, t)
    BY <1>3, AttackIs
  <2> QED BY <1>1, <1>3, <2>1, <2>2
<1> QED BY <1>2, <1>3

\* The king of a board that has one of the colour.
LEMMA KingFound ==
  ASSUME NEW board, NEW c \in Color, NEW k \in Square,
         \A s \in Square : board[s] = makePiece(c, KING) <=> s = k
  PROVE  /\ R!KingOf(board, c) = k
         /\ R!Checked(board, c) <=> R!Attackers(board, k, Other(c)) # {}
<1>1. R!KingOf(board, c) = CHOOSE s \in Square : board[s] = makePiece(c, KING)
  BY RulesBoard DEF R!KingOf
<1>2. R!KingOf(board, c) = k
  BY <1>1
<1> QED BY <1>2, RulesBoard DEF R!Checked

\* isAttacked finds a king in check exactly if it is by the rules
LEMMA KingChecked ==
  ASSUME NEW p, Good(p), NEW c \in Color
  PROVE  /\ R!Checked(p.board, c) <=> R!Attackers(p.board, p.kingSquare[c], Other(c)) # {}
         /\ isAttacked(p, p.kingSquare[c], Other(c)) <=> R!Checked(p.board, c)
<1> DEFINE k == p.kingSquare[c]
<1>1. k \in Square /\ \A s \in Square : p.board[s] = makePiece(c, KING) <=> s = k
  BY DEF Good, KingsOK
<1>2. R!Checked(p.board, c) <=> R!Attackers(p.board, k, Other(c)) # {}
  BY <1>1, KingFound
<1>3. Other(c) \in Color /\ Other(Other(c)) = c
  BY OtherColor
<1>4. ~EnPassantAttacked(p, k, Other(c))
  BY <1>1, <1>3, Kinds DEF EnPassantAttacked
<1> QED BY <1>1, <1>2, <1>3, <1>4, AttackedByRules

-----------------------------------------------------------------------------
(* What a change of the occupied squares does to a slider. *)

\* a corner of the board lies between no two squares of a line
LEMMA NoCornerBetween ==
  ASSUME NEW d \in Directions, NEW s \in Square, NEW n \in 1 .. 7, NEW i \in 1 .. n - 1, Free(d, s, n)
  PROVE  s + i * d \notin {0, 7, 56, 63}
<1> DEFINE a == fileOf(s)
           b == rankOf(s)
<1>1. a \in 0 .. 7 /\ b \in 0 .. 7 /\ s = 8 * b + a
  BY Coordinates
<1>2. d \in {8, 1, -8, -1, 9, -7, -9, 7}
  BY DirectionsAre
<1>3. a + n * Run(d) \in 0 .. 7 /\ b + n * Rise(d) \in 0 .. 7
  <2>1. n \in 0 .. n
    OBVIOUS
  <2> QED BY <2>1, Line, Coordinates
<1> HIDE DEF a, b
<1> QED BY <1>1, <1>2, <1>3 DEF Run, Rise

-----------------------------------------------------------------------------
(* The moves of the rules, other than castling. *)
RulesTypes ==
  /\ R!NORMAL = NORMAL /\ R!PROMOTION = PROMOTION /\ R!ENPASSANT = ENPASSANT /\ R!CASTLING = CASTLING
  /\ \A s, t, type : R!createMove(s, t, type) = createMove(s, t, type)
  /\ \A s, t, pt : R!createPromotion(s, t, pt) = createPromotion(s, t, pt)
  /\ \A c : R!promotionRank(c) = promotionRank(c)

\* The names of Rules are those of the chess core.
LEMMA RulesTypesAre == RulesTypes
<1>1. R!NORMAL = NORMAL /\ R!PROMOTION = PROMOTION /\ R!ENPASSANT = ENPASSANT /\ R!CASTLING = CASTLING
  BY DEF R!NORMAL, NORMAL, R!PROMOTION, PROMOTION, R!ENPASSANT, ENPASSANT, R!CASTLING, CASTLING
<1>2. R!KNIGHT = KNIGHT
  BY RulesBoard
<1>3. \A s, t, type : R!createMove(s, t, type) = createMove(s, t, type)
  BY <1>2 DEF R!createMove, createMove
<1>4. \A s, t, pt : R!createPromotion(s, t, pt) = createPromotion(s, t, pt)
  BY <1>1, <1>3 DEF R!createPromotion, createPromotion
<1>5. \A c : R!promotionRank(c) = promotionRank(c)
  BY DEF R!promotionRank, promotionRank, R!WHITE, WHITE
<1> QED BY <1>1, <1>3, <1>4, <1>5 DEF RulesTypes

\* a step or a double step of a pawn
Steps(board, c, s, t) ==
  /\ FilesApart(s, t) = 0
  /\ board[t] = PIECE_NONE
  /\ \/ R!Ahead(c, s, t) = 1
     \/ /\ R!Ahead(c, s, t) = 2
        /\ rankOf(s) = (IF c = WHITE THEN 1 ELSE 6)
        /\ R!Clear(board, s, t)

\* TypesOf, said once more
LEMMA TypesAre ==
  ASSUME NEW board, NEW c, NEW ep, NEW s, NEW t, NEW type
  PROVE  type \in R!TypesOf(board, c, ep, s, t) <=>
           /\ t \notin R!Army(board, c)
           /\ \/ board[s] # makePiece(c, PAWN) /\ R!Attacks(board, s, t) /\ type = NORMAL
              \/ /\ board[s] = makePiece(c, PAWN)
                 /\ Steps(board, c, s, t) \/ (R!Attacks(board, s, t) /\ board[t] # PIECE_NONE)
                 /\ type = (IF rankOf(t) = promotionRank(c) THEN PROMOTION ELSE NORMAL)
              \/ /\ board[s] = makePiece(c, PAWN)
                 /\ R!Attacks(board, s, t) /\ t = ep /\ board[t] = PIECE_NONE /\ type = ENPASSANT
<1>1. /\ R!makePiece(c, R!PAWN) = makePiece(c, PAWN) /\ R!PIECE_NONE = PIECE_NONE
      /\ R!rankOf(t) = rankOf(t) /\ R!rankOf(s) = rankOf(s) /\ R!promotionRank(c) = promotionRank(c)
      /\ R!NORMAL = NORMAL /\ R!PROMOTION = PROMOTION /\ R!ENPASSANT = ENPASSANT
      /\ R!FileGap(s, t) = FilesApart(s, t) /\ R!WHITE = WHITE
  BY RulesBoard, RulesLines, RulesTypesAre DEF RulesTypes
<1>2. R!TypesOf(board, c, ep, s, t) =
        LET pawn == board[s] = makePiece(c, PAWN)
            free == board[t] = PIECE_NONE
            takes == R!Attacks(board, s, t) /\ ~free
        IN IF t \in R!Army(board, c) THEN {}
           ELSE IF ~pawn THEN IF R!Attacks(board, s, t) THEN {NORMAL} ELSE {}
           ELSE (IF Steps(board, c, s, t) \/ takes
                 THEN {IF rankOf(t) = promotionRank(c) THEN PROMOTION ELSE NORMAL} ELSE {})
                \cup (IF R!Attacks(board, s, t) /\ t = ep /\ free THEN {ENPASSANT} ELSE {})
  BY <1>1 DEF R!TypesOf, Steps
<1> QED BY <1>2

\* the moves of the board, one by one
LEMMA BoardMoveIs ==
  ASSUME NEW board, NEW c, NEW ep, NEW m
  PROVE  m \in R!BoardMoves(board, c, ep) <=>
           /\ m.from \in R!Army(board, c) /\ m.to \in Square
           /\ m.type \in R!TypesOf(board, c, ep, m.from, m.to)
           /\ \/ m.type # PROMOTION /\ m = createMove(m.from, m.to, m.type)
              \/ /\ m.type = PROMOTION /\ m.prom \in KNIGHT .. QUEEN
                 /\ m = createPromotion(m.from, m.to, m.prom)
<1> DEFINE Of(s, t) == LET types == R!TypesOf(board, c, ep, s, t)
                       IN {createMove(s, t, type) : type \in types \ {PROMOTION}}
                          \cup {createPromotion(s, t, pt) :
                                 pt \in IF PROMOTION \in types THEN KNIGHT .. QUEEN ELSE {}}
<1>1. R!BoardMoves(board, c, ep) = UNION {UNION {Of(s, t) : t \in Square} : s \in R!Army(board, c)}
  BY RulesBoard, RulesTypesAre DEF R!BoardMoves, RulesTypes
<1>2. m \in R!BoardMoves(board, c, ep) <=> \E s \in R!Army(board, c) : \E t \in Square : m \in Of(s, t)
  BY <1>1
<1>3. \A s, t : m \in Of(s, t) <=>
        \/ \E type \in R!TypesOf(board, c, ep, s, t) \ {PROMOTION} : m = createMove(s, t, type)
        \/ PROMOTION \in R!TypesOf(board, c, ep, s, t) /\ \E pt \in KNIGHT .. QUEEN : m = createPromotion(s, t, pt)
  OBVIOUS
<1>4. /\ \A s, t, type : /\ createMove(s, t, type).from = s /\ createMove(s, t, type).to = t
                         /\ createMove(s, t, type).type = type
      /\ \A s, t, pt : /\ createPromotion(s, t, pt).from = s /\ createPromotion(s, t, pt).to = t
                       /\ createPromotion(s, t, pt).type = PROMOTION /\ createPromotion(s, t, pt).prom = pt
  BY DEF createMove, createPromotion
<1> HIDE DEF Of
<1>5. ASSUME NEW s \in R!Army(board, c), NEW t \in Square, m \in Of(s, t)
      PROVE  /\ m.from \in R!Army(board, c) /\ m.to \in Square
             /\ m.type \in R!TypesOf(board, c, ep, m.from, m.to)
             /\ \/ m.type # PROMOTION /\ m = createMove(m.from, m.to, m.type)
                \/ /\ m.type = PROMOTION /\ m.prom \in KNIGHT .. QUEEN
                   /\ m = createPromotion(m.from, m.to, m.prom)
  <2>1. CASE \E type \in R!TypesOf(board, c, ep, s, t) \ {PROMOTION} : m = createMove(s, t, type)
    BY <1>4, <1>5, <2>1
  <2>2. CASE PROMOTION \in R!TypesOf(board, c, ep, s, t) /\ \E pt \in KNIGHT .. QUEEN : m = createPromotion(s, t, pt)
    BY <1>4, <1>5, <2>2
  <2> QED BY <1>3, <1>5, <2>1, <2>2
<1>6. ASSUME /\ m.from \in R!Army(board, c) /\ m.to \in Square
             /\ m.type \in R!TypesOf(board, c, ep, m.from, m.to)
             /\ \/ m.type # PROMOTION /\ m = createMove(m.from, m.to, m.type)
                \/ /\ m.type = PROMOTION /\ m.prom \in KNIGHT .. QUEEN
                   /\ m = createPromotion(m.from, m.to, m.prom)
      PROVE  m \in Of(m.from, m.to)
  BY <1>3, <1>6
<1> QED BY <1>2, <1>5, <1>6

\* the square of the pawn that is taken en passant
CapSq(p, m) == m.to + pawnPush(Other(p.nextPlayer))

\* what a move of the rules finds on the board of a sound position
LEMMA RulesMove ==
  ASSUME NEW p, Good(p), NEW m, m \in R!BoardMoves(p.board, p.nextPlayer, p.enPassantSquare)
  PROVE  /\ m.from \in Square /\ m.to \in Square /\ m.from # m.to
         /\ \E pt \in PieceType : p.board[m.from] = makePiece(p.nextPlayer, pt)
         /\ \A pt \in PieceType : p.board[m.to] # makePiece(p.nextPlayer, pt)
         /\ p.board[m.to] = PIECE_NONE \/ R!Attacks(p.board, m.from, m.to)
         /\ m.type \in {NORMAL, PROMOTION, ENPASSANT}
         /\ m.type = PROMOTION => p.board[m.from] = makePiece(p.nextPlayer, PAWN) /\ m.prom \in KNIGHT .. QUEEN
         /\ m.type = ENPASSANT =>
              /\ p.board[m.from] = makePiece(p.nextPlayer, PAWN) /\ p.board[m.to] = PIECE_NONE
              /\ m.to = p.enPassantSquare /\ R!Attacks(p.board, m.from, m.to)
<1> DEFINE us == p.nextPlayer
           army == R!Army(p.board, us)
<1>1. /\ m.from \in army /\ m.to \in Square
      /\ m.type \in R!TypesOf(p.board, us, p.enPassantSquare, m.from, m.to)
      /\ m.type = PROMOTION => m.prom \in KNIGHT .. QUEEN
  BY BoardMoveIs
<1>2. army = {s \in Square : p.board[s] # PIECE_NONE /\ colorOf(p.board[s]) = us}
  BY RulesBoard DEF R!Army
<1>3. /\ m.to \notin army
      /\ \/ p.board[m.from] # makePiece(us, PAWN) /\ R!Attacks(p.board, m.from, m.to) /\ m.type = NORMAL
         \/ /\ p.board[m.from] = makePiece(us, PAWN)
            /\ Steps(p.board, us, m.from, m.to) \/ (R!Attacks(p.board, m.from, m.to) /\ p.board[m.to] # PIECE_NONE)
            /\ m.type = (IF rankOf(m.to) = promotionRank(us) THEN PROMOTION ELSE NORMAL)
         \/ /\ p.board[m.from] = makePiece(us, PAWN)
            /\ R!Attacks(p.board, m.from, m.to) /\ m.to = p.enPassantSquare /\ p.board[m.to] = PIECE_NONE
            /\ m.type = ENPASSANT
  BY <1>1, TypesAre
<1>4. m.from \in Square /\ m.from # m.to /\ p.board[m.from] \in Piece /\ colorOf(p.board[m.from]) = us
  BY <1>1, <1>2, <1>3, BitboardsAre
<1>5. typeOf(p.board[m.from]) \in PieceType /\ p.board[m.from] = makePiece(us, typeOf(p.board[m.from]))
  BY <1>4, PieceFacts
<1>6. \A pt \in PieceType : p.board[m.to] # makePiece(us, pt)
  BY <1>1, <1>2, <1>3, PieceFacts, BitboardsAre
<1>7a. Steps(p.board, us, m.from, m.to) => p.board[m.to] = PIECE_NONE
  BY DEF Steps
<1>8. NORMAL # PROMOTION /\ NORMAL # ENPASSANT /\ PROMOTION # ENPASSANT
  BY Types
<1> HIDE DEF army, us
<1>9. m.type \in {NORMAL, PROMOTION, ENPASSANT}
  BY <1>3
<1>10. p.board[m.to] = PIECE_NONE \/ R!Attacks(p.board, m.from, m.to)
  BY <1>3, <1>7a
<1>11. m.type = PROMOTION => p.board[m.from] = makePiece(us, PAWN) /\ m.prom \in KNIGHT .. QUEEN
  BY <1>1, <1>3, <1>8
<1>12. m.type = ENPASSANT =>
         /\ p.board[m.from] = makePiece(us, PAWN) /\ p.board[m.to] = PIECE_NONE
         /\ m.to = p.enPassantSquare /\ R!Attacks(p.board, m.from, m.to)
  BY <1>3, <1>8
<1> QED BY <1>1, <1>4, <1>5, <1>6, <1>9, <1>10, <1>11, <1>12 DEF us

-----------------------------------------------------------------------------
Dropped(p, m) == IF m.type = PROMOTION THEN makePiece(p.nextPlayer, m.prom) ELSE p.board[m.from]
Gone(p, m) == IF m.type = ENPASSANT THEN {CapSq(p, m)} ELSE {}
\* the squares that givesCheck takes for occupied after a move that is no castling
OccupiedAfter(p, m) == Xor(Xor(getOccupiedBb(p), {m.from}) \cup {m.to}, Gone(p, m))

\* an attack of a pawn
LEMMA PawnAttackIs ==
  ASSUME NEW board, NEW c \in Color, NEW s \in Square, NEW t \in Square, board[s] = makePiece(c, PAWN)
  PROVE  R!Attacks(board, s, t) <=> FilesApart(s, t) = 1 /\ R!Ahead(c, s, t) = 1
<1>1. PAWN \in PieceType /\ PAWN # KING
  BY Kinds
<1>2. R!typeOf(board[s]) = PAWN /\ R!colorOf(board[s]) = c /\ board[s] # R!PIECE_NONE
  BY <1>1, PieceFacts, RulesBoard
<1>3. R!Attacks(board, s, t) <=> s # t /\ FilesApart(s, t) = 1 /\ R!Ahead(c, s, t) = 1
  <2>1. R!PAWN = PAWN /\ R!KING = KING /\ R!FileGap(s, t) = FilesApart(s, t)
    BY RulesBoard, RulesLines
  <2>2. R!KNIGHT = KNIGHT /\ R!BISHOP = BISHOP /\ R!ROOK = ROOK /\ R!QUEEN = QUEEN
    BY RulesBoard
  <2>3. PAWN # KNIGHT /\ PAWN # BISHOP /\ PAWN # ROOK /\ PAWN # QUEEN
    BY DEF PAWN, KNIGHT, BISHOP, ROOK, QUEEN
  <2> QED BY <1>1, <1>2, <2>1, <2>2, <2>3 DEF R!Attacks
<1>4. s = t => FilesApart(s, t) = 0
  BY SamePlace
<1> QED BY <1>3, <1>4

\* What a move en passant takes is a pawn of the other side.
LEMMA EnPassantTaken ==
  ASSUME NEW p, Good(p), NEW m, m \in R!BoardMoves(p.board, p.nextPlayer, p.enPassantSquare), m.type = ENPASSANT
  PROVE  /\ CapSq(p, m) \in Square
         /\ p.board[CapSq(p, m)] = makePiece(Other(p.nextPlayer), PAWN)
         /\ R!squareOf(R!fileOf(m.to), R!rankOf(m.from)) = CapSq(p, m)
         /\ CapSq(p, m) # m.to /\ CapSq(p, m) # m.from
<1> DEFINE us == p.nextPlayer
           them == Other(us)
<1>1. us \in Color /\ them \in Color /\ us # them
  BY BitboardsAre, OtherColor
<1>2. /\ m.from \in Square /\ m.to \in Square /\ m.to = p.enPassantSquare /\ p.board[m.to] = PIECE_NONE
      /\ p.board[m.from] = makePiece(us, PAWN) /\ R!Attacks(p.board, m.from, m.to)
  BY RulesMove
<1>3. p.enPassantSquare # SQ_NONE
  BY <1>2 DEF Square, SQ_NONE
<1>4. CapSq(p, m) \in Square /\ p.board[CapSq(p, m)] = makePiece(them, PAWN)
  BY <1>2, <1>3 DEF Good, EnPassantOK, CapSq
<1>5. FilesApart(m.from, m.to) = 1 /\ R!Ahead(us, m.from, m.to) = 1
  BY <1>1, <1>2, PawnAttackIs
<1>6. (rankOf(m.to) - rankOf(m.from)) * (IF us = WHITE THEN 1 ELSE -1) = 1
  BY <1>5, RulesBoard DEF R!Ahead
<1>7a. CapSq(p, m) = m.to + (IF us = WHITE THEN -8 ELSE 8)
  BY <1>1 DEF CapSq, pawnPush, Other, NORTH, SOUTH, WHITE, BLACK, Color
<1>8. R!squareOf(R!fileOf(m.to), R!rankOf(m.from)) = 8 * rankOf(m.from) + fileOf(m.to)
  BY RulesBoard DEF R!squareOf
<1>9. /\ m.to = 8 * rankOf(m.to) + fileOf(m.to)
      /\ rankOf(m.to) \in 0 .. 7 /\ fileOf(m.to) \in 0 .. 7 /\ rankOf(m.from) \in 0 .. 7
  BY <1>2, Coordinates
<1>10. 8 * rankOf(m.from) + fileOf(m.to) = CapSq(p, m)
  <2>1. CASE us = WHITE
    BY <1>6, <1>7a, <1>9, <2>1
  <2>2. CASE us # WHITE
    BY <1>6, <1>7a, <1>9, <2>2
  <2> QED BY <2>1, <2>2
<1>11. CapSq(p, m) # m.to
  BY <1>2, <1>4, Kinds, <1>1
<1>12. CapSq(p, m) # m.from
  BY <1>2, <1>4, Kinds, <1>1
<1> QED BY <1>4, <1>8, <1>10, <1>11, <1>12

\* the board after a move that is no castling
LEMMA AfterIs ==
  ASSUME NEW p, Good(p), NEW m, m \in R!BoardMoves(p.board, p.nextPlayer, p.enPassantSquare)
  PROVE  LET there == R!After(p.board, p.nextPlayer, m)
         IN /\ Placement(there)
            /\ \A s \in Square : there[s] = IF s = m.to THEN Dropped(p, m)
                                            ELSE IF s \in {m.from} \cup Gone(p, m) THEN PIECE_NONE
                                            ELSE p.board[s]
            /\ \E pt \in PieceType : Dropped(p, m) = makePiece(p.nextPlayer, pt)
            /\ m.to \notin Gone(p, m)
<1> DEFINE us == p.nextPlayer
           there == R!After(p.board, us, m)
           lifted == [p.board EXCEPT ![m.from] = PIECE_NONE]
           dropped == [lifted EXCEPT ![m.to] = Dropped(p, m)]
<1>1. us \in Color /\ p.board \in [Square -> Piece \cup {PIECE_NONE}]
  BY DEF Good, BoardOK
<1>2. m.from \in Square /\ m.to \in Square /\ m.from # m.to /\ m.type \in {NORMAL, PROMOTION, ENPASSANT}
  BY RulesMove
<1>3. \E pt \in PieceType : Dropped(p, m) = makePiece(us, pt)
  <2>1. CASE m.type = PROMOTION
    <3>1. m.prom \in PieceType
      BY <2>1, RulesMove DEF PieceType, KING, KNIGHT, QUEEN
    <3> QED BY <2>1, <3>1 DEF Dropped
  <2>2. CASE m.type # PROMOTION
    BY <2>2, RulesMove DEF Dropped
  <2> QED BY <2>1, <2>2
<1>4. Dropped(p, m) \in Piece
  BY <1>1, <1>3, PieceFacts
<1>5. ENPASSANT # CASTLING /\ NORMAL # CASTLING /\ PROMOTION # CASTLING /\ NORMAL # ENPASSANT /\ PROMOTION # ENPASSANT
  BY Types
<1>6. R!After(p.board, us, m) =
        CASE m.type = ENPASSANT -> [dropped EXCEPT ![R!squareOf(R!fileOf(m.to), R!rankOf(m.from))] = PIECE_NONE]
          [] m.type = CASTLING -> R!After(p.board, us, m)
          [] OTHER -> dropped
  BY RulesBoard, RulesTypesAre DEF R!After, RulesTypes, Dropped
<1>7a. /\ lifted \in [Square -> Piece \cup {PIECE_NONE}] /\ dropped \in [Square -> Piece \cup {PIECE_NONE}]
       /\ \A s \in Square : dropped[s] = IF s = m.to THEN Dropped(p, m)
                                         ELSE IF s = m.from THEN PIECE_NONE ELSE p.board[s]
  BY <1>1, <1>2, <1>4
<1>8. CASE m.type = ENPASSANT
  <2>1. there = [dropped EXCEPT ![CapSq(p, m)] = PIECE_NONE]
    BY <1>5, <1>6, <1>8, EnPassantTaken
  <2>2. CapSq(p, m) \in Square /\ CapSq(p, m) # m.to /\ Gone(p, m) = {CapSq(p, m)}
    BY <1>8, EnPassantTaken DEF Gone
  <2> HIDE DEF dropped, there
  <2> QED BY <1>3, <1>7a, <2>1, <2>2 DEF Placement, there
<1>9. CASE m.type # ENPASSANT
  <2>1. there = dropped
    BY <1>2, <1>5, <1>6, <1>9
  <2>2. Gone(p, m) = {}
    BY <1>9 DEF Gone
  <2> HIDE DEF dropped, there
  <2> QED BY <1>3, <1>7a, <2>1, <2>2 DEF Placement, there
<1> QED BY <1>8, <1>9

\* The occupancy that givesCheck reckons with is that of the board after the move.
LEMMA OccupiesAfter ==
  ASSUME NEW p, Good(p), NEW m, m \in R!BoardMoves(p.board, p.nextPlayer, p.enPassantSquare)
  PROVE  /\ Occupies(R!After(p.board, p.nextPlayer, m), OccupiedAfter(p, m))
         /\ \A s \in Square : s \in OccupiedAfter(p, m) <=>
              \/ s = m.to
              \/ p.board[s] # PIECE_NONE /\ s \notin {m.from} \cup Gone(p, m)
<1> DEFINE there == R!After(p.board, p.nextPlayer, m)
           occ == getOccupiedBb(p)
<1>1. occ = {s \in Square : p.board[s] # PIECE_NONE}
  BY BitboardsAre
<1>2. m.from \in Square /\ p.board[m.from] # PIECE_NONE /\ m.to \in Square /\ m.from # m.to
  BY RulesMove, PieceFacts, BitboardsAre
<1>3. \A s \in Gone(p, m) : s \in Square /\ p.board[s] # PIECE_NONE /\ s # m.from /\ s # m.to
  <2>1. CASE m.type = ENPASSANT
    BY <2>1, EnPassantTaken, PieceFacts, Kinds, BitboardsAre DEF Gone
  <2>2. CASE m.type # ENPASSANT
    BY <2>2 DEF Gone
  <2> QED BY <2>1, <2>2
<1>4. \A A, B : Xor(A, B) = (A \ B) \cup (B \ A)
  BY DEF Xor, SymDiff
<1>5. Xor(occ, {m.from}) = occ \ {m.from}
  BY <1>1, <1>2, <1>4
<1>6. OccupiedAfter(p, m) = ((occ \ {m.from}) \cup {m.to}) \ Gone(p, m)
  BY <1>1, <1>3, <1>4, <1>5 DEF OccupiedAfter
<1>7a. \A s \in Square : s \in OccupiedAfter(p, m) <=>
         \/ s = m.to
         \/ p.board[s] # PIECE_NONE /\ s \notin {m.from} \cup Gone(p, m)
  BY <1>1, <1>2, <1>3, <1>6
<1>8. \A s \in Square : there[s] = IF s = m.to THEN Dropped(p, m)
                                   ELSE IF s \in {m.from} \cup Gone(p, m) THEN PIECE_NONE
                                   ELSE p.board[s]
  BY AfterIs
<1>9. Dropped(p, m) # PIECE_NONE
  BY AfterIs, PieceFacts, BitboardsAre
<1> HIDE DEF there
<1>10. Occupies(there, OccupiedAfter(p, m))
  BY <1>7a, <1>8, <1>9 DEF Occupies
<1> QED BY <1>7a, <1>10 DEF there

-----------------------------------------------------------------------------
(* givesCheck, for moves that are no castling. *)

\* looked up from the piece or from the king
LEMMA DirectIs ==
  ASSUME NEW c \in Color, NEW s \in Square, NEW k \in Square, NEW occ, NEW pt \in PieceType, pt # KING
  PROVE  s \in Strikers(occ, c, pt, k) <=>
           \/ pt = PAWN /\ k \in pawnAttacks[c][s]
           \/ pt # PAWN /\ k \in getAttacksBb(pt, s, occ)
<1>1. Other(c) \in Color /\ Other(Other(c)) = c
  BY OtherColor
<1>2. pt \in {PAWN, KNIGHT, BISHOP, ROOK, QUEEN}
  BY DEF PieceType, KING, PAWN, KNIGHT, BISHOP, ROOK, QUEEN
<1>3. PAWN = 2 /\ KNIGHT = 3 /\ BISHOP = 4 /\ ROOK = 5 /\ QUEEN = 6 /\ KING = 1
  BY DEF KING, PAWN, KNIGHT, BISHOP, ROOK, QUEEN
<1>4. CASE pt = PAWN
  <2>1. s \in pawnAttacks[Other(c)][k] <=> FilesApart(s, k) = 1 /\ R!Ahead(c, s, k) = 1
    BY JumpsByRules
  <2>2. k \in pawnAttacks[c][s] <=> FilesApart(k, s) = 1 /\ R!Ahead(Other(c), k, s) = 1
    BY <1>1, JumpsByRules
  <2>3. FilesApart(s, k) = FilesApart(k, s)
    <3>1. fileOf(s) \in Int /\ fileOf(k) \in Int
      BY Coordinates
    <3>2. Gap(fileOf(s), fileOf(k)) = Gap(fileOf(k), fileOf(s))
      <4> DEFINE a == fileOf(s)
                 b == fileOf(k)
      <4>1. a \in Int /\ b \in Int
        BY <3>1
      <4> HIDE DEF a, b
      <4>2. Gap(a, b) = Gap(b, a)
        BY <4>1 DEF Gap, Larger
      <4> QED BY <4>2 DEF a, b
    <3> QED BY <3>2 DEF FilesApart
  <2>4. R!Ahead(c, s, k) = R!Ahead(Other(c), k, s)
    <3>1. /\ R!Ahead(c, s, k) = (rankOf(k) - rankOf(s)) * (IF c = WHITE THEN 1 ELSE -1)
          /\ R!Ahead(Other(c), k, s) = (rankOf(s) - rankOf(k)) * (IF Other(c) = WHITE THEN 1 ELSE -1)
      BY RulesBoard DEF R!Ahead
    <3>2. rankOf(k) \in Int /\ rankOf(s) \in Int
      BY Coordinates
    <3>3. CASE c = WHITE
      <4>1. Other(c) # WHITE
        BY <3>3 DEF Other, WHITE
      <4> QED BY <3>1, <3>2, <3>3, <4>1
    <3>4. CASE c # WHITE
      <4>1. Other(c) = WHITE
        BY <3>4 DEF Other, WHITE, Color, BLACK
      <4> QED BY <3>1, <3>2, <3>4, <4>1
    <3> QED BY <3>3, <3>4
  <2> QED BY <1>4, <2>1, <2>2, <2>3, <2>4, StrikersAre
<1>5. CASE pt = KNIGHT
  BY <1>3, <1>5, StrikersAre, AttacksBack DEF getAttacksBb
<1>6. CASE pt = BISHOP
  BY <1>3, <1>6, StrikersAre, AttacksBack DEF getAttacksBb
<1>7a. CASE pt = ROOK
  BY <1>3, <1>7a, StrikersAre, AttacksBack DEF getAttacksBb
<1>8. CASE pt = QUEEN
  BY <1>3, <1>8, StrikersAre, AttacksBack DEF getAttacksBb
<1> QED BY <1>2, <1>4, <1>5, <1>6, <1>7a, <1>8

\* fewer pieces, or the piece itself, do not keep a slider from where it got
LEMMA StillSlides ==
  ASSUME NEW k \in Square, NEW s \in Square, NEW occ, NEW less, less \subseteq occ \cup {s}
  PROVE  /\ s \in bishopAttacks(k, occ) => s \in bishopAttacks(k, less)
         /\ s \in rookAttacks(k, occ) => s \in rookAttacks(k, less)
<1>1. ASSUME NEW dirs, dirs \subseteq Directions, Slides(dirs, k, occ, s)
      PROVE  Slides(dirs, k, less, s)
  <2>1. ASSUME NEW d \in dirs, NEW n \in 1 .. 7, NEW i \in 1 .. n - 1, s = k + n * d, k + i * d \in less \ occ
        PROVE  FALSE
    <3>1. k + i * d = s
      BY <2>1
    <3>2. d \in Directions
      BY <1>1
    <3> QED BY <2>1, <3>1, <3>2, BetweenEnds
  <2> QED BY <1>1, <2>1, SlidesUnless
<1> QED BY <1>1, DirectionSets, SlidersSlide

\* a discovered check, too, is one by a slider
Sliders(p, c, k, occ) ==
  {s \in bishopAttacks(k, occ) : s \in p.piecesBb[c][BISHOP] \cup p.piecesBb[c][QUEEN]}
    \cup {s \in rookAttacks(k, occ) : s \in p.piecesBb[c][ROOK] \cup p.piecesBb[c][QUEEN]}

\* The sliders that givesCheck finds around the king.
LEMMA SlidersAre ==
  ASSUME NEW p, Good(p), NEW c \in Color, NEW k \in Square, NEW occ, NEW s
  PROVE  s \in Sliders(p, c, k, occ) <=>
           s \in Square /\ \E pt \in {BISHOP, ROOK, QUEEN} : p.board[s] = makePiece(c, pt) /\ s \in Strikers(occ, c, pt, k)
<1>1. {BISHOP, ROOK, QUEEN} \subseteq PieceType
  BY DEF PieceType, KING, BISHOP, ROOK, QUEEN
<1>2. \A pt \in {BISHOP, ROOK, QUEEN} : s \in p.piecesBb[c][pt] <=> s \in Square /\ p.board[s] = makePiece(c, pt)
  BY <1>1, BitboardsAre DEF Placed
<1> QED BY <1>2, StrikersAre DEF Sliders

\* the king of the other side stays where it is
LEMMA KingAfter ==
  ASSUME NEW p, Good(p), ~R!Checked(p.board, Other(p.nextPlayer)),
         NEW m, m \in R!BoardMoves(p.board, p.nextPlayer, p.enPassantSquare)
  PROVE  LET there == R!After(p.board, p.nextPlayer, m)
             them == Other(p.nextPlayer)
         IN /\ p.kingSquare[them] \in Square
            /\ p.kingSquare[them] \notin {m.from, m.to} \cup Gone(p, m)
            /\ \A s \in Square : there[s] = makePiece(them, KING) <=> s = p.kingSquare[them]
<1> DEFINE us == p.nextPlayer
           them == Other(us)
           there == R!After(p.board, us, m)
           k == p.kingSquare[them]
<1>1. us \in Color /\ them \in Color /\ us # them /\ Other(them) = us
  BY BitboardsAre, OtherColor
<1>2. k \in Square /\ \A s \in Square : p.board[s] = makePiece(them, KING) <=> s = k
  BY <1>1 DEF Good, KingsOK
<1>3. m.from \in Square /\ m.to \in Square /\ \E pt \in PieceType : p.board[m.from] = makePiece(us, pt)
  BY RulesMove
<1>4. k # m.from
  BY <1>1, <1>2, <1>3, Kinds
<1>5. k # m.to
  <2>1. SUFFICES ASSUME k = m.to PROVE FALSE
    OBVIOUS
  <2>2. p.board[m.to] # PIECE_NONE
    BY <1>1, <1>2, <1>3, <2>1, Kinds
  <2>3. R!Attacks(p.board, m.from, k)
    BY <2>1, <2>2, RulesMove
  <2>4. m.from \in R!Attackers(p.board, k, us)
    BY <1>1, <1>3, <2>3, RulesBoard, PieceFacts DEF R!Attackers, R!Army
  <2> QED BY <1>1, <2>4, KingChecked
<1>6. k \notin Gone(p, m)
  <2>1. CASE m.type = ENPASSANT
    BY <1>1, <1>2, <2>1, EnPassantTaken, Kinds DEF Gone
  <2>2. CASE m.type # ENPASSANT
    BY <2>2 DEF Gone
  <2> QED BY <2>1, <2>2
<1>7a. PICK pt \in PieceType : Dropped(p, m) = makePiece(us, pt)
  BY AfterIs
<1>8. Dropped(p, m) # makePiece(them, KING) /\ PIECE_NONE # makePiece(them, KING)
  BY <1>1, <1>7a, Kinds
<1>9. \A s \in Square : there[s] = IF s = m.to THEN Dropped(p, m)
                                   ELSE IF s \in {m.from} \cup Gone(p, m) THEN PIECE_NONE
                                   ELSE p.board[s]
  BY AfterIs
<1> HIDE DEF there
<1>10. \A s \in Square : there[s] = makePiece(them, KING) <=> s = k
  BY <1>2, <1>4, <1>5, <1>6, <1>8, <1>9
<1> QED BY <1>2, <1>4, <1>5, <1>6, <1>10 DEF there

-----------------------------------------------------------------------------

\* givesCheck of a move that is no castling: the piece that moved, or a slider
LEMMA GivesIs ==
  ASSUME NEW p, Good(p), NEW m, m \in R!BoardMoves(p.board, p.nextPlayer, p.enPassantSquare),
         NEW pt \in PieceType, Dropped(p, m) = makePiece(p.nextPlayer, pt)
  PROVE  givesCheck(p, m) <=>
           LET us == p.nextPlayer
               k == p.kingSquare[Other(us)]
               after == OccupiedAfter(p, m)
           IN \/ pt # KING /\ m.to \in Strikers(after, us, pt, k)
              \/ Sliders(p, us, k, after) # {}
<1> DEFINE us == p.nextPlayer
           k == p.kingSquare[Other(us)]
           after == OccupiedAfter(p, m)
           pt2 == CASE m.type = PROMOTION -> m.prom
                    [] m.type = CASTLING -> ROOK
                    [] OTHER -> typeOf(p.board[m.from])
           to == IF m.type = CASTLING THEN rookCrossing[m.to] ELSE m.to
           taken == IF m.type = ENPASSANT THEN {m.to + pawnPush(Other(us))} ELSE {}
           after2 == Xor(Xor(getOccupiedBb(p), {m.from}) \cup {to}, taken)
<1>1. us \in Color /\ Other(us) \in Color /\ k \in Square
  BY BitboardsAre DEF Good, KingsOK
<1>2. m.to \in Square /\ m.type \in {NORMAL, PROMOTION, ENPASSANT}
  BY RulesMove
<1>3. m.type # CASTLING
  BY <1>2, Types
<1>4. to = m.to
  BY <1>3
<1>5. taken = Gone(p, m)
  BY DEF Gone, CapSq
<1>6. after2 = after
  BY <1>4, <1>5 DEF OccupiedAfter
<1>7a. pt2 = pt
  <2>1. CASE m.type = PROMOTION
    <3>1. m.prom \in PieceType
      BY <2>1, RulesMove DEF PieceType, KING, KNIGHT, QUEEN
    <3>2. makePiece(us, m.prom) = makePiece(us, pt)
      BY <2>1 DEF Dropped
    <3>3. m.prom = pt
      BY <1>1, <3>1, <3>2, Kinds
    <3> QED BY <1>3, <2>1, <3>3
  <2>2. CASE m.type # PROMOTION
    <3>1. p.board[m.from] = makePiece(us, pt)
      BY <2>2 DEF Dropped
    <3> QED BY <1>1, <1>3, <2>2, <3>1, PieceFacts
  <2> QED BY <2>1, <2>2
<1>8. givesCheck(p, m) <=>
        \/ /\ pt2 = PAWN
           /\ k \in pawnAttacks[us][to]
        \/ /\ pt2 \notin {PAWN, KING}
           /\ k \in getAttacksBb(pt2, to, after2)
        \/ bishopAttacks(k, after2) \cap (p.piecesBb[us][BISHOP] \cup p.piecesBb[us][QUEEN]) /= {}
        \/ rookAttacks(k, after2) \cap (p.piecesBb[us][ROOK] \cup p.piecesBb[us][QUEEN]) /= {}
  BY DEF givesCheck
<1> HIDE DEF us, k, after, pt2, to, taken, after2
<1>9. Sliders(p, us, k, after) # {} <=>
        \/ bishopAttacks(k, after) \cap (p.piecesBb[us][BISHOP] \cup p.piecesBb[us][QUEEN]) /= {}
        \/ rookAttacks(k, after) \cap (p.piecesBb[us][ROOK] \cup p.piecesBb[us][QUEEN]) /= {}
  BY DEF Sliders
<1>10. pt # KING => (m.to \in Strikers(after, us, pt, k) <=>
                       \/ pt = PAWN /\ k \in pawnAttacks[us][m.to]
                       \/ pt # PAWN /\ k \in getAttacksBb(pt, m.to, after))
  BY <1>1, <1>2, DirectIs
<1>11. PAWN # KING
  BY Kinds
<1> QED BY <1>4, <1>6, <1>7a, <1>8, <1>9, <1>10, <1>11 DEF us, k, after

\* Where the other side is not in check and the move is legal, givesCheck foresees

\* whether it will be.
LEMMA BoardCheckForeseen ==
  ASSUME NEW p, Good(p), ~R!Checked(p.board, Other(p.nextPlayer)),
         NEW m, m \in R!BoardMoves(p.board, p.nextPlayer, p.enPassantSquare),
         ~R!Checked(R!After(p.board, p.nextPlayer, m), p.nextPlayer)
  PROVE  givesCheck(p, m) <=> R!Checked(R!After(p.board, p.nextPlayer, m), Other(p.nextPlayer))
<1> DEFINE us == p.nextPlayer
           them == Other(us)
           there == R!After(p.board, us, m)
           k == p.kingSquare[them]
           occ == getOccupiedBb(p)
           after == OccupiedAfter(p, m)
           gone == Gone(p, m)
<1>1. us \in Color /\ them \in Color /\ us # them /\ Other(them) = us
  BY BitboardsAre, OtherColor
<1>2. /\ k \in Square /\ k \notin {m.from, m.to} \cup gone
      /\ \A s \in Square : there[s] = makePiece(them, KING) <=> s = k
  BY KingAfter
<1>3. R!Checked(there, them) <=> R!Attackers(there, k, us) # {}
  BY <1>1, <1>2, KingFound
<1>4. R!Attackers(p.board, k, us) = {}
  BY <1>1, KingChecked
<1>5. PICK pt \in PieceType : Dropped(p, m) = makePiece(us, pt)
  BY AfterIs
<1>6. /\ Placement(there) /\ m.to \notin gone
      /\ \A s \in Square : there[s] = IF s = m.to THEN Dropped(p, m)
                                      ELSE IF s \in {m.from} \cup gone THEN PIECE_NONE
                                      ELSE p.board[s]
  BY AfterIs
<1>7a. /\ Occupies(there, after)
       /\ \A s \in Square : s \in after <=>
            s = m.to \/ (p.board[s] # PIECE_NONE /\ s \notin {m.from} \cup gone)
  BY OccupiesAfter
<1>8. /\ m.from \in Square /\ m.to \in Square /\ m.from # m.to
      /\ \E t \in PieceType : p.board[m.from] = makePiece(us, t)
      /\ \A t \in PieceType : p.board[m.to] # makePiece(us, t)
  BY RulesMove
<1>9. givesCheck(p, m) <=>
        \/ pt # KING /\ m.to \in Strikers(after, us, pt, k)
        \/ Sliders(p, us, k, after) # {}
  BY <1>5, GivesIs
<1>10. Placement(p.board) /\ Occupies(p.board, occ)
  <2>1. occ = {s \in Square : p.board[s] # PIECE_NONE}
    BY BitboardsAre
  <2>2. Placement(p.board)
    BY DEF Good, BoardOK, Placement
  <2> QED BY <2>1, <2>2 DEF Occupies
<1>11. \A s \in Square, t \in PieceType : p.board[s] = makePiece(us, t) => s \notin Strikers(occ, us, t, k)
  BY <1>1, <1>2, <1>4, <1>10, AttackersOf
<1>12. \A s : s \in R!Attackers(there, k, us) <=>
         s \in Square /\ \E t \in PieceType : there[s] = makePiece(us, t) /\ s \in Strikers(after, us, t, k)
  BY <1>1, <1>2, <1>6, <1>7a, AttackersOf
<1>13. \A s : s \in Sliders(p, us, k, after) <=>
         s \in Square /\ \E t \in {BISHOP, ROOK, QUEEN} : p.board[s] = makePiece(us, t) /\ s \in Strikers(after, us, t, k)
  BY <1>1, <1>2, SlidersAre
<1>14. {BISHOP, ROOK, QUEEN} \subseteq PieceType
       /\ \A t \in PieceType : t \in {KING, PAWN, KNIGHT} \/ t \in {BISHOP, ROOK, QUEEN}
  BY DEF PieceType, KING, PAWN, KNIGHT, BISHOP, ROOK, QUEEN
<1>15. \A t \in {KING, PAWN, KNIGHT} : Strikers(after, us, t, k) = Strikers(occ, us, t, k)
  BY StrikersAre
<1>16. \A s \in gone : \A t \in PieceType : p.board[s] # makePiece(us, t)
  <2>1. CASE m.type = ENPASSANT
    BY <1>1, <2>1, EnPassantTaken, Kinds DEF Gone
  <2>2. CASE m.type # ENPASSANT
    BY <2>2 DEF Gone
  <2> QED BY <2>1, <2>2
<1> HIDE DEF us, them, there, k, occ, after, gone
\* the moving side's king, if it has moved, is not next to the other one
<1>17. ASSUME pt = KING PROVE m.to \notin Strikers(after, us, pt, k)
  <2>1. SUFFICES ASSUME m.to \in kingAttacks[k] PROVE FALSE
    BY <1>17, StrikersAre
  <2>2. k \in kingAttacks[m.to]
    BY <1>2, <1>8, <2>1, AttacksBack
  <2>3. k \in Strikers(after, them, KING, m.to)
    BY <2>2, StrikersAre
  <2>4. k \in R!Attackers(there, m.to, them)
    BY <1>1, <1>2, <1>6, <1>7a, <1>8, <2>3, Kinds, AttackersOf
  <2>5. KING # PAWN /\ KING \notin KNIGHT .. QUEEN
    BY DEF KING, PAWN, KNIGHT, QUEEN
  <2>6. m.type # PROMOTION
    <3>1. m.type = PROMOTION => m.prom \in KNIGHT .. QUEEN /\ m.prom \in PieceType
      BY RulesMove DEF PieceType, KING, KNIGHT, QUEEN
    <3>2. m.type = PROMOTION => makePiece(us, m.prom) = makePiece(us, KING)
      BY <1>5, <1>17 DEF Dropped, us
    <3> QED BY <1>1, <2>5, <3>1, <3>2, Kinds
  <2>7. p.board[m.from] = makePiece(us, KING) /\ Dropped(p, m) = makePiece(us, KING)
    BY <1>5, <1>17, <2>6 DEF Dropped, us
  <2>8. \A s \in Square : p.board[s] = makePiece(us, KING) <=> s = m.from
    BY <1>1, <1>8, <2>7 DEF Good, KingsOK
  <2>9. PIECE_NONE # makePiece(us, KING)
    BY <1>1, Kinds
  <2>10. \A s \in Square : there[s] = makePiece(us, KING) <=> s = m.to
    BY <1>6, <2>7, <2>8, <2>9
  <2>11. R!Checked(there, us)
    BY <1>1, <1>8, <2>4, <2>10, KingFound DEF them
  <2> QED BY <2>11 DEF there, us
<1>18. ASSUME NEW s \in R!Attackers(there, k, us)
       PROVE  (pt # KING /\ m.to \in Strikers(after, us, pt, k)) \/ Sliders(p, us, k, after) # {}
  <2>1. PICK t \in PieceType : there[s] = makePiece(us, t) /\ s \in Strikers(after, us, t, k)
    BY <1>12, <1>18
  <2>2. s \in Square
    BY <1>12, <1>18
  <2>3. CASE s = m.to
    <3>1. t = pt
      BY <1>1, <1>5, <1>6, <2>1, <2>2, <2>3, Kinds
    <3> QED BY <1>17, <2>1, <2>3, <3>1
  <2>4. CASE s # m.to
    <3>1. p.board[s] = makePiece(us, t)
      BY <1>1, <1>6, <2>1, <2>2, <2>4, Kinds
    <3>2. t \in {BISHOP, ROOK, QUEEN}
      BY <1>11, <1>14, <1>15, <2>1, <2>2, <3>1
    <3> QED BY <1>13, <2>1, <2>2, <3>1, <3>2
  <2> QED BY <2>3, <2>4
<1>19. ASSUME pt # KING, m.to \in Strikers(after, us, pt, k) PROVE R!Attackers(there, k, us) # {}
  BY <1>5, <1>6, <1>8, <1>12, <1>19
<1>20. ASSUME NEW s \in Sliders(p, us, k, after) PROVE R!Attackers(there, k, us) # {}
  <2>1. PICK t \in {BISHOP, ROOK, QUEEN} : p.board[s] = makePiece(us, t) /\ s \in Strikers(after, us, t, k)
    BY <1>13, <1>20
  <2>2. s \in Square /\ t \in PieceType /\ s # m.to /\ s \notin gone
    BY <1>8, <1>13, <1>14, <1>16, <1>20, <2>1
  <2>3. CASE s = m.from
    <3>1. m.type # ENPASSANT
      <4>1. m.type = ENPASSANT => p.board[m.from] = makePiece(us, PAWN)
        BY RulesMove DEF us
      <4>2. PAWN \notin {BISHOP, ROOK, QUEEN} /\ PAWN \in PieceType
        BY DEF PAWN, BISHOP, ROOK, QUEEN, PieceType, KING
      <4> QED BY <1>1, <2>1, <2>2, <2>3, <4>1, <4>2, Kinds
    <3>2. gone = {}
      BY <3>1 DEF Gone, gone
    <3>3. \A u \in Square : u \in occ => u \in after \cup {s}
      BY <1>7a, <1>10, <2>3, <3>2 DEF Occupies
    <3>4. occ \subseteq Square
      BY BitboardsAre DEF occ
    <3>5. occ \subseteq after \cup {s}
      BY <3>3, <3>4
    <3>6. /\ s \in bishopAttacks(k, after) => s \in bishopAttacks(k, occ)
          /\ s \in rookAttacks(k, after) => s \in rookAttacks(k, occ)
      BY <1>2, <2>2, <3>5, StillSlides
    <3>7. s \in Strikers(occ, us, t, k)
      BY <2>1, <3>6, StrikersAre
    <3> QED BY <1>11, <2>1, <2>2, <3>7
  <2>4. CASE s # m.from
    BY <1>6, <1>12, <2>1, <2>2, <2>4
  <2> QED BY <2>3, <2>4
<1>21. givesCheck(p, m) <=> R!Checked(there, them)
  BY <1>3, <1>9, <1>18, <1>19, <1>20
<1> QED BY <1>21 DEF there, them, us

-----------------------------------------------------------------------------
(* givesCheck, for castling. *)

\* king and rook at home on a free rank, e the way the king goes
Corner(king, e) == IF e = 1 THEN king + 3 ELSE king - 4
AtHome(p, king, e) ==
  /\ king = (IF p.nextPlayer = WHITE THEN 4 ELSE 60) /\ e \in {1, -1}
  /\ p.board[king] = makePiece(p.nextPlayer, KING)
  /\ p.board[Corner(king, e)] = makePiece(p.nextPlayer, ROOK)
  /\ p.board[king + e] = PIECE_NONE /\ p.board[king + 2 * e] = PIECE_NONE
  /\ e = -1 => p.board[king + 3 * e] = PIECE_NONE

\* The squares that castling asks to be free, and to be safe.
LEMMA RankBetween ==
  \A king \in {4, 60} : /\ R!Between(king, king + 3) = {king + 1, king + 2}
                        /\ R!Between(king, king - 4) = {king - 1, king - 2, king - 3}
                        /\ R!Between(king, king + 2) = {king + 1}
                        /\ R!Between(king, king - 2) = {king - 1}
<1> TAKE king \in {4, 60}
<1>1. ASSUME NEW e \in {1, -1}, NEW n \in 1 .. 4, e = 1 => n < 4
      PROVE  R!Between(king, king + n * e) = {king + n * e + i * (-e) : i \in 1 .. n - 1}
  <2> DEFINE t == king + n * e
  <2>1. t \in Square /\ king = t + n * (-e) /\ -e \in Directions /\ n \in 1 .. 7
    <3>1. n * e \in -4 .. 3 /\ n * (-e) = -(n * e) /\ -e \in {1, -1}
      BY <1>1
    <3>2. t \in Square
      BY <3>1 DEF Square
    <3>3. king = t + n * (-e)
      BY <3>1
    <3> QED BY <3>1, <3>2, <3>3, DirectionsAre
  <2>2. fileOf(t) = 4 + n * e /\ rankOf(t) \in 0 .. 7 /\ fileOf(t) \in 0 .. 7
    <3>1. n * e \in -4 .. 3
      BY <1>1
    <3>2. PICK b \in {0, 7} : king = 8 * b + 4
      OBVIOUS
    <3>3. t = 8 * b + (4 + n * e) /\ 4 + n * e \in 0 .. 7
      BY <3>1, <3>2
    <3> QED BY <2>1, <3>3, SquareIs, Coordinates
  <2>3. Run(-e) = -e /\ Rise(-e) = 0
    BY DEF Run, Rise
  <2>4. fileOf(t) + n * Run(-e) \in 0 .. 7 /\ rankOf(t) + n * Rise(-e) \in 0 .. 7
    BY <2>2, <2>3
  <2>5. Free(-e, t, n)
    BY <2>1, <2>4, FreeIs
  <2>6. OfLine(-e, t, n, king)
    BY <2>1, <2>5, LineIs
  <2> QED BY <2>6 DEF OfLine
<1>2. /\ R!Between(king, king + 3 * 1) = {king + 3 * 1 + i * (-1) : i \in 1 .. 3 - 1}
      /\ R!Between(king, king + 4 * (-1)) = {king + 4 * (-1) + i * (-(-1)) : i \in 1 .. 4 - 1}
      /\ R!Between(king, king + 2 * 1) = {king + 2 * 1 + i * (-1) : i \in 1 .. 2 - 1}
      /\ R!Between(king, king + 2 * (-1)) = {king + 2 * (-1) + i * (-(-1)) : i \in 1 .. 2 - 1}
  BY <1>1
<1>3. /\ {king + 3 * 1 + i * (-1) : i \in 1 .. 3 - 1} = {king + 1, king + 2}
      /\ {king + 4 * (-1) + i * (-(-1)) : i \in 1 .. 4 - 1} = {king - 1, king - 2, king - 3}
      /\ {king + 2 * 1 + i * (-1) : i \in 1 .. 2 - 1} = {king + 1}
      /\ {king + 2 * (-1) + i * (-(-1)) : i \in 1 .. 2 - 1} = {king - 1}
  OBVIOUS
<1>4. king + 3 * 1 = king + 3 /\ king + 4 * (-1) = king - 4 /\ king + 2 * 1 = king + 2 /\ king + 2 * (-1) = king - 2
  OBVIOUS
<1> QED BY <1>2, <1>3, <1>4

\* what the rules ask of castling
LEMMA RulesCastling ==
  ASSUME NEW p, Good(p), NEW m
  PROVE  m \in R!CastlingMoves(p.board, p.nextPlayer, p.castlingRights) <=>
           \E king, e :
             /\ AtHome(p, king, e)
             /\ (IF e = 1 THEN OO(p.nextPlayer) ELSE OOO(p.nextPlayer)) \in p.castlingRights
             /\ \A i \in 0 .. 2 : R!Attackers(p.board, king + i * e, Other(p.nextPlayer)) = {}
             /\ m = createMove(king, king + 2 * e, CASTLING)
<1> DEFINE us == p.nextPlayer
           them == Other(us)
           king == IF us = WHITE THEN 4 ELSE 60
           Free2(corner, to) == /\ R!Clear(p.board, king, corner)
                                /\ \A s \in {king, to} \cup R!Between(king, to) : R!Attackers(p.board, s, them) = {}
<1>1. us \in Color /\ king \in {4, 60}
  BY BitboardsAre
<1>2. R!CastlingMoves(p.board, us, p.castlingRights) =
        {createMove(king, king + 2, CASTLING) : r \in {q \in {OO(us)} \cap p.castlingRights : Free2(king + 3, king + 2)}}
        \cup {createMove(king, king - 2, CASTLING) : r \in {q \in {OOO(us)} \cap p.castlingRights : Free2(king - 4, king - 2)}}
  <2>1. R!E1 = 4 /\ R!E8 = 60 /\ R!WHITE = WHITE /\ R!Other(us) = them
        /\ R!OO(us) = OO(us) /\ R!OOO(us) = OOO(us) /\ R!CASTLING = CASTLING
    BY RulesBoard, RulesTypesAre DEF R!E1, R!E8, R!OO, R!OOO, OO, OOO, RulesTypes
  <2>2. \A s, t, type : R!createMove(s, t, type) = createMove(s, t, type)
    BY RulesTypesAre DEF RulesTypes
  <2> QED BY <2>1, <2>2 DEF R!CastlingMoves
<1>3. m \in R!CastlingMoves(p.board, us, p.castlingRights) <=>
        \/ OO(us) \in p.castlingRights /\ Free2(king + 3, king + 2) /\ m = createMove(king, king + 2, CASTLING)
        \/ OOO(us) \in p.castlingRights /\ Free2(king - 4, king - 2) /\ m = createMove(king, king - 2, CASTLING)
  <2> HIDE DEF Free2, king
  <2> QED BY <1>2
<1>4. /\ OO(us) \in p.castlingRights => p.board[king] = makePiece(us, KING) /\ p.board[king + 3] = makePiece(us, ROOK)
      /\ OOO(us) \in p.castlingRights => p.board[king] = makePiece(us, KING) /\ p.board[king - 4] = makePiece(us, ROOK)
  BY <1>1 DEF Good, RightsMatch, E1, E8
<1>5. /\ R!Between(king, king + 3) = {king + 1, king + 2}
      /\ R!Between(king, king - 4) = {king - 1, king - 2, king - 3}
      /\ R!Between(king, king + 2) = {king + 1}
      /\ R!Between(king, king - 2) = {king - 1}
  BY <1>1, RankBetween
<1>6. /\ R!Clear(p.board, king, king + 3) <=> p.board[king + 1] = PIECE_NONE /\ p.board[king + 2] = PIECE_NONE
      /\ R!Clear(p.board, king, king - 4) <=>
           p.board[king - 1] = PIECE_NONE /\ p.board[king - 2] = PIECE_NONE /\ p.board[king - 3] = PIECE_NONE
  BY <1>5, RulesBoard DEF R!Clear
<1> DEFINE Quiet(s) == R!Attackers(p.board, s, them) = {}
<1>7a. /\ Free2(king + 3, king + 2) <=> /\ p.board[king + 1] = PIECE_NONE /\ p.board[king + 2] = PIECE_NONE
                                        /\ Quiet(king) /\ Quiet(king + 1) /\ Quiet(king + 2)
       /\ Free2(king - 4, king - 2) <=>
            /\ p.board[king - 1] = PIECE_NONE /\ p.board[king - 2] = PIECE_NONE /\ p.board[king - 3] = PIECE_NONE
            /\ Quiet(king) /\ Quiet(king - 1) /\ Quiet(king - 2)
  BY <1>5, <1>6
<1>8. \A e \in {1, -1} : (\A i \in 0 .. 2 : Quiet(king + i * e)) <=> Quiet(king + 0 * e) /\ Quiet(king + 1 * e) /\ Quiet(king + 2 * e)
  <2> HIDE DEF Quiet, king
  <2>1. \A i \in 0 .. 2 : i = 0 \/ i = 1 \/ i = 2
    OBVIOUS
  <2> QED BY <2>1
<1>9. /\ king + 0 * 1 = king /\ king + 1 * 1 = king + 1 /\ king + 2 * 1 = king + 2
      /\ king + 0 * (-1) = king /\ king + 1 * (-1) = king - 1 /\ king + 2 * (-1) = king - 2 /\ king + 3 * (-1) = king - 3
      /\ king + (-1) = king - 1
  BY <1>1
<1> DEFINE Asks(k, e) == /\ AtHome(p, k, e)
                         /\ (IF e = 1 THEN OO(us) ELSE OOO(us)) \in p.castlingRights
                         /\ \A i \in 0 .. 2 : Quiet(k + i * e)
                         /\ m = createMove(k, k + 2 * e, CASTLING)
<1>10. \A k, e : Asks(k, e) => k = king /\ e \in {1, -1}
  BY DEF AtHome
<1>11. AtHome(p, king, 1) <=>
         /\ p.board[king] = makePiece(us, KING) /\ p.board[king + 3] = makePiece(us, ROOK)
         /\ p.board[king + 1] = PIECE_NONE /\ p.board[king + 2] = PIECE_NONE
  BY <1>9 DEF AtHome, Corner
<1>12. AtHome(p, king, -1) <=>
         /\ p.board[king] = makePiece(us, KING) /\ p.board[king - 4] = makePiece(us, ROOK)
         /\ p.board[king - 1] = PIECE_NONE /\ p.board[king - 2] = PIECE_NONE /\ p.board[king - 3] = PIECE_NONE
  BY <1>9 DEF AtHome, Corner
<1>13. Asks(king, 1) <=>
         OO(us) \in p.castlingRights /\ Free2(king + 3, king + 2) /\ m = createMove(king, king + 2, CASTLING)
  <2> HIDE DEF Free2, Quiet, king, us, them
  <2> QED BY <1>4, <1>7a, <1>8, <1>9, <1>11
<1>14. Asks(king, -1) <=>
         OOO(us) \in p.castlingRights /\ Free2(king - 4, king - 2) /\ m = createMove(king, king - 2, CASTLING)
  <2>1. -1 # 1 /\ -1 \in {1, -1}
    OBVIOUS
  <2> HIDE DEF Free2, Quiet, king, us, them
  <2> QED BY <1>4, <1>7a, <1>8, <1>9, <1>12, <2>1
<1> HIDE DEF Asks, Free2, king
<1>15. m \in R!CastlingMoves(p.board, us, p.castlingRights) <=> \E k, e : Asks(k, e)
  BY <1>3, <1>10, <1>13, <1>14
<1> QED BY <1>15 DEF Asks

-----------------------------------------------------------------------------

\* the squares of castling
LEMMA CastlingPlaces ==
  ASSUME NEW p, NEW king, NEW e, AtHome(p, king, e)
  PROVE  /\ king \in {4, 60} /\ e \in {1, -1}
         /\ king \in Square /\ king + e \in Square /\ king + 2 * e \in Square /\ Corner(king, e) \in Square
         /\ king # king + e /\ king # king + 2 * e /\ king # Corner(king, e)
         /\ king + e # king + 2 * e /\ king + e # Corner(king, e) /\ king + 2 * e # Corner(king, e)
         /\ Corner(king, e) \in {0, 7, 56, 63}
         /\ rookCorner[king + 2 * e] = Corner(king, e) /\ rookCrossing[king + 2 * e] = king + e
<1>1. king \in {4, 60} /\ e \in {1, -1}
  BY DEF AtHome
<1>2. CASE e = 1
  <2>1. king + 2 * e = king + 2 /\ king + e = king + 1 /\ Corner(king, e) = king + 3
    BY <1>1, <1>2 DEF Corner
  <2> QED BY <1>1, <1>2, <2>1, Corners DEF Square
<1>3. CASE e = -1
  <2>1. king + 2 * e = king - 2 /\ king + e = king - 1 /\ Corner(king, e) = king - 4
    BY <1>1, <1>3 DEF Corner
  <2> QED BY <1>1, <1>3, <2>1, Corners DEF Square
<1> QED BY <1>1, <1>2, <1>3

\* The board after castling.
LEMMA AfterCastling ==
  ASSUME NEW p, Good(p), NEW king, NEW e, AtHome(p, king, e)
  PROVE  LET us == p.nextPlayer
             there == R!After(p.board, us, createMove(king, king + 2 * e, CASTLING))
         IN /\ Placement(there)
            /\ \A s \in Square : there[s] = IF s = king + 2 * e THEN makePiece(us, KING)
                                            ELSE IF s = king + e THEN makePiece(us, ROOK)
                                            ELSE IF s \in {king, Corner(king, e)} THEN PIECE_NONE
                                            ELSE p.board[s]
<1> DEFINE us == p.nextPlayer
           m == createMove(king, king + 2 * e, CASTLING)
           there == R!After(p.board, us, m)
           lifted == [p.board EXCEPT ![king] = PIECE_NONE]
           dropped == [lifted EXCEPT ![king + 2 * e] = p.board[king]]
<1>1. us \in Color /\ p.board \in [Square -> Piece \cup {PIECE_NONE}]
  BY DEF Good, BoardOK
<1>2. /\ king \in {4, 60} /\ e \in {1, -1}
      /\ king \in Square /\ king + e \in Square /\ king + 2 * e \in Square /\ Corner(king, e) \in Square
      /\ king # king + e /\ king # king + 2 * e /\ king # Corner(king, e)
      /\ king + e # king + 2 * e /\ king + e # Corner(king, e) /\ king + 2 * e # Corner(king, e)
  BY CastlingPlaces
<1>3. p.board[king] = makePiece(us, KING)
  BY DEF AtHome
<1>4. m.from = king /\ m.to = king + 2 * e /\ m.type = CASTLING
  BY DEF createMove
<1>5. /\ (IF king + 2 * e > king THEN (king + 2 * e) + 1 ELSE (king + 2 * e) - 2) = Corner(king, e)
      /\ (king + (king + 2 * e)) \div 2 = king + e
  <2>1. CASE e = 1
    BY <1>2, <2>1 DEF Corner
  <2>2. CASE e = -1
    BY <1>2, <2>2 DEF Corner
  <2> QED BY <1>2, <2>1, <2>2
<1>6. there = [dropped EXCEPT ![Corner(king, e)] = PIECE_NONE, ![king + e] = makePiece(us, ROOK)]
  <2>1. CASTLING # ENPASSANT /\ CASTLING # PROMOTION
    BY Types
  <2>2. /\ R!ENPASSANT = ENPASSANT /\ R!CASTLING = CASTLING /\ R!PROMOTION = PROMOTION
        /\ R!makePiece(us, R!ROOK) = makePiece(us, ROOK) /\ R!PIECE_NONE = PIECE_NONE
    BY RulesBoard, RulesTypesAre DEF RulesTypes
  <2> HIDE DEF m
  <2> QED BY <1>4, <1>5, <2>1, <2>2 DEF R!After
<1>7a. makePiece(us, KING) \in Piece /\ makePiece(us, ROOK) \in Piece
  BY <1>1, Kinds, PieceFacts
<1> HIDE DEF there, us, m
<1>8. lifted \in [Square -> Piece \cup {PIECE_NONE}] /\ dropped \in [Square -> Piece \cup {PIECE_NONE}]
  BY <1>1, <1>2, <1>3, <1>7a
<1>9. Placement(there)
  BY <1>2, <1>6, <1>7a, <1>8 DEF Placement
<1>10. \A s \in Square : there[s] = IF s = king + 2 * e THEN makePiece(us, KING)
                                    ELSE IF s = king + e THEN makePiece(us, ROOK)
                                    ELSE IF s \in {king, Corner(king, e)} THEN PIECE_NONE
                                    ELSE p.board[s]
  <2> DEFINE c == Corner(king, e)
             x == king + e
             t == king + 2 * e
  <2>1. /\ king \in Square /\ x \in Square /\ t \in Square /\ c \in Square
        /\ king # x /\ king # t /\ king # c /\ x # t /\ x # c /\ t # c
    BY <1>2
  <2>2. /\ lifted = [p.board EXCEPT ![king] = PIECE_NONE]
        /\ dropped = [lifted EXCEPT ![t] = makePiece(us, KING)]
        /\ there = [dropped EXCEPT ![c] = PIECE_NONE, ![x] = makePiece(us, ROOK)]
    BY <1>3, <1>6
  <2> HIDE DEF c, x, t, lifted, dropped
  <2>3. \A s \in Square : there[s] = IF s = t THEN makePiece(us, KING)
                                     ELSE IF s = x THEN makePiece(us, ROOK)
                                     ELSE IF s \in {king, c} THEN PIECE_NONE
                                     ELSE p.board[s]
    BY <1>1, <1>8, <2>1, <2>2
  <2> QED BY <2>3 DEF c, x, t
<1> QED BY <1>9, <1>10 DEF there, us, m

\* two squares of a line that are near and have one rank
LEMMA SameRank ==
  ASSUME NEW d \in Directions, NEW k \in Int, NEW i \in 0 .. 7, NEW j \in 0 .. 7,
         (k + i * d) - (k + j * d) \in {1, -1, 2, -2, 3, -4}
  PROVE  d \in {1, -1}
<1>1. d \in {8, 1, -8, -1, 9, -7, -9, 7}
  BY DirectionsAre
<1>2. PICK n \in -7 .. 7 : n = i - j
  OBVIOUS
<1>3. (k + i * d) - (k + j * d) = n * d
  <2>1. d \in Int
    BY <1>1
  <2> QED BY <1>2, <2>1
<1>4. n * d \in {1, -1, 2, -2, 3, -4}
  BY <1>3
<1> QED BY <1>1, <1>2, <1>4

-----------------------------------------------------------------------------
\* the squares occupied after castling, and those givesCheck takes for occupied
CastledOcc(p, king, e) == (getOccupiedBb(p) \ {king, Corner(king, e)}) \cup {king + e, king + 2 * e}
CrossedOcc(p, king, e) == (getOccupiedBb(p) \ {king}) \cup {king + e}

\* givesCheck of castling: the rook that has crossed, or a slider.
LEMMA GivesCastling ==
  ASSUME NEW p, Good(p), NEW king, NEW e, AtHome(p, king, e)
  PROVE  givesCheck(p, createMove(king, king + 2 * e, CASTLING)) <=>
           LET us == p.nextPlayer
               k == p.kingSquare[Other(us)]
               after == CrossedOcc(p, king, e)
           IN \/ king + e \in Strikers(after, us, ROOK, k)
              \/ Sliders(p, us, k, after) # {}
<1> DEFINE us == p.nextPlayer
           k == p.kingSquare[Other(us)]
           after == CrossedOcc(p, king, e)
           m == createMove(king, king + 2 * e, CASTLING)
           pt2 == CASE m.type = PROMOTION -> m.prom
                    [] m.type = CASTLING -> ROOK
                    [] OTHER -> typeOf(p.board[m.from])
           to == IF m.type = CASTLING THEN rookCrossing[m.to] ELSE m.to
           taken == IF m.type = ENPASSANT THEN {m.to + pawnPush(Other(us))} ELSE {}
           after2 == Xor(Xor(getOccupiedBb(p), {m.from}) \cup {to}, taken)
<1>1. us \in Color /\ Other(us) \in Color /\ k \in Square
  BY BitboardsAre DEF Good, KingsOK
<1>2. m.from = king /\ m.to = king + 2 * e /\ m.type = CASTLING
  BY DEF createMove
<1>3. CASTLING # ENPASSANT /\ CASTLING # PROMOTION
  BY Types
<1>4. to = king + e /\ king + e \in Square
  BY <1>2, CastlingPlaces
<1>5. taken = {} /\ pt2 = ROOK
  BY <1>2, <1>3
<1>6. king \in getOccupiedBb(p)
  <2>1. p.board[king] = makePiece(us, KING) /\ king \in Square
    BY CastlingPlaces DEF AtHome
  <2>2. p.board[king] # PIECE_NONE
    BY <1>1, <2>1, Kinds
  <2> QED BY <2>1, <2>2, BitboardsAre
<1>7a. after2 = after
  <2>1. Xor(getOccupiedBb(p), {king}) = getOccupiedBb(p) \ {king}
    BY <1>6, XorFacts
  <2>2. \A A : Xor(A, {}) = A
    BY DEF Xor, SymDiff
  <2> QED BY <1>2, <1>4, <1>5, <2>1, <2>2 DEF CrossedOcc
<1>8. givesCheck(p, m) <=>
        \/ /\ pt2 = PAWN
           /\ k \in pawnAttacks[us][to]
        \/ /\ pt2 \notin {PAWN, KING}
           /\ k \in getAttacksBb(pt2, to, after2)
        \/ bishopAttacks(k, after2) \cap (p.piecesBb[us][BISHOP] \cup p.piecesBb[us][QUEEN]) /= {}
        \/ rookAttacks(k, after2) \cap (p.piecesBb[us][ROOK] \cup p.piecesBb[us][QUEEN]) /= {}
  BY DEF givesCheck
<1> HIDE DEF us, k, after, pt2, to, taken, after2
<1>9. Sliders(p, us, k, after) # {} <=>
        \/ bishopAttacks(k, after) \cap (p.piecesBb[us][BISHOP] \cup p.piecesBb[us][QUEEN]) /= {}
        \/ rookAttacks(k, after) \cap (p.piecesBb[us][ROOK] \cup p.piecesBb[us][QUEEN]) /= {}
  BY DEF Sliders
<1>10. king + e \in Strikers(after, us, ROOK, k) <=> k \in getAttacksBb(ROOK, king + e, after)
  BY <1>1, <1>4, Kinds, DirectIs
<1>11. ROOK # PAWN /\ ROOK # KING
  BY Kinds
<1> QED BY <1>4, <1>5, <1>7a, <1>8, <1>9, <1>10, <1>11 DEF us, k, after

\* What is behind a corner cannot be seen: the rook's corner hides no check.
LEMMA CornerHides ==
  ASSUME NEW p, NEW king, NEW e, AtHome(p, king, e), NEW k \in Square, NEW s
  PROVE  /\ s \in bishopAttacks(k, CastledOcc(p, king, e)) => s \in bishopAttacks(k, CrossedOcc(p, king, e))
         /\ s \in rookAttacks(k, CastledOcc(p, king, e)) => s \in rookAttacks(k, CrossedOcc(p, king, e))
<1>1. ASSUME NEW dirs, dirs \subseteq Directions, Slides(dirs, k, CastledOcc(p, king, e), s)
      PROVE  Slides(dirs, k, CrossedOcc(p, king, e), s)
  <2>1. ASSUME NEW d \in dirs, NEW n \in 1 .. 7, NEW i \in 1 .. n - 1, Free(d, k, n),
               k + i * d \in CrossedOcc(p, king, e) \ CastledOcc(p, king, e)
        PROVE  FALSE
    <3>1. k + i * d = Corner(king, e)
      BY <2>1 DEF CrossedOcc, CastledOcc
    <3>2. d \in Directions
      BY <1>1
    <3> QED BY <2>1, <3>1, <3>2, NoCornerBetween, CastlingPlaces
  <2> QED BY <1>1, <2>1, SlidesUnless
<1> QED BY <1>1, DirectionSets, SlidersSlide

\* The rook that has crossed sees what it would see if the king were not beside it.
LEMMA RookSees ==
  ASSUME NEW p, NEW king, NEW e, AtHome(p, king, e), NEW k \in Square,
         k # Corner(king, e), e = -1 => k # king + 3 * e,
         king + e \in rookAttacks(k, CrossedOcc(p, king, e))
  PROVE  king + e \in rookAttacks(k, CastledOcc(p, king, e))
<1>1. Slides(rookDirections, k, CrossedOcc(p, king, e), king + e)
  BY SlidersSlide
<1>2. /\ king \in {4, 60} /\ e \in {1, -1} /\ king + e \in Square /\ king + 2 * e \in Square
  BY CastlingPlaces
<1>3. ASSUME NEW d \in rookDirections, NEW n \in 1 .. 7, NEW i \in 1 .. n - 1, Free(d, k, n),
             king + e = k + n * d, k + i * d \in CastledOcc(p, king, e) \ CrossedOcc(p, king, e)
      PROVE  FALSE
  <2>1. d \in Directions /\ i \in 0 .. 7 /\ n \in 0 .. 7 /\ k \in Int /\ n \in 0 .. n
    BY DirectionSets DEF Square
  <2>2. k + i * d = king + 2 * e
    BY <1>3 DEF CastledOcc, CrossedOcc
  <2>3. (k + i * d) - (k + n * d) = e
    BY <1>2, <1>3, <2>2
  <2>4. d \in {1, -1}
    <3>1. (k + i * d) - (k + n * d) \in {1, -1, 2, -2, 3, -4}
      BY <1>2, <2>3
    <3> QED BY <2>1, <3>1, SameRank
  <2>5. i * d - n * d = e
    <3>1. i * d \in Int /\ n * d \in Int
      BY <2>4
    <3> QED BY <2>1, <2>3, <3>1
  <2>6. d = -e
    <3>1. CASE d = 1
      BY <1>2, <2>5, <3>1
    <3>2. CASE d = -1
      BY <1>2, <2>5, <3>2
    <3> QED BY <2>4, <3>1, <3>2
  <2>7. fileOf(king + e) = fileOf(k) + n * Run(d) /\ fileOf(k) \in 0 .. 7
    BY <1>3, <2>1, Line, Coordinates
  <2>8. Run(d) = d
    BY <2>4 DEF Run
  <2>9. fileOf(king + e) = 4 + e
    <3>1. PICK b \in {0, 7} : king = 8 * b + 4
      BY <1>2
    <3>2. king + e = 8 * b + (4 + e) /\ 4 + e \in 0 .. 7
      BY <1>2, <3>1
    <3> QED BY <3>2, SquareIs
  <2>10. k = king + e + n * e /\ 4 + e + n * e \in 0 .. 7
    <3>1. n * d = -(n * e)
      BY <1>2, <2>6
    <3> QED BY <1>2, <1>3, <2>1, <2>6, <2>7, <2>8, <2>9, <3>1
  <2>11. CASE e = 1
    BY <1>2, <2>10, <2>11 DEF Corner
  <2>12. CASE e = -1
    BY <1>2, <2>10, <2>12 DEF Corner
  <2> QED BY <1>2, <2>11, <2>12
<1>4. Slides(rookDirections, k, CastledOcc(p, king, e), king + e)
  BY <1>1, <1>3, DirectionSets, SlidesUnless
<1> QED BY <1>4, SlidersSlide

-----------------------------------------------------------------------------
\* The sliders that givesCheck finds around a castling king give check after it:
\* the rook in its corner is not among them, and the king on its new square is

\* in nobody's way.
LEMMA CastledSliders ==
  ASSUME NEW p, Good(p), ~R!Checked(p.board, Other(p.nextPlayer)), NEW king, NEW e, AtHome(p, king, e),
         NEW s \in Sliders(p, p.nextPlayer, p.kingSquare[Other(p.nextPlayer)], CrossedOcc(p, king, e))
  PROVE  LET us == p.nextPlayer
             k == p.kingSquare[Other(us)]
         IN /\ s \in Square /\ s \notin {king, king + e, king + 2 * e, Corner(king, e)}
            /\ \E t \in {BISHOP, ROOK, QUEEN} :
                 p.board[s] = makePiece(us, t) /\ s \in Strikers(CastledOcc(p, king, e), us, t, k)
<1> DEFINE us == p.nextPlayer
           them == Other(us)
           k == p.kingSquare[them]
           occ == getOccupiedBb(p)
           after == CrossedOcc(p, king, e)
           full == CastledOcc(p, king, e)
           c == Corner(king, e)
<1>1. us \in Color /\ them \in Color /\ us # them /\ Other(them) = us /\ k \in Square
  BY BitboardsAre, OtherColor DEF Good, KingsOK
<1>2. R!Attackers(p.board, k, us) = {}
  BY <1>1, KingChecked
<1>3. Placement(p.board) /\ Occupies(p.board, occ)
  <2>1. occ = {u \in Square : p.board[u] # PIECE_NONE}
    BY BitboardsAre
  <2>2. Placement(p.board)
    BY DEF Good, BoardOK, Placement
  <2> QED BY <2>1, <2>2 DEF Occupies
<1>4. \A u \in Square, t \in PieceType : p.board[u] = makePiece(us, t) => u \notin Strikers(occ, us, t, k)
  BY <1>1, <1>2, <1>3, AttackersOf
<1>5. PICK t \in {BISHOP, ROOK, QUEEN} : p.board[s] = makePiece(us, t) /\ s \in Strikers(after, us, t, k)
  BY <1>1, SlidersAre
<1>6. s \in Square
  BY <1>1, SlidersAre
<1>7a. t \in PieceType /\ t # KING /\ {BISHOP, ROOK, QUEEN} \subseteq PieceType
  BY DEF PieceType, KING, BISHOP, ROOK, QUEEN
<1>8. /\ king \in {4, 60} /\ e \in {1, -1}
      /\ king \in Square /\ king + e \in Square /\ king + 2 * e \in Square /\ c \in Square
      /\ king # king + e /\ king # king + 2 * e /\ king # c
      /\ king + e # king + 2 * e /\ king + e # c /\ king + 2 * e # c
  BY CastlingPlaces
<1>9. /\ p.board[king] = makePiece(us, KING) /\ p.board[c] = makePiece(us, ROOK)
      /\ p.board[king + e] = PIECE_NONE /\ p.board[king + 2 * e] = PIECE_NONE
  BY DEF AtHome
<1>10. s \notin {king, king + e, king + 2 * e}
  BY <1>1, <1>5, <1>7a, <1>9, Kinds
<1>11. Color = Color /\ \A u \in occ : u \in after \/ u = king
  BY DEF CrossedOcc
<1>12. \A u \in full : u \in after \/ u = king + 2 * e
  BY DEF CrossedOcc, CastledOcc
<1>13. king + e \in after
  BY DEF CrossedOcc
<1> HIDE DEF us, them, k, occ, after, full, c
\* a slider of the board that sees the king past the castling king
<1>14. ASSUME NEW d \in Directions, NEW n \in 1 .. 7, NEW i \in 1 .. n - 1, NEW j \in 1 .. n,
              k + i * d = king, k + j * d \in {king + 2 * e, c}, \A l \in 1 .. n - 1 : k + l * d \notin after
       PROVE  FALSE
  <2>1. i \in 0 .. 7 /\ j \in 0 .. 7 /\ k \in Int
    BY <1>1 DEF Square
  <2>2. (k + j * d) - (k + i * d) \in {2, -2, 3, -4}
    <3>1. CASE e = 1
      BY <1>8, <1>14, <3>1 DEF Corner, c
    <3>2. CASE e = -1
      BY <1>8, <1>14, <3>2 DEF Corner, c
    <3> QED BY <1>8, <3>1, <3>2
  <2>3. d \in {1, -1}
    BY <2>1, <2>2, SameRank
  <2>4. CASE d = 1
    <3>1. j - i \in {2, -2, 3, -4}
      BY <2>1, <2>2, <2>4
    <3>2. k + i = king /\ k + j \in {king + 2 * e, c}
      BY <1>14, <2>1, <2>4
    <3>3. CASE e = 1
      <4>1. k + (i + 1) * d = king + e /\ i + 1 \in 1 .. n - 1
        BY <1>8, <1>14, <2>1, <2>4, <3>2, <3>3 DEF Corner, c
      <4> QED BY <1>13, <1>14, <4>1
    <3>4. CASE e = -1
      <4>1. k + (i - 1) * d = king + e /\ i - 1 \in 1 .. n - 1
        BY <1>8, <1>14, <2>1, <2>4, <3>2, <3>4 DEF Corner, c
      <4> QED BY <1>13, <1>14, <4>1
    <3> QED BY <1>8, <3>3, <3>4
  <2>5. CASE d = -1
    <3>1. k - i = king /\ k - j \in {king + 2 * e, c}
      BY <1>14, <2>1, <2>5
    <3>2. CASE e = 1
      <4>1. k + (i - 1) * d = king + e /\ i - 1 \in 1 .. n - 1
        BY <1>8, <1>14, <2>1, <2>5, <3>1, <3>2 DEF Corner, c
      <4> QED BY <1>13, <1>14, <4>1
    <3>3. CASE e = -1
      <4>1. k + (i + 1) * d = king + e /\ i + 1 \in 1 .. n - 1
        BY <1>8, <1>14, <2>1, <2>5, <3>1, <3>3 DEF Corner, c
      <4> QED BY <1>13, <1>14, <4>1
    <3> QED BY <1>8, <3>2, <3>3
  <2> QED BY <2>3, <2>4, <2>5
<1>15. s # c
  <2>1. SUFFICES ASSUME s = c PROVE FALSE
    OBVIOUS
  <2>2. t = ROOK
    BY <1>1, <1>5, <1>7a, <1>9, <2>1, Kinds
  <2>3. Slides(rookDirections, k, after, s)
    BY <1>1, <1>5, <2>2, StrikersAre, SlidersSlide
  <2>4. ~Slides(rookDirections, k, occ, s)
    BY <1>1, <1>4, <1>5, <1>6, <1>7a, <2>2, StrikersAre, SlidersSlide
  <2>5. PICK d \in rookDirections : \E n \in 1 .. 7 : \E i \in 1 .. n - 1 :
          /\ s = k + n * d /\ Free(d, k, n) /\ k + i * d \in occ \ after
          /\ \A j \in 1 .. n - 1 : k + j * d \notin after
    BY <1>1, <2>3, <2>4, DirectionSets, SlidesUnless
  <2>6. PICK n \in 1 .. 7 : \E i \in 1 .. n - 1 :
          /\ s = k + n * d /\ Free(d, k, n) /\ k + i * d \in occ \ after
          /\ \A j \in 1 .. n - 1 : k + j * d \notin after
    BY <2>5
  <2>7. PICK i \in 1 .. n - 1 :
          /\ s = k + n * d /\ Free(d, k, n) /\ k + i * d \in occ \ after
          /\ \A j \in 1 .. n - 1 : k + j * d \notin after
    BY <2>6
  <2>8. k + i * d = king /\ k + n * d = c /\ n \in 1 .. n /\ d \in Directions
    BY <1>11, <2>1, <2>7, DirectionSets
  <2> QED BY <1>14, <2>7, <2>8
<1>16. ASSUME NEW dirs, dirs \subseteq Directions, Slides(dirs, k, after, s), ~Slides(dirs, k, occ, s)
       PROVE  Slides(dirs, k, full, s)
  <2>1. SUFFICES ASSUME ~Slides(dirs, k, full, s) PROVE FALSE
    OBVIOUS
  <2>2. PICK d \in dirs : \E n \in 1 .. 7 : \E i \in 1 .. n - 1 :
          /\ s = k + n * d /\ Free(d, k, n) /\ k + i * d \in full \ after
          /\ \A j \in 1 .. n - 1 : k + j * d \notin after
    BY <1>1, <1>16, <2>1, SlidesUnless
  <2>3. PICK n \in 1 .. 7 : \E i \in 1 .. n - 1 :
          /\ s = k + n * d /\ Free(d, k, n) /\ k + i * d \in full \ after
          /\ \A j \in 1 .. n - 1 : k + j * d \notin after
    BY <2>2
  <2>4. PICK i \in 1 .. n - 1 :
          /\ s = k + n * d /\ Free(d, k, n) /\ k + i * d \in full \ after
          /\ \A j \in 1 .. n - 1 : k + j * d \notin after
    BY <2>3
  <2>5. k + i * d = king + 2 * e /\ d \in Directions /\ i \in 1 .. n
    BY <1>12, <1>16, <2>4
  <2>6. CASE \E j \in 1 .. n - 1 : k + j * d = king
    <3>1. PICK j \in 1 .. n - 1 : k + j * d = king
      BY <2>6
    <3> QED BY <1>14, <2>4, <2>5, <3>1
  <2>7. CASE \A j \in 1 .. n - 1 : k + j * d # king
    <3>1. \A j \in 1 .. n - 1 : k + j * d \notin occ
      BY <1>11, <2>4, <2>7
    <3>2. Slides(dirs, k, occ, s)
      BY <2>4, <3>1 DEF Slides
    <3> QED BY <1>16, <3>2
  <2> QED BY <2>6, <2>7
<1>17. s \in Strikers(full, us, t, k)
  <2>1. s \notin Strikers(occ, us, t, k)
    BY <1>4, <1>5, <1>6, <1>7a
  <2>2. /\ Slides(bishopDirections, k, after, s) /\ ~Slides(bishopDirections, k, occ, s) => Slides(bishopDirections, k, full, s)
        /\ Slides(rookDirections, k, after, s) /\ ~Slides(rookDirections, k, occ, s) => Slides(rookDirections, k, full, s)
    BY <1>16, DirectionSets
  <2>3. /\ s \in bishopAttacks(k, after) /\ s \notin bishopAttacks(k, occ) => s \in bishopAttacks(k, full)
        /\ s \in rookAttacks(k, after) /\ s \notin rookAttacks(k, occ) => s \in rookAttacks(k, full)
    BY <1>1, <2>2, SlidersSlide
  <2> QED BY <1>5, <2>1, <2>3, StrikersAre
<1>18. s \notin {king, king + e, king + 2 * e, c}
  BY <1>10, <1>15
<1> QED BY <1>5, <1>6, <1>17, <1>18 DEF us, them, k, full, c

-----------------------------------------------------------------------------
\* Where the other side is not in check and the squares the king crosses are not

\* attacked, givesCheck foresees whether castling checks.
LEMMA CastlingCheckForeseen ==
  ASSUME NEW p, Good(p), ~R!Checked(p.board, Other(p.nextPlayer)), NEW king, NEW e, AtHome(p, king, e),
         R!Attackers(p.board, king + 2 * e, Other(p.nextPlayer)) = {}
  PROVE  LET m == createMove(king, king + 2 * e, CASTLING)
         IN givesCheck(p, m) <=> R!Checked(R!After(p.board, p.nextPlayer, m), Other(p.nextPlayer))
<1> DEFINE us == p.nextPlayer
           them == Other(us)
           m == createMove(king, king + 2 * e, CASTLING)
           there == R!After(p.board, us, m)
           k == p.kingSquare[them]
           occ == getOccupiedBb(p)
           after == CrossedOcc(p, king, e)
           full == CastledOcc(p, king, e)
           c == Corner(king, e)
<1>1. us \in Color /\ them \in Color /\ us # them /\ Other(them) = us
  BY BitboardsAre, OtherColor
<1>2. k \in Square /\ \A s \in Square : p.board[s] = makePiece(them, KING) <=> s = k
  BY <1>1 DEF Good, KingsOK
<1>3. R!Attackers(p.board, k, us) = {}
  BY <1>1, KingChecked
<1>4. Placement(p.board) /\ Occupies(p.board, occ)
  <2>1. occ = {s \in Square : p.board[s] # PIECE_NONE}
    BY BitboardsAre
  <2>2. Placement(p.board)
    BY DEF Good, BoardOK, Placement
  <2> QED BY <2>1, <2>2 DEF Occupies
<1>5. /\ Placement(there)
      /\ \A s \in Square : there[s] = IF s = king + 2 * e THEN makePiece(us, KING)
                                      ELSE IF s = king + e THEN makePiece(us, ROOK)
                                      ELSE IF s \in {king, c} THEN PIECE_NONE
                                      ELSE p.board[s]
  BY AfterCastling
<1>6. /\ king \in {4, 60} /\ e \in {1, -1}
      /\ king \in Square /\ king + e \in Square /\ king + 2 * e \in Square /\ c \in Square
      /\ king # king + e /\ king # king + 2 * e /\ king # c
      /\ king + e # king + 2 * e /\ king + e # c /\ king + 2 * e # c
  BY CastlingPlaces
<1>7a. /\ p.board[king] = makePiece(us, KING) /\ p.board[c] = makePiece(us, ROOK)
       /\ p.board[king + e] = PIECE_NONE /\ p.board[king + 2 * e] = PIECE_NONE
       /\ (e = -1 => p.board[king + 3 * e] = PIECE_NONE)
  BY DEF AtHome
<1>8. k \notin {king, king + e, king + 2 * e, c} /\ (e = -1 => k # king + 3 * e)
  <2>1. p.board[k] = makePiece(them, KING)
    BY <1>2
  <2>2. makePiece(them, KING) # PIECE_NONE /\ makePiece(them, KING) # makePiece(us, KING)
        /\ makePiece(them, KING) # makePiece(us, ROOK)
    BY <1>1, Kinds
  <2> HIDE DEF us, them, k, c
  <2>3. k # king /\ k # king + e /\ k # king + 2 * e /\ k # c
    BY <1>7a, <2>1, <2>2
  <2>4. e = -1 => k # king + 3 * e
    BY <1>7a, <2>1, <2>2
  <2> QED BY <2>3, <2>4
<1>9. \A s : s \in full <=> (s \in occ /\ s # king /\ s # c) \/ s = king + e \/ s = king + 2 * e
  BY DEF CastledOcc
<1>10. givesCheck(p, m) <=> king + e \in Strikers(after, us, ROOK, k) \/ Sliders(p, us, k, after) # {}
  BY GivesCastling
<1>11. \A s : s \in Sliders(p, us, k, after) <=>
         s \in Square /\ \E t \in {BISHOP, ROOK, QUEEN} : p.board[s] = makePiece(us, t) /\ s \in Strikers(after, us, t, k)
  BY <1>1, <1>2, SlidersAre
<1>12. \A s \in Sliders(p, us, k, after) :
         /\ s \in Square /\ s \notin {king, king + e, king + 2 * e, c}
         /\ \E t \in {BISHOP, ROOK, QUEEN} : p.board[s] = makePiece(us, t) /\ s \in Strikers(full, us, t, k)
  BY CastledSliders
<1>13. king + e \in rookAttacks(k, after) => king + e \in rookAttacks(k, full)
  BY <1>2, <1>8, RookSees
<1>14. \A s : /\ s \in bishopAttacks(k, full) => s \in bishopAttacks(k, after)
              /\ s \in rookAttacks(k, full) => s \in rookAttacks(k, after)
  BY <1>2, CornerHides
<1>15. /\ {BISHOP, ROOK, QUEEN} \subseteq PieceType
       /\ \A t \in PieceType : t \in {KING, PAWN, KNIGHT} \/ t \in {BISHOP, ROOK, QUEEN}
  BY DEF PieceType, KING, PAWN, KNIGHT, BISHOP, ROOK, QUEEN
<1> HIDE DEF us, them, m, there, k, occ, after, full, c
<1>16. Occupies(there, full)
  <2>1. ASSUME NEW s \in Square PROVE s \in full <=> there[s] # PIECE_NONE
    BY <1>1, <1>4, <1>5, <1>6, <1>9, <2>1, Kinds DEF Occupies
  <2> QED BY <2>1 DEF Occupies
<1>17. \A s \in Square : there[s] = makePiece(them, KING) <=> s = k
  BY <1>1, <1>2, <1>5, <1>8, Kinds
<1>18. R!Checked(there, them) <=> R!Attackers(there, k, us) # {}
  BY <1>1, <1>2, <1>17, KingFound
<1>19. \A s \in Square, t \in PieceType : p.board[s] = makePiece(us, t) => s \notin Strikers(occ, us, t, k)
  BY <1>1, <1>2, <1>3, <1>4, AttackersOf
<1>20. \A s : s \in R!Attackers(there, k, us) <=>
         s \in Square /\ \E t \in PieceType : there[s] = makePiece(us, t) /\ s \in Strikers(full, us, t, k)
  BY <1>1, <1>2, <1>5, <1>16, AttackersOf
\* the kings do not stand side by side
<1>21. king + 2 * e \notin kingAttacks[k]
  <2>1. SUFFICES ASSUME king + 2 * e \in kingAttacks[k] PROVE FALSE
    OBVIOUS
  <2>2. k \in kingAttacks[king + 2 * e]
    BY <1>2, <1>6, <2>1, AttacksBack
  <2>3. k \in Strikers(occ, them, KING, king + 2 * e)
    BY <2>2, StrikersAre
  <2>4. k \in R!Attackers(p.board, king + 2 * e, them)
    BY <1>1, <1>2, <1>4, <1>6, <2>3, Kinds, AttackersOf
  <2> QED BY <2>4 DEF them, us
<1>22. \A t \in {BISHOP, ROOK, QUEEN} : \A s : s \in Strikers(full, us, t, k) => s \in Strikers(after, us, t, k)
  BY <1>14, StrikersAre
<1>23. \A t \in {KING, PAWN, KNIGHT} : Strikers(full, us, t, k) = Strikers(occ, us, t, k)
  BY StrikersAre
<1>24. ASSUME NEW s \in R!Attackers(there, k, us)
       PROVE  king + e \in Strikers(after, us, ROOK, k) \/ Sliders(p, us, k, after) # {}
  <2>1. PICK t \in PieceType : there[s] = makePiece(us, t) /\ s \in Strikers(full, us, t, k)
    BY <1>20, <1>24
  <2>2. s \in Square
    BY <1>20, <1>24
  <2>3. CASE s = king + 2 * e
    <3>1. t = KING
      BY <1>1, <1>5, <2>1, <2>2, <2>3, Kinds
    <3> QED BY <1>21, <2>1, <2>3, <3>1, StrikersAre
  <2>4. CASE s = king + e
    <3>1. t = ROOK
      BY <1>1, <1>5, <1>6, <2>1, <2>2, <2>4, Kinds
    <3> QED BY <1>22, <2>1, <2>4, <3>1
  <2>5. CASE s # king + e /\ s # king + 2 * e
    <3>1. p.board[s] = makePiece(us, t)
      BY <1>1, <1>5, <2>1, <2>2, <2>5, Kinds
    <3>2. t \in {BISHOP, ROOK, QUEEN}
      BY <1>15, <1>19, <1>23, <2>1, <2>2, <3>1
    <3> QED BY <1>11, <1>22, <2>1, <2>2, <3>1, <3>2
  <2> QED BY <2>3, <2>4, <2>5
<1>25. ASSUME king + e \in Strikers(after, us, ROOK, k) PROVE R!Attackers(there, k, us) # {}
  <2>1. king + e \in Strikers(full, us, ROOK, k)
    BY <1>13, <1>25, StrikersAre
  <2>2. there[king + e] = makePiece(us, ROOK)
    BY <1>5, <1>6
  <2> QED BY <1>6, <1>20, <2>1, <2>2, Kinds
<1>26. ASSUME NEW s \in Sliders(p, us, k, after) PROVE R!Attackers(there, k, us) # {}
  <2>1. PICK t \in {BISHOP, ROOK, QUEEN} : p.board[s] = makePiece(us, t) /\ s \in Strikers(full, us, t, k)
    BY <1>12, <1>26
  <2>2. s \in Square /\ s \notin {king, king + e, king + 2 * e, c} /\ t \in PieceType
    BY <1>12, <1>15, <1>26
  <2>3. there[s] = p.board[s]
    BY <1>5, <2>2
  <2> QED BY <1>20, <2>1, <2>2, <2>3
<1>27. givesCheck(p, m) <=> R!Checked(there, them)
  BY <1>10, <1>18, <1>24, <1>25, <1>26
<1> QED BY <1>27 DEF there, them, us, m

\* ChecksAreKnown: by the rules of chess, the check flag is right wherever it is
\* known, and givesCheck foresees for every legal move, castling, en passant and
\* promotions included, whether it checks, directly or by uncovering a slider.
THEOREM ChecksAlways == Spec => []ChecksAreKnown
<1>1. ASSUME Reached(FALSE) PROVE ChecksAreKnown
  <2> DEFINE us == pos.nextPlayer
  <2>1. Good(pos) /\ FlagKnown(pos)
    BY <1>1, ReachedNow DEF Sane
  <2>2. us \in Color
    BY <2>1 DEF Good
  <2>3. InCheck(pos) <=> R!Checked(pos.board, us)
    BY <2>1, <2>2, KingChecked DEF InCheck
  <2>4. ASSUME pos.hasCheckFlag # FLAG_TBD
        PROVE  (pos.hasCheckFlag = FLAG_TRUE) = R!Checked(pos.board, us)
    <3>1. pos.hasCheckFlag = FLAG_TRUE <=> R!Checked(pos.board, us)
      BY <2>1, <2>3, <2>4 DEF FlagKnown
    <3> QED BY <3>1 DEF R!Checked
  <2>5. ASSUME Sound, NEW m \in LegalByTheRules
        PROVE  givesCheck(pos, m) <=> R!Checked(R!After(pos.board, us, m), Other(us))
    <3>1. ~R!Checked(pos.board, Other(us))
      BY <2>5 DEF Sound
    <3>2. \/ m \in R!BoardMoves(pos.board, us, pos.enPassantSquare) /\ ~R!Checked(R!After(pos.board, us, m), us)
          \/ m \in R!CastlingMoves(pos.board, us, pos.castlingRights)
      BY <2>5 DEF LegalByTheRules, R!LegalMoves
    <3>3. CASE m \in R!BoardMoves(pos.board, us, pos.enPassantSquare) /\ ~R!Checked(R!After(pos.board, us, m), us)
      BY <2>1, <3>1, <3>3, BoardCheckForeseen
    <3>4. CASE m \in R!CastlingMoves(pos.board, us, pos.castlingRights)
      <4>1. PICK king, e : /\ AtHome(pos, king, e)
                           /\ \A i \in 0 .. 2 : R!Attackers(pos.board, king + i * e, Other(us)) = {}
                           /\ m = createMove(king, king + 2 * e, CASTLING)
        BY <2>1, <3>4, RulesCastling
      <4>2. R!Attackers(pos.board, king + 2 * e, Other(us)) = {}
        <5>1. 2 \in 0 .. 2
          OBVIOUS
        <5> QED BY <4>1, <5>1
      <4> QED BY <2>1, <3>1, <4>1, <4>2, CastlingCheckForeseen
    <3> QED BY <3>2, <3>3, <3>4
  <2>6. ASSUME Sound, NEW m \in LegalByTheRules
        PROVE  givesCheck(pos, m) = R!Checked(R!After(pos.board, us, m), Other(us))
    <3>1. givesCheck(pos, m) <=> R!Checked(R!After(pos.board, us, m), Other(us))
      BY <2>5, <2>6
    <3> QED BY <3>1 DEF givesCheck, R!Checked
  <2> QED BY <2>4, <2>6 DEF ChecksAreKnown
<1>2. Reached(FALSE) => ChecksAreKnown
  BY <1>1
<1> QED BY <1>2, GamesAreRecorded, PTL

-----------------------------------------------------------------------------
(* The moves of the pawns: what the shifted bitboards of the generator are on the *)
(* board.                                                                         *)

\* How many ranks a square is ahead, for either colour.
LEMMA AheadIs ==
  ASSUME NEW c \in Color, NEW s \in Square, NEW t \in Square
  PROVE  R!Ahead(c, s, t) = IF c = WHITE THEN rankOf(t) - rankOf(s) ELSE rankOf(s) - rankOf(t)
<1>1. rankOf(s) \in Int /\ rankOf(t) \in Int
  BY Coordinates
<1>2. R!Ahead(c, s, t) = (rankOf(t) - rankOf(s)) * (IF c = WHITE THEN 1 ELSE -1)
  BY RulesBoard DEF R!Ahead
<1> QED BY <1>1, <1>2

\* The shifts of pawn pushes are steps ahead by the rules.
LEMMA PushGeometry ==
  ASSUME NEW c \in Color, NEW s \in Square, NEW t \in Square
  PROVE  /\ s = t - pawnPush(c) <=> FilesApart(s, t) = 0 /\ R!Ahead(c, s, t) = 1
         /\ s = (t - pawnPush(c)) - pawnPush(c) <=> FilesApart(s, t) = 0 /\ R!Ahead(c, s, t) = 2
<1> DEFINE a == fileOf(s)
           b == rankOf(s)
           x == fileOf(t)
           y == rankOf(t)
<1>1. /\ a \in 0 .. 7 /\ b \in 0 .. 7 /\ s = 8 * b + a
      /\ x \in 0 .. 7 /\ y \in 0 .. 7 /\ t = 8 * y + x
  BY Coordinates
<1>2. R!Ahead(c, s, t) = (IF c = WHITE THEN y - b ELSE b - y)
  BY AheadIs
<1>3. FilesApart(s, t) = (IF a > x THEN a - x ELSE x - a)
  <2>1. FilesApart(s, t) = Gap(a, x) /\ a \in Int /\ x \in Int
    BY <1>1 DEF FilesApart
  <2> HIDE DEF a, x
  <2> QED BY <2>1, GapIs
<1>4. pawnPush(c) = (IF c = WHITE THEN 8 ELSE -8)
  BY DEF pawnPush, NORTH, SOUTH
<1> HIDE DEF a, b, x, y
<1> QED BY <1>1, <1>2, <1>3, <1>4

\* The shifts of pawn captures are steps ahead to the next file by the rules.
LEMMA PawnGeometry ==
  ASSUME NEW c \in Color, NEW s \in Square, NEW t \in Square
  PROVE  /\ \A dir \in {WEST, EAST} : t \in shiftBb(pawnPush(c) + dir, {s}) <=>
              fileOf(t) = fileOf(s) + dir /\ R!Ahead(c, s, t) = 1
         /\ \A dir \in {WEST, EAST} : t \in shiftBb(pawnPush(Other(c)) + dir, {s}) <=>
              fileOf(t) = fileOf(s) + dir /\ R!Ahead(c, t, s) = 1
         /\ FilesApart(s, t) = 1 <=> \E dir \in {WEST, EAST} : fileOf(t) = fileOf(s) + dir
<1> DEFINE a == fileOf(s)
           b == rankOf(s)
           x == fileOf(t)
           y == rankOf(t)
<1>1. /\ a \in 0 .. 7 /\ b \in 0 .. 7 /\ s = 8 * b + a
      /\ x \in 0 .. 7 /\ y \in 0 .. 7 /\ t = 8 * y + x
  BY Coordinates
<1>2. /\ R!Ahead(c, s, t) = (IF c = WHITE THEN y - b ELSE b - y)
      /\ R!Ahead(c, t, s) = (IF c = WHITE THEN b - y ELSE y - b)
  BY AheadIs
<1>3. FilesApart(s, t) = (IF a > x THEN a - x ELSE x - a)
  <2>1. FilesApart(s, t) = Gap(a, x) /\ a \in Int /\ x \in Int
    BY <1>1 DEF FilesApart
  <2> HIDE DEF a, x
  <2> QED BY <2>1, GapIs
<1>4. pawnPush(c) = (IF c = WHITE THEN 8 ELSE -8) /\ pawnPush(Other(c)) = (IF c = WHITE THEN -8 ELSE 8)
  BY DEF pawnPush, Color, WHITE, BLACK, Other, NORTH, SOUTH
<1>5. \A dir \in {1, -1}, up \in {8, -8} :
        t \in shiftBb(up + dir, {s}) <=> t = s + (up + dir) /\ x = a + dir
  <2> TAKE dir \in {1, -1}, up \in {8, -8}
  <2>1. /\ up + dir \in {EAST, NORTH + EAST, SOUTH + EAST} <=> dir = 1
        /\ up + dir \in {WEST, NORTH + WEST, SOUTH + WEST} <=> dir = -1
    BY DEF EAST, WEST, NORTH, SOUTH
  <2>2. (t \in fileBb[0] <=> x = 0) /\ (t \in fileBb[7] <=> x = 7)
    BY DEF fileBb, File
  <2>3. t \in shiftBb(up + dir, {s}) <=>
          t = s + (up + dir) /\ (dir = 1 => x # 0) /\ (dir = -1 => x # 7)
    BY <2>1, <2>2 DEF shiftBb
  <2> HIDE DEF a, b, x, y
  <2> QED BY <1>1, <2>3
<1>6. {WEST, EAST} = {1, -1}
  BY DEF WEST, EAST
<1> HIDE DEF a, b, x, y
<1>9. ASSUME NEW dir \in {1, -1}
      PROVE  /\ t \in shiftBb(pawnPush(c) + dir, {s}) <=> x = a + dir /\ R!Ahead(c, s, t) = 1
             /\ t \in shiftBb(pawnPush(Other(c)) + dir, {s}) <=> x = a + dir /\ R!Ahead(c, t, s) = 1
  <2>1. /\ t \in shiftBb(pawnPush(c) + dir, {s}) <=> t = s + (pawnPush(c) + dir) /\ x = a + dir
        /\ t \in shiftBb(pawnPush(Other(c)) + dir, {s}) <=> t = s + (pawnPush(Other(c)) + dir) /\ x = a + dir
    BY <1>4, <1>5
  <2>2. CASE c = WHITE
    BY <1>1, <1>2, <1>4, <2>1, <2>2
  <2>3. CASE c # WHITE
    BY <1>1, <1>2, <1>4, <2>1, <2>3
  <2> QED BY <2>2, <2>3
<1>10. FilesApart(s, t) = 1 <=> \E dir \in {1, -1} : x = a + dir
  BY <1>1, <1>3
<1> QED BY <1>6, <1>9, <1>10 DEF a, x

\* A shifted square, shifted back.
LEMMA ShiftedOne ==
  ASSUME NEW d \in Int, NEW s \in Square, NEW t \in shiftBb(d, {s})
  PROVE  s = t - d /\ t \in Square
<1>1. {s} \subseteq Square
  OBVIOUS
<1>2. t \in Square /\ t - d \in {s}
  BY <1>1, Shifted
<1> QED BY <1>2

\* the squares of a shifted bitboard
LEMMA ShiftIs ==
  ASSUME NEW d \in Int, NEW squares, squares \subseteq Square, NEW t
  PROVE  t \in shiftBb(d, squares) <=> t \in Square /\ \E s \in squares : s = t - d /\ t \in shiftBb(d, {s})
<1>1. ASSUME t \in shiftBb(d, squares) PROVE t \in Square /\ \E s \in squares : s = t - d /\ t \in shiftBb(d, {s})
  BY <1>1, Shifted
<1>2. ASSUME NEW s \in squares, t \in shiftBb(d, {s}) PROVE t \in shiftBb(d, squares)
  BY <1>2 DEF shiftBb
<1> QED BY <1>1, <1>2

\* A push never leaves the board by the side.
LEMMA PushIs ==
  ASSUME NEW c \in Color, NEW squares, squares \subseteq Square, NEW t
  PROVE  t \in shiftBb(pawnPush(c), squares) <=> t \in Square /\ t - pawnPush(c) \in squares
<1>1. pawnPush(c) \in {8, -8} /\ pawnPush(c) \in Int
  BY Pushes
<1>2. ASSUME t \in Square, t - pawnPush(c) \in squares PROVE t \in shiftBb(pawnPush(c), {t - pawnPush(c)})
  <2>1. t = (t - pawnPush(c)) + pawnPush(c)
    BY <1>1, <1>2 DEF Square
  <2>2. pawnPush(c) \notin {EAST, NORTH + EAST, SOUTH + EAST} /\ pawnPush(c) \notin {WEST, NORTH + WEST, SOUTH + WEST}
    BY <1>1 DEF EAST, WEST, NORTH, SOUTH
  <2> QED BY <1>2, <2>1, <2>2 DEF shiftBb
<1> QED BY <1>1, <1>2, ShiftIs

-----------------------------------------------------------------------------
(* Where a pawn gets: the moves of the rules, and the bitboards. *)

\* a step or a capture, and a capture en passant
PawnReaches(p, s, t) ==
    /\ s \in Square /\ t \in Square /\ p.board[s] = makePiece(p.nextPlayer, PAWN)
    /\ \/ Steps(p.board, p.nextPlayer, s, t)
       \/ FilesApart(s, t) = 1 /\ R!Ahead(p.nextPlayer, s, t) = 1 /\ t \in Theirs(p)
PassesTo(p, s, t) ==
    /\ s \in Square /\ t \in Square /\ p.board[s] = makePiece(p.nextPlayer, PAWN)
    /\ FilesApart(s, t) = 1 /\ R!Ahead(p.nextPlayer, s, t) = 1
    /\ t = p.enPassantSquare /\ p.board[t] = PIECE_NONE
\* the moves of the rules, but for castling
RuleMoves(p) == R!BoardMoves(p.board, p.nextPlayer, p.enPassantSquare)

\* The army of the rules is the bitboard of the colour.
LEMMA ArmiesAre ==
  ASSUME NEW p, Good(p)
  PROVE  /\ \A s : s \in R!Army(p.board, p.nextPlayer) <=>
               s \in Square /\ \E pt \in PieceType : p.board[s] = makePiece(p.nextPlayer, pt)
         /\ R!Army(p.board, p.nextPlayer) = p.occupiedBb[p.nextPlayer]
         /\ \A s \in Square : s \in Theirs(p) <=> p.board[s] # PIECE_NONE /\ s \notin R!Army(p.board, p.nextPlayer)
<1>1. p.nextPlayer \in Color /\ Other(p.nextPlayer) \in Color
  BY BitboardsAre
<1>2. \A c \in Color : p.occupiedBb[c] = Own(p, c)
  BY BitboardsAre
<1>3. R!Army(p.board, p.nextPlayer) = Own(p, p.nextPlayer)
  BY RulesBoard DEF R!Army, Own
<1>4. \A s \in Square : p.board[s] = PIECE_NONE \/ p.board[s] \in Piece
  BY BitboardsAre
<1>5. ASSUME NEW s \in Square
      PROVE  s \in Own(p, p.nextPlayer) <=> \E pt \in PieceType : p.board[s] = makePiece(p.nextPlayer, pt)
  BY <1>1, <1>4, PieceFacts DEF Own
<1>6. \A s \in Square : s \in Own(p, Other(p.nextPlayer)) <=> p.board[s] # PIECE_NONE /\ s \notin Own(p, p.nextPlayer)
  <2>1. Color = {p.nextPlayer, Other(p.nextPlayer)} /\ p.nextPlayer # Other(p.nextPlayer)
    BY <1>1, OtherColor DEF Color
  <2> QED BY <1>4, <2>1, PieceFacts DEF Own
<1>7. \A s : s \in Own(p, p.nextPlayer) => s \in Square
  BY DEF Own
<1> QED BY <1>1, <1>2, <1>3, <1>5, <1>6, <1>7 DEF Theirs

\* The pawn moves of the rules.
LEMMA RulePawnMoves ==
  ASSUME NEW p, Good(p), NEW m
  PROVE  m \in RuleMoves(p) /\ p.board[m.from] = makePiece(p.nextPlayer, PAWN) <=>
           \/ /\ PawnReaches(p, m.from, m.to) /\ rankOf(m.to) # promotionRank(p.nextPlayer)
              /\ m = createMove(m.from, m.to, NORMAL)
           \/ /\ PawnReaches(p, m.from, m.to) /\ rankOf(m.to) = promotionRank(p.nextPlayer)
              /\ m.prom \in KNIGHT .. QUEEN /\ m = createPromotion(m.from, m.to, m.prom)
           \/ PassesTo(p, m.from, m.to) /\ m = createMove(m.from, m.to, ENPASSANT)
<1> DEFINE us == p.nextPlayer
           s == m.from
           t == m.to
           pawn == p.board[s] = makePiece(us, PAWN)
<1>1. us \in Color /\ PAWN \in PieceType
  BY Kinds, BitboardsAre
<1>2. m \in RuleMoves(p) <=>
           /\ s \in R!Army(p.board, us) /\ t \in Square
           /\ m.type \in R!TypesOf(p.board, us, p.enPassantSquare, s, t)
           /\ \/ m.type # PROMOTION /\ m = createMove(s, t, m.type)
              \/ /\ m.type = PROMOTION /\ m.prom \in KNIGHT .. QUEEN
                 /\ m = createPromotion(s, t, m.prom)
  BY BoardMoveIs DEF RuleMoves
<1>3. pawn => (s \in R!Army(p.board, us) <=> s \in Square)
  BY <1>1, ArmiesAre
<1>4. ASSUME pawn, s \in Square, t \in Square
      PROVE  m.type \in R!TypesOf(p.board, us, p.enPassantSquare, s, t) <=>
               \/ PawnReaches(p, s, t) /\ m.type = (IF rankOf(t) = promotionRank(us) THEN PROMOTION ELSE NORMAL)
               \/ PassesTo(p, s, t) /\ m.type = ENPASSANT
  <2>1. R!Attacks(p.board, s, t) <=> FilesApart(s, t) = 1 /\ R!Ahead(us, s, t) = 1
    BY <1>1, <1>4, PawnAttackIs
  <2>2. m.type \in R!TypesOf(p.board, us, p.enPassantSquare, s, t) <=>
           /\ t \notin R!Army(p.board, us)
           /\ \/ /\ Steps(p.board, us, s, t) \/ (R!Attacks(p.board, s, t) /\ p.board[t] # PIECE_NONE)
                 /\ m.type = (IF rankOf(t) = promotionRank(us) THEN PROMOTION ELSE NORMAL)
              \/ R!Attacks(p.board, s, t) /\ t = p.enPassantSquare /\ p.board[t] = PIECE_NONE /\ m.type = ENPASSANT
    BY <1>4, TypesAre
  <2>3. t \in R!Army(p.board, us) => p.board[t] # PIECE_NONE
    BY <1>1, ArmiesAre, Kinds
  <2>4. t \in Theirs(p) <=> p.board[t] # PIECE_NONE /\ t \notin R!Army(p.board, us)
    BY <1>4, ArmiesAre
  <2>5. Steps(p.board, us, s, t) => p.board[t] = PIECE_NONE
    BY DEF Steps
  <2> QED BY <1>4, <2>1, <2>2, <2>3, <2>4, <2>5 DEF PawnReaches, PassesTo
<1>5. /\ PawnReaches(p, s, t) => pawn /\ s \in Square /\ t \in Square
      /\ PassesTo(p, s, t) => pawn /\ s \in Square /\ t \in Square
  BY DEF PawnReaches, PassesTo
<1>6. /\ createMove(s, t, NORMAL).type = NORMAL /\ createMove(s, t, ENPASSANT).type = ENPASSANT
      /\ createPromotion(s, t, m.prom).type = PROMOTION
  BY DEF createMove, createPromotion
<1> HIDE DEF us, pawn
<1>7. ASSUME m \in RuleMoves(p), pawn
      PROVE  \/ PawnReaches(p, s, t) /\ rankOf(t) # promotionRank(us) /\ m = createMove(s, t, NORMAL)
             \/ /\ PawnReaches(p, s, t) /\ rankOf(t) = promotionRank(us)
                /\ m.prom \in KNIGHT .. QUEEN /\ m = createPromotion(s, t, m.prom)
             \/ PassesTo(p, s, t) /\ m = createMove(s, t, ENPASSANT)
  BY <1>2, <1>3, <1>4, <1>7, Types
<1>8. ASSUME \/ PawnReaches(p, s, t) /\ rankOf(t) # promotionRank(us) /\ m = createMove(s, t, NORMAL)
             \/ /\ PawnReaches(p, s, t) /\ rankOf(t) = promotionRank(us)
                /\ m.prom \in KNIGHT .. QUEEN /\ m = createPromotion(s, t, m.prom)
             \/ PassesTo(p, s, t) /\ m = createMove(s, t, ENPASSANT)
      PROVE  m \in RuleMoves(p) /\ pawn
  BY <1>2, <1>3, <1>4, <1>5, <1>6, <1>8, Types
<1> QED BY <1>7, <1>8 DEF us, pawn

-----------------------------------------------------------------------------
\* where pawns go by one step, by two, by a capture; and from where they capture en passant
Singles(p) == shiftBb(pawnPush(p.nextPlayer), p.piecesBb[p.nextPlayer][PAWN]) \ getOccupiedBb(p)
Doubles(p) ==
    shiftBb(pawnPush(p.nextPlayer), Singles(p) \cap rankBb[pawnDoubleRank(p.nextPlayer)]) \ getOccupiedBb(p)
Takes(p, dir) ==
    shiftBb(pawnPush(p.nextPlayer) + dir, p.piecesBb[p.nextPlayer][PAWN]) \cap Theirs(p)
Passing(p, dir) ==
    shiftBb(pawnPush(Other(p.nextPlayer)) + dir, {p.enPassantSquare} \ {SQ_NONE})
      \cap p.piecesBb[p.nextPlayer][PAWN]

\* The bitboards of the pawns and of the occupied squares.
LEMMA PawnsAre ==
  ASSUME NEW p, Good(p)
  PROVE  /\ p.piecesBb[p.nextPlayer][PAWN] \subseteq Square
         /\ \A s : s \in p.piecesBb[p.nextPlayer][PAWN] <=>
              s \in Square /\ p.board[s] = makePiece(p.nextPlayer, PAWN)
         /\ \A s : s \in getOccupiedBb(p) <=> s \in Square /\ p.board[s] # PIECE_NONE
         /\ p.nextPlayer \in Color
BY BitboardsAre, Kinds DEF Placed

\* The targets of single steps.
LEMMA SinglesAre ==
  ASSUME NEW p, Good(p), NEW t
  PROVE  t \in Singles(p) <=>
           /\ t \in Square /\ t - pawnPush(p.nextPlayer) \in p.piecesBb[p.nextPlayer][PAWN]
           /\ p.board[t] = PIECE_NONE
BY PawnsAre, PushIs DEF Singles

\* The targets of double steps.
LEMMA DoublesAre ==
  ASSUME NEW p, Good(p), NEW t
  PROVE  t \in Doubles(p) <=>
           /\ t \in Square /\ t - pawnPush(p.nextPlayer) \in Singles(p)
           /\ rankOf(t - pawnPush(p.nextPlayer)) = pawnDoubleRank(p.nextPlayer)
           /\ p.board[t] = PIECE_NONE
<1>1. Singles(p) \cap rankBb[pawnDoubleRank(p.nextPlayer)] \subseteq Square
  BY SinglesAre
<1>2. \A s \in Square : s \in rankBb[pawnDoubleRank(p.nextPlayer)] <=> rankOf(s) = pawnDoubleRank(p.nextPlayer)
  BY DEF rankBb, Rank, pawnDoubleRank
<1> QED BY <1>1, <1>2, PawnsAre, PushIs, SinglesAre DEF Doubles

\* A double step by the rules starts on the pawns' rank and crosses one square.
LEMMA DoubleStep ==
  ASSUME NEW c \in Color, NEW s \in Square, NEW t \in Square, FilesApart(s, t) = 0, R!Ahead(c, s, t) = 2
  PROVE  /\ t - pawnPush(c) \in Square
         /\ R!Between(s, t) = {t - pawnPush(c)}
         /\ rankOf(s) = (IF c = WHITE THEN 1 ELSE 6) <=> rankOf(t - pawnPush(c)) = pawnDoubleRank(c)
         /\ rankOf(t) # promotionRank(c) \/ rankOf(s) # (IF c = WHITE THEN 1 ELSE 6)
<1> DEFINE a == fileOf(s)
           b == rankOf(s)
           x == fileOf(t)
           y == rankOf(t)
           u == t - pawnPush(c)
<1>1. /\ a \in 0 .. 7 /\ b \in 0 .. 7 /\ s = 8 * b + a
      /\ x \in 0 .. 7 /\ y \in 0 .. 7 /\ t = 8 * y + x
  BY Coordinates
<1>2. 2 = (IF c = WHITE THEN y - b ELSE b - y)
  BY AheadIs
<1>3. x = a
  <2>1. FilesApart(s, t) = Gap(a, x) /\ a \in Int /\ x \in Int
    BY <1>1 DEF FilesApart
  <2> HIDE DEF a, x
  <2>2. Gap(a, x) = IF a > x THEN a - x ELSE x - a
    BY <2>1, GapIs
  <2> QED BY <2>1, <2>2
<1>4. pawnPush(c) = (IF c = WHITE THEN 8 ELSE -8)
  BY DEF pawnPush, NORTH, SOUTH
<1>5. u = 8 * (IF c = WHITE THEN y - 1 ELSE y + 1) + x /\ (IF c = WHITE THEN y - 1 ELSE y + 1) \in 0 .. 7
  <2> HIDE DEF a, b, x, y
  <2> QED BY <1>1, <1>2, <1>4
<1>6. u \in Square /\ rankOf(u) = (IF c = WHITE THEN y - 1 ELSE y + 1)
  BY <1>1, <1>5, SquareIs
<1>7. R!Between(s, t) = {u}
  <2> DEFINE d == IF c = WHITE THEN -8 ELSE 8
  <2>1. d \in Directions /\ d \in {8, -8} /\ s = t + 2 * d /\ u = t + 1 * d
    <3> HIDE DEF a, b, x, y
    <3> QED BY <1>1, <1>2, <1>3, <1>4, DirectionsAre
  <2>2. Free(d, t, 2)
    <3>1. Run(d) = 0 /\ Rise(d) = (IF c = WHITE THEN -1 ELSE 1)
      BY DEF Run, Rise
    <3>2. x + 2 * Run(d) = a /\ y + 2 * Rise(d) = b
      <4> HIDE DEF a, b, x, y, d
      <4> QED BY <1>1, <1>2, <1>3, <3>1
    <3> QED BY <1>1, <2>1, <3>2, FreeIs
  <2> HIDE DEF d, u
  <2>3. OfLine(d, t, 2, t + 2 * d)
    BY <2>1, <2>2, LineIs
  <2>4. {t + i * d : i \in 1 .. 2 - 1} = {u}
    BY <2>1
  <2> QED BY <2>1, <2>3, <2>4 DEF OfLine
<1> HIDE DEF a, b, x, y, u
<1> QED BY <1>1, <1>2, <1>6, <1>7 DEF u, y, b, pawnDoubleRank, promotionRank

-----------------------------------------------------------------------------

\* The arithmetic of the pawns' directions.
LEMMA DirectionsOfPawns ==
  ASSUME NEW c \in Color, NEW dir \in {WEST, EAST}
  PROVE  /\ pawnPush(c) + dir \in Int /\ pawnPush(Other(c)) + dir \in Int /\ dir \in {1, -1}
         /\ pawnPush(Other(c)) = -pawnPush(c) /\ pawnPush(c) \in {8, -8}
         /\ \A t \in Int : /\ t + pawnPush(Other(c)) - dir = t - (pawnPush(c) + dir)
                           /\ t - pawnPush(c) - dir = t - (pawnPush(c) + dir)
                           /\ t + pawnPush(c) - dir = t - (pawnPush(Other(c)) + dir)
                           /\ t + pawnPush(Other(c)) = t - pawnPush(c)
                           /\ t + 2 * pawnPush(Other(c)) = (t - pawnPush(c)) - pawnPush(c)
                           /\ t - 2 * pawnPush(c) = (t - pawnPush(c)) - pawnPush(c)
<1>1. dir \in {1, -1} /\ pawnPush(c) \in {8, -8} /\ pawnPush(Other(c)) = -pawnPush(c)
  BY Pushes DEF WEST, EAST
<1> DEFINE up == pawnPush(c)
           back == pawnPush(Other(c))
<1>2. up \in {8, -8} /\ back = -up
  BY <1>1
<1> HIDE DEF up, back
<1>3. /\ up + dir \in Int /\ back + dir \in Int
      /\ \A t \in Int : /\ t + back - dir = t - (up + dir)
                        /\ t - up - dir = t - (up + dir)
                        /\ t + up - dir = t - (back + dir)
                        /\ t + back = t - up
                        /\ t + 2 * back = (t - up) - up
                        /\ t - 2 * up = (t - up) - up
  BY <1>1, <1>2
<1> QED BY <1>1, <1>3 DEF up, back

\* The steps of the generator are those of the rules.
LEMMA PushesReach ==
  ASSUME NEW p, Good(p), NEW s, NEW t
  PROVE  PawnReaches(p, s, t) /\ p.board[t] = PIECE_NONE <=>
           \/ t \in Singles(p) /\ s = t - pawnPush(p.nextPlayer)
           \/ t \in Doubles(p) /\ s = (t - pawnPush(p.nextPlayer)) - pawnPush(p.nextPlayer)
<1> DEFINE us == p.nextPlayer
           up == pawnPush(us)
           pawn(x) == x \in Square /\ p.board[x] = makePiece(us, PAWN)
<1>1. /\ us \in Color
      /\ \A x : x \in p.piecesBb[us][PAWN] <=> pawn(x)
  BY PawnsAre
<1>2. /\ t \in Singles(p) <=> t \in Square /\ pawn(t - up) /\ p.board[t] = PIECE_NONE
      /\ t \in Doubles(p) <=> /\ t \in Square /\ t - up \in Square /\ pawn((t - up) - up) /\ p.board[t - up] = PIECE_NONE
                              /\ rankOf(t - up) = pawnDoubleRank(us) /\ p.board[t] = PIECE_NONE
  BY <1>1, SinglesAre, DoublesAre
<1>3. ASSUME t \in Square, s \in Square
      PROVE  Steps(p.board, us, s, t) <=>
               /\ p.board[t] = PIECE_NONE
               /\ \/ s = t - up
                  \/ /\ s = (t - up) - up /\ t - up \in Square /\ p.board[t - up] = PIECE_NONE
                     /\ rankOf(t - up) = pawnDoubleRank(us)
  <2>1. /\ s = t - up <=> FilesApart(s, t) = 0 /\ R!Ahead(us, s, t) = 1
        /\ s = (t - up) - up <=> FilesApart(s, t) = 0 /\ R!Ahead(us, s, t) = 2
    BY <1>1, <1>3, PushGeometry, Zenon
  <2>2. ASSUME FilesApart(s, t) = 0, R!Ahead(us, s, t) = 2
        PROVE  /\ t - up \in Square
               /\ rankOf(s) = (IF us = WHITE THEN 1 ELSE 6) <=> rankOf(t - up) = pawnDoubleRank(us)
               /\ R!Clear(p.board, s, t) <=> p.board[t - up] = PIECE_NONE
    BY <1>1, <1>3, <2>2, DoubleStep, RulesBoard DEF R!Clear
  <2> QED BY <2>1, <2>2 DEF Steps
<1>4. t \in Theirs(p) => p.board[t] # PIECE_NONE
  BY ArmiesAre, TheirsAre
<1>5. /\ pawn(t - up) => t - up \in Square
      /\ pawn((t - up) - up) => (t - up) - up \in Square
      /\ PawnReaches(p, s, t) => t \in Square /\ pawn(s)
  BY DEF PawnReaches
<1> HIDE DEF us, up
<1>6. ASSUME PawnReaches(p, s, t), p.board[t] = PIECE_NONE
      PROVE  \/ t \in Singles(p) /\ s = t - up
             \/ t \in Doubles(p) /\ s = (t - up) - up
  <2>1. Steps(p.board, us, s, t) /\ t \in Square /\ pawn(s) /\ s \in Square
    BY <1>4, <1>5, <1>6 DEF PawnReaches, us
  <2> QED BY <1>2, <1>3, <2>1
<1>7. ASSUME \/ t \in Singles(p) /\ s = t - up
             \/ t \in Doubles(p) /\ s = (t - up) - up
      PROVE  PawnReaches(p, s, t) /\ p.board[t] = PIECE_NONE
  <2>1. t \in Square /\ s \in Square /\ pawn(s) /\ p.board[t] = PIECE_NONE
    BY <1>2, <1>7
  <2>2. Steps(p.board, us, s, t)
    BY <1>2, <1>3, <1>7, <2>1
  <2> QED BY <2>1, <2>2 DEF PawnReaches, us
<1> QED BY <1>6, <1>7 DEF us, up

\* No double step promotes.
LEMMA DoublesLow ==
  ASSUME NEW p, Good(p), NEW t \in Doubles(p)
  PROVE  rankOf(t) # promotionRank(p.nextPlayer)
<1> DEFINE us == p.nextPlayer
           s == (t - pawnPush(us)) - pawnPush(us)
<1>1. us \in Color /\ t \in Square /\ rankOf(t - pawnPush(us)) = pawnDoubleRank(us)
  BY PawnsAre, DoublesAre
<1>2. s \in Square
  <2>1. t - pawnPush(us) \in Singles(p)
    BY DoublesAre
  <2>2. s \in p.piecesBb[us][PAWN]
    BY <2>1, SinglesAre
  <2> QED BY <2>2, PawnsAre
<1>3. FilesApart(s, t) = 0 /\ R!Ahead(us, s, t) = 2
  BY <1>1, <1>2, PushGeometry, Zenon
<1> HIDE DEF s
<1> QED BY <1>1, <1>2, <1>3, DoubleStep

\* The pawn captures of the generator are those of the rules.
LEMMA TakesReach ==
  ASSUME NEW p, Good(p), NEW s, NEW t
  PROVE  /\ PawnReaches(p, s, t) /\ t \in Theirs(p) <=>
              \E dir \in {WEST, EAST} : t \in Takes(p, dir) /\ s = t - (pawnPush(p.nextPlayer) + dir)
         /\ PawnReaches(p, s, t) => p.board[t] = PIECE_NONE \/ t \in Theirs(p)
<1> DEFINE us == p.nextPlayer
           pawns == p.piecesBb[us][PAWN]
<1>1. /\ us \in Color /\ pawns \subseteq Square
      /\ \A x : x \in pawns <=> x \in Square /\ p.board[x] = makePiece(us, PAWN)
  BY PawnsAre
<1>2. ASSUME NEW dir \in {WEST, EAST}
      PROVE  t \in Takes(p, dir) <=>
               /\ t \in Square /\ t \in Theirs(p) /\ t - (pawnPush(us) + dir) \in pawns
               /\ t \in shiftBb(pawnPush(us) + dir, {t - (pawnPush(us) + dir)})
  <2>1. pawnPush(us) + dir \in Int
    BY <1>1, <1>2, DirectionsOfPawns
  <2>2. PICK d : d = pawnPush(us) + dir
    OBVIOUS
  <2>3. t \in shiftBb(d, pawns) <=> t \in Square /\ \E x \in pawns : x = t - d /\ t \in shiftBb(d, {x})
    BY <1>1, <2>1, <2>2, ShiftIs
  <2> HIDE DEF us, pawns
  <2>4. t \in shiftBb(d, pawns) <=> t \in Square /\ t - d \in pawns /\ t \in shiftBb(d, {t - d})
    BY <2>3
  <2>5. t \in Takes(p, dir) <=> t \in shiftBb(d, pawns) /\ t \in Theirs(p)
    BY <2>2 DEF Takes, us, pawns
  <2> QED BY <2>2, <2>4, <2>5
<1>3. ASSUME PawnReaches(p, s, t) PROVE p.board[t] = PIECE_NONE \/ t \in Theirs(p)
  BY <1>3 DEF PawnReaches, Steps
<1>4. ASSUME PawnReaches(p, s, t), t \in Theirs(p)
      PROVE  \E dir \in {WEST, EAST} : t \in Takes(p, dir) /\ s = t - (pawnPush(us) + dir)
  <2>1. /\ s \in Square /\ t \in Square /\ p.board[s] = makePiece(us, PAWN)
        /\ FilesApart(s, t) = 1 /\ R!Ahead(us, s, t) = 1
    <3>1. p.board[t] # PIECE_NONE
      BY <1>4, TheirsAre, ArmiesAre
    <3> QED BY <1>4, <3>1 DEF PawnReaches, Steps
  <2>2. PICK dir \in {WEST, EAST} : t \in shiftBb(pawnPush(us) + dir, {s})
    BY <1>1, <2>1, PawnGeometry
  <2>3. s = t - (pawnPush(us) + dir)
    <3>1. pawnPush(us) + dir \in Int
      BY <1>1, DirectionsOfPawns
    <3> QED BY <2>1, <2>2, <3>1, ShiftedOne
  <2> QED BY <1>1, <1>2, <1>4, <2>1, <2>2, <2>3
<1>5. ASSUME NEW dir \in {WEST, EAST}, t \in Takes(p, dir), s = t - (pawnPush(us) + dir)
      PROVE  PawnReaches(p, s, t) /\ t \in Theirs(p)
  <2>1. t \in Square /\ t \in Theirs(p) /\ s \in pawns /\ t \in shiftBb(pawnPush(us) + dir, {s})
    BY <1>2, <1>5
  <2>2. s \in Square
    BY <1>1, <2>1
  <2> HIDE DEF us
  <2>3. fileOf(t) = fileOf(s) + dir /\ R!Ahead(us, s, t) = 1
    <3>1. us \in Color /\ t \in Square /\ t \in shiftBb(pawnPush(us) + dir, {s})
      BY <1>1, <2>1
    <3>2. \A x \in {WEST, EAST} : t \in shiftBb(pawnPush(us) + x, {s}) <=>
              fileOf(t) = fileOf(s) + x /\ R!Ahead(us, s, t) = 1
      BY ONLY <2>2, <3>1, PawnGeometry, Zenon
    <3>3. dir \in {WEST, EAST}
      BY <1>5
    <3>4. t \in shiftBb(pawnPush(us) + dir, {s}) <=> fileOf(t) = fileOf(s) + dir /\ R!Ahead(us, s, t) = 1
      BY ONLY <3>2, <3>3, Zenon
    <3> QED BY ONLY <3>1, <3>4
  <2>4. FilesApart(s, t) = 1
    BY <1>1, <1>5, <2>1, <2>2, <2>3, PawnGeometry
  <2> QED BY <1>1, <2>1, <2>2, <2>3, <2>4 DEF PawnReaches, us
<1> QED BY <1>3, <1>4, <1>5

\* The en passant captures of the generator are those of the rules.
LEMMA PassingReach ==
  ASSUME NEW p, Good(p), NEW s, NEW t
  PROVE  PassesTo(p, s, t) <=>
           \E dir \in {WEST, EAST} : s \in Passing(p, dir) /\ t = s + pawnPush(p.nextPlayer) - dir
<1> DEFINE us == p.nextPlayer
           pawns == p.piecesBb[us][PAWN]
           ep == p.enPassantSquare
<1>1. /\ us \in Color /\ pawns \subseteq Square
      /\ \A x : x \in pawns <=> x \in Square /\ p.board[x] = makePiece(us, PAWN)
  BY PawnsAre
<1>2. ep = SQ_NONE \/ (ep \in Square /\ p.board[ep] = PIECE_NONE)
  BY DEF Good, EnPassantOK
<1>3. SQ_NONE \notin Square
  BY DEF SQ_NONE, Square
<1>4. ASSUME NEW dir \in {WEST, EAST}
      PROVE  s \in Passing(p, dir) <=>
               /\ ep \in Square /\ s \in pawns /\ s \in shiftBb(pawnPush(Other(us)) + dir, {ep})
  <2>1. {ep} \ {SQ_NONE} = IF ep = SQ_NONE THEN {} ELSE {ep}
    OBVIOUS
  <2>2. shiftBb(pawnPush(Other(us)) + dir, {}) = {}
    BY DEF shiftBb
  <2> QED BY <1>2, <1>3, <2>1, <2>2 DEF Passing
<1>5. ASSUME PassesTo(p, s, t) PROVE \E dir \in {WEST, EAST} : s \in Passing(p, dir) /\ t = s + pawnPush(us) - dir
  <2>1. /\ s \in Square /\ t \in Square /\ p.board[s] = makePiece(us, PAWN) /\ t = ep
        /\ FilesApart(s, t) = 1 /\ R!Ahead(us, s, t) = 1
    BY <1>5 DEF PassesTo
  <2>2. FilesApart(t, s) = 1
    <3>1. fileOf(s) \in Int /\ fileOf(t) \in Int
      BY <2>1, Coordinates
    <3> QED BY <2>1, <3>1, GapFacts DEF FilesApart
  <2>3. PICK dir \in {WEST, EAST} : s \in shiftBb(pawnPush(Other(us)) + dir, {t})
    BY <1>1, <2>1, <2>2, PawnGeometry
  <2>4. t = s - (pawnPush(Other(us)) + dir)
    <3>1. pawnPush(Other(us)) + dir \in Int
      BY <1>1, DirectionsOfPawns
    <3> QED BY <2>1, <2>3, <3>1, ShiftedOne, Zenon
  <2>5. t = s + pawnPush(us) - dir
    <3>1. s \in Int
      BY <2>1 DEF Square
    <3> QED BY <1>1, <2>4, <3>1, DirectionsOfPawns
  <2> QED BY <1>1, <1>4, <2>1, <2>3, <2>5
<1>6. ASSUME NEW dir \in {WEST, EAST}, s \in Passing(p, dir), t = s + pawnPush(us) - dir PROVE PassesTo(p, s, t)
  <2>1. ep \in Square /\ s \in pawns /\ s \in shiftBb(pawnPush(Other(us)) + dir, {ep}) /\ s \in Square
    BY <1>1, <1>4, <1>6
  <2>2. ep = s - (pawnPush(Other(us)) + dir)
    <3>1. pawnPush(Other(us)) + dir \in Int
      BY <1>1, DirectionsOfPawns
    <3> QED BY <2>1, <3>1, ShiftedOne, Zenon
  <2>3. t = ep
    <3>1. s \in Int
      BY <2>1 DEF Square
    <3> QED BY <1>1, <1>6, <2>2, <3>1, DirectionsOfPawns
  <2>4. FilesApart(ep, s) = 1 /\ R!Ahead(us, s, ep) = 1
    BY <1>1, <2>1, PawnGeometry
  <2>5. FilesApart(s, ep) = 1
    <3>1. fileOf(s) \in Int /\ fileOf(ep) \in Int
      BY <2>1, Coordinates
    <3> QED BY <2>4, <3>1, GapFacts DEF FilesApart
  <2> QED BY <1>1, <1>2, <1>3, <2>1, <2>3, <2>4, <2>5 DEF PassesTo
<1> QED BY <1>5, <1>6

-----------------------------------------------------------------------------
(* The moves the generator makes for pawns are those of the rules. *)

\* a move of a pawn by a capture, a step or two steps; as it is, or promoting
Takers(p, m) ==
    \E dir \in {WEST, EAST} : m.to \in Takes(p, dir) /\ m.from = m.to - (pawnPush(p.nextPlayer) + dir)
Steppers(p, m) == m.to \in Singles(p) /\ m.from = m.to - pawnPush(p.nextPlayer)
Jumpers(p, m) ==
    m.to \in Doubles(p) /\ m.from = (m.to - pawnPush(p.nextPlayer)) - pawnPush(p.nextPlayer)
Plain(p, m) == rankOf(m.to) # promotionRank(p.nextPlayer) /\ m = createMove(m.from, m.to, NORMAL)
Promotes(p, m, pieceTypes) ==
    /\ rankOf(m.to) = promotionRank(p.nextPlayer)
    /\ m.prom \in pieceTypes /\ m = createPromotion(m.from, m.to, m.prom)

\* A member of a list of promotions says its piece.
LEMMA PromotionsAre ==
  ASSUME NEW from, NEW to, NEW pts, NEW m
  PROVE  m \in Promotions(from, to, pts) <=>
           m.from = from /\ m.to = to /\ m.prom \in pts /\ m = createPromotion(m.from, m.to, m.prom)
<1>1. \A pt : /\ createPromotion(from, to, pt).from = from
              /\ createPromotion(from, to, pt).to = to
              /\ createPromotion(from, to, pt).prom = pt
  BY DEF createPromotion, createMove
<1> QED BY <1>1 DEF Promotions

\* A move made with two squares says them.
LEMMA MoveMade ==
  ASSUME NEW from, NEW to, NEW type, NEW m
  PROVE  m = createMove(from, to, type) <=> m.from = from /\ m.to = to /\ m = createMove(m.from, m.to, type)
BY DEF createMove

\* A square of a rank's bitboard is on the rank.
LEMMA RankIs ==
  ASSUME NEW c \in Color, NEW t
  PROVE  t \in rankBb[promotionRank(c)] <=> t \in Square /\ rankOf(t) = promotionRank(c)
<1>1. promotionRank(c) \in 0 .. 7
  BY DEF promotionRank
<1> QED BY <1>1 DEF rankBb, Rank

\* What the generator lists among the captures.
LEMMA PawnCapturesAre ==
  ASSUME NEW p, Good(p), NEW T, NEW m
  PROVE  m \in PawnCaptures(p, T) <=>
           \/ Takers(p, m) /\ m.to \in T /\ Plain(p, m)
           \/ Takers(p, m) /\ m.to \in T /\ Promotes(p, m, KNIGHT .. QUEEN)
           \/ PassesTo(p, m.from, m.to) /\ m = createMove(m.from, m.to, ENPASSANT)
           \/ Steppers(p, m) /\ m.to \in T /\ Promotes(p, m, {QUEEN, KNIGHT})
<1> DEFINE us == p.nextPlayer
           back == pawnPush(Other(us))
           Caps(dir) == Takes(p, dir) \cap T
           Proms(dir) == Caps(dir) \cap rankBb[promotionRank(us)]
           OneSide(dir) == (UNION {Promotions(t + back - dir, t, KNIGHT .. QUEEN) : t \in Proms(dir)})
                             \cup {createMove(t + back - dir, t, NORMAL) : t \in Caps(dir) \ Proms(dir)}
           EnPassant(dir) == {createMove(s, s + pawnPush(us) - dir, ENPASSANT) : s \in Passing(p, dir)}
           promMoves == (Singles(p) \cap rankBb[promotionRank(us)]) \cap T
<1>1. us \in Color
  BY PawnsAre
<1>2. PawnCaptures(p, T) =
        (UNION {OneSide(dir) \cup EnPassant(dir) : dir \in {WEST, EAST}})
          \cup (UNION {Promotions(t + back, t, {QUEEN, KNIGHT}) : t \in promMoves})
  BY DEF PawnCaptures, Takes, Passing, Singles
<1>3. ASSUME NEW dir \in {WEST, EAST}
      PROVE  m \in OneSide(dir) <=>
               /\ m.to \in Takes(p, dir) /\ m.from = m.to - (pawnPush(us) + dir) /\ m.to \in T
               /\ Plain(p, m) \/ Promotes(p, m, KNIGHT .. QUEEN)
  <2>1. \A t \in Takes(p, dir) : t \in Square /\ t + back - dir = t - (pawnPush(us) + dir)
    <3>1. \A t \in Takes(p, dir) : t \in Int /\ t \in Square
      BY TheirsAre DEF Takes, Square
    <3>2. \A t \in Int : t + back - dir = t - (pawnPush(us) + dir)
      BY <1>1, <1>3, DirectionsOfPawns
    <3> QED BY <3>1, <3>2
  <2>2. m \in OneSide(dir) <=>
          \/ \E t \in Proms(dir) : m \in Promotions(t + back - dir, t, KNIGHT .. QUEEN)
          \/ \E t \in Caps(dir) \ Proms(dir) : m = createMove(t + back - dir, t, NORMAL)
    OBVIOUS
  <2>3. (\E t \in Proms(dir) : m \in Promotions(t + back - dir, t, KNIGHT .. QUEEN)) <=>
          m.to \in Proms(dir) /\ m.from = m.to + back - dir /\ m.prom \in KNIGHT .. QUEEN
            /\ m = createPromotion(m.from, m.to, m.prom)
    <3> HIDE DEF back, Proms
    <3>1. \A t : m \in Promotions(t + back - dir, t, KNIGHT .. QUEEN) <=>
            m.from = t + back - dir /\ m.to = t /\ m.prom \in KNIGHT .. QUEEN /\ m = createPromotion(m.from, m.to, m.prom)
      <4>1. PICK pts : pts = KNIGHT .. QUEEN
        OBVIOUS
      <4>2. \A t : m \in Promotions(t + back - dir, t, pts) <=>
              m.from = t + back - dir /\ m.to = t /\ m.prom \in pts /\ m = createPromotion(m.from, m.to, m.prom)
        BY PromotionsAre
      <4> QED BY <4>1, <4>2
    <3> QED BY <3>1
  <2>4. (\E t \in Caps(dir) \ Proms(dir) : m = createMove(t + back - dir, t, NORMAL)) <=>
          m.to \in Caps(dir) \ Proms(dir) /\ m.from = m.to + back - dir /\ m = createMove(m.from, m.to, NORMAL)
    <3> HIDE DEF back, Proms, Caps
    <3>1. \A t : m = createMove(t + back - dir, t, NORMAL) <=>
            m.from = t + back - dir /\ m.to = t /\ m = createMove(m.from, m.to, NORMAL)
      BY MoveMade
    <3> QED BY <3>1
  <2>5. \A t : t \in Proms(dir) <=> t \in Takes(p, dir) /\ t \in T /\ rankOf(t) = promotionRank(us)
    BY <1>1, <2>1, RankIs
  <2>6. \A t : t \in Caps(dir) <=> t \in Takes(p, dir) /\ t \in T
    OBVIOUS
  <2> HIDE DEF back, Proms, Caps, OneSide
  <2> QED BY <2>1, <2>2, <2>3, <2>4, <2>5, <2>6 DEF Plain, Promotes
<1>4. (\E dir \in {WEST, EAST} : m \in EnPassant(dir)) <=>
        PassesTo(p, m.from, m.to) /\ m = createMove(m.from, m.to, ENPASSANT)
  <2>1. PassesTo(p, m.from, m.to) <=>
          \E dir \in {WEST, EAST} : m.from \in Passing(p, dir) /\ m.to = m.from + pawnPush(us) - dir
    BY PassingReach
  <2>2. ASSUME NEW dir \in {WEST, EAST}
        PROVE  m \in EnPassant(dir) <=> m.from \in Passing(p, dir) /\ m.to = m.from + pawnPush(us) - dir
                                          /\ m = createMove(m.from, m.to, ENPASSANT)
    <3> HIDE DEF us
    <3>1. \A s : m = createMove(s, s + pawnPush(us) - dir, ENPASSANT) <=>
            m.from = s /\ m.to = s + pawnPush(us) - dir /\ m = createMove(m.from, m.to, ENPASSANT)
      BY MoveMade
    <3> QED BY <3>1
  <2> HIDE DEF EnPassant, us
  <2> QED BY <2>1, <2>2
<1>5. (\E t \in promMoves : m \in Promotions(t + back, t, {QUEEN, KNIGHT})) <=>
        Steppers(p, m) /\ m.to \in T /\ Promotes(p, m, {QUEEN, KNIGHT})
  <2>1. \A t : t \in promMoves <=> t \in Singles(p) /\ t \in T /\ rankOf(t) = promotionRank(us)
    BY <1>1, RankIs, SinglesAre
  <2>2. \A t \in Singles(p) : t + back = t - pawnPush(us)
    <3>1. \A t \in Singles(p) : t \in Int
      BY SinglesAre DEF Square
    <3>2. \A t \in Int : t + back = t - pawnPush(us)
      <4>1. back = -pawnPush(us) /\ pawnPush(us) \in Int
        BY <1>1, Pushes
      <4> HIDE DEF back, us
      <4> QED BY <4>1
    <3> QED BY <3>1, <3>2
  <2> HIDE DEF promMoves, back
  <2>3. \A t : m \in Promotions(t + back, t, {QUEEN, KNIGHT}) <=>
            m.from = t + back /\ m.to = t /\ m.prom \in {QUEEN, KNIGHT} /\ m = createPromotion(m.from, m.to, m.prom)
    BY PromotionsAre
  <2> QED BY <2>1, <2>2, <2>3 DEF Steppers, Promotes
<1> HIDE DEF OneSide, EnPassant, promMoves, back
<1>6. m \in PawnCaptures(p, T) <=>
        \/ \E dir \in {WEST, EAST} : m \in OneSide(dir) \/ m \in EnPassant(dir)
        \/ \E t \in promMoves : m \in Promotions(t + back, t, {QUEEN, KNIGHT})
  BY <1>2
<1> QED BY <1>3, <1>4, <1>5, <1>6 DEF Takers

\* What it lists among the quiet moves.
LEMMA PawnPushesAre ==
  ASSUME NEW p, Good(p), NEW T, NEW m
  PROVE  m \in PawnPushes(p, T) <=>
           \/ Steppers(p, m) /\ m.to \in T /\ Promotes(p, m, {ROOK, BISHOP})
           \/ Jumpers(p, m) /\ m.to \in T /\ Plain(p, m)
           \/ Steppers(p, m) /\ m.to \in T /\ Plain(p, m)
<1> DEFINE us == p.nextPlayer
           back == pawnPush(Other(us))
           single == Singles(p)
           double == Doubles(p) \cap T
           promMoves == (single \cap T) \cap rankBb[promotionRank(us)]
<1>1. us \in Color
  BY PawnsAre
<1>2. PawnPushes(p, T) =
        (UNION {Promotions(t + back, t, {ROOK, BISHOP}) : t \in promMoves})
          \cup {createMove(t + 2 * back, t, NORMAL) : t \in double}
          \cup {createMove(t + back, t, NORMAL) : t \in (single \cap T) \ promMoves}
  BY DEF PawnPushes, Singles, Doubles
<1>3. \A t : t \in promMoves <=> t \in Singles(p) /\ t \in T /\ rankOf(t) = promotionRank(us)
  BY <1>1, RankIs, SinglesAre
<1>4. \A t \in Int : t + back = t - pawnPush(us) /\ t + 2 * back = (t - pawnPush(us)) - pawnPush(us)
  <2>1. back = -pawnPush(us) /\ pawnPush(us) \in Int
    BY <1>1, Pushes
  <2> HIDE DEF back, us
  <2> QED BY <2>1
<1>5. \A t \in Singles(p) : t + back = t - pawnPush(us)
  BY <1>4, SinglesAre DEF Square
<1>6. \A t \in Doubles(p) : t + 2 * back = (t - pawnPush(us)) - pawnPush(us) /\ rankOf(t) # promotionRank(us)
  BY <1>4, DoublesAre, DoublesLow DEF Square
<1> HIDE DEF back, promMoves
<1>7a. m \in PawnPushes(p, T) <=>
        \/ \E t \in promMoves : m \in Promotions(t + back, t, {ROOK, BISHOP})
        \/ \E t \in Doubles(p) : t \in T /\ m = createMove(t + 2 * back, t, NORMAL)
        \/ \E t \in Singles(p) : t \in T /\ t \notin promMoves /\ m = createMove(t + back, t, NORMAL)
  BY <1>2
<1>8. (\E t \in promMoves : m \in Promotions(t + back, t, {ROOK, BISHOP})) <=>
        Steppers(p, m) /\ m.to \in T /\ Promotes(p, m, {ROOK, BISHOP})
  <2>1. \A t : m \in Promotions(t + back, t, {ROOK, BISHOP}) <=>
            m.from = t + back /\ m.to = t /\ m.prom \in {ROOK, BISHOP} /\ m = createPromotion(m.from, m.to, m.prom)
    BY PromotionsAre
  <2> QED BY <1>3, <1>5, <2>1 DEF Steppers, Promotes
<1>9. (\E t \in Doubles(p) : t \in T /\ m = createMove(t + 2 * back, t, NORMAL)) <=>
        Jumpers(p, m) /\ m.to \in T /\ Plain(p, m)
  <2>1. \A t : m = createMove(t + 2 * back, t, NORMAL) <=>
            m.from = t + 2 * back /\ m.to = t /\ m = createMove(m.from, m.to, NORMAL)
    BY MoveMade
  <2> QED BY <1>6, <2>1 DEF Jumpers, Plain
<1>10. (\E t \in Singles(p) : t \in T /\ t \notin promMoves /\ m = createMove(t + back, t, NORMAL)) <=>
        Steppers(p, m) /\ m.to \in T /\ Plain(p, m)
  <2>1. \A t : m = createMove(t + back, t, NORMAL) <=>
            m.from = t + back /\ m.to = t /\ m = createMove(m.from, m.to, NORMAL)
    BY MoveMade
  <2> QED BY <1>3, <1>5, <2>1 DEF Steppers, Plain
<1> QED BY <1>7a, <1>8, <1>9, <1>10

\* Together they are the moves of a pawn.
LEMMA PawnMovesAre ==
  ASSUME NEW p, Good(p), NEW T, NEW m
  PROVE  m \in PawnCaptures(p, T) \cup PawnPushes(p, T) <=>
           /\ m \in RuleMoves(p) /\ p.board[m.from] = makePiece(p.nextPlayer, PAWN)
           /\ m.type = ENPASSANT \/ m.to \in T
<1>1. Takers(p, m) <=> PawnReaches(p, m.from, m.to) /\ m.to \in Theirs(p)
  BY TakesReach DEF Takers
<1>2. Steppers(p, m) \/ Jumpers(p, m) <=> PawnReaches(p, m.from, m.to) /\ p.board[m.to] = PIECE_NONE
  BY PushesReach DEF Steppers, Jumpers
<1>3. PawnReaches(p, m.from, m.to) => p.board[m.to] = PIECE_NONE \/ m.to \in Theirs(p)
  BY TakesReach
<1>4. Jumpers(p, m) => rankOf(m.to) # promotionRank(p.nextPlayer)
  BY DoublesLow DEF Jumpers
<1>5. m.prom \in KNIGHT .. QUEEN <=> m.prom \in {QUEEN, KNIGHT} \/ m.prom \in {ROOK, BISHOP}
  BY DEF KNIGHT, BISHOP, ROOK, QUEEN
<1>6. /\ m = createMove(m.from, m.to, NORMAL) => m.type # ENPASSANT
      /\ m = createPromotion(m.from, m.to, m.prom) => m.type # ENPASSANT
      /\ m = createMove(m.from, m.to, ENPASSANT) => m.type = ENPASSANT
  BY Types DEF createMove, createPromotion
<1>7a. m \in RuleMoves(p) /\ p.board[m.from] = makePiece(p.nextPlayer, PAWN) <=>
         \/ PawnReaches(p, m.from, m.to) /\ Plain(p, m)
         \/ PawnReaches(p, m.from, m.to) /\ Promotes(p, m, KNIGHT .. QUEEN)
         \/ PassesTo(p, m.from, m.to) /\ m = createMove(m.from, m.to, ENPASSANT)
  BY RulePawnMoves DEF Plain, Promotes
<1>8. \A pts : Promotes(p, m, pts) <=>
        m.prom \in pts /\ rankOf(m.to) = promotionRank(p.nextPlayer) /\ m = createPromotion(m.from, m.to, m.prom)
  BY DEF Promotes
<1>9. Plain(p, m) <=> rankOf(m.to) # promotionRank(p.nextPlayer) /\ m = createMove(m.from, m.to, NORMAL)
  BY DEF Plain
<1> QED BY <1>1, <1>2, <1>3, <1>4, <1>5, <1>6, <1>7a, <1>8, <1>9, PawnCapturesAre, PawnPushesAre

-----------------------------------------------------------------------------
(* The moves of the other pieces. *)

\* a move of a piece that is no pawn
Goes(p, pt, m) ==
    /\ m.from \in Square /\ p.board[m.from] = makePiece(p.nextPlayer, pt)
    /\ m.to \in Square /\ (m.to \in Theirs(p) \/ p.board[m.to] = PIECE_NONE)
    /\ m.to \in getAttacksBb(pt, m.from, getOccupiedBb(p))
    /\ m = createMove(m.from, m.to, NORMAL)

\* The squares a king attacks do not depend on the others.
LEMMA KingAttacksAre == \A s, occ : getAttacksBb(KING, s, occ) = kingAttacks[s]
BY DEF getAttacksBb, KING, KNIGHT, BISHOP, ROOK, QUEEN

\* The moves of the rules for a piece that is no pawn.
LEMMA RulePieceMoves ==
  ASSUME NEW p, Good(p), NEW m, NEW pt \in PieceType, pt # PAWN, p.board[m.from] = makePiece(p.nextPlayer, pt)
  PROVE  m \in RuleMoves(p) <=> Goes(p, pt, m)
<1> DEFINE us == p.nextPlayer
           occ == getOccupiedBb(p)
<1>1. us \in Color /\ Occupies(p.board, occ)
  BY PawnsAre, BitboardsAre DEF Occupies
<1>2. p.board[m.from] # makePiece(us, PAWN)
  BY <1>1, Kinds
<1>3. m \in RuleMoves(p) <=>
        /\ m.from \in R!Army(p.board, us) /\ m.to \in Square
        /\ m.type \in R!TypesOf(p.board, us, p.enPassantSquare, m.from, m.to)
        /\ \/ m.type # PROMOTION /\ m = createMove(m.from, m.to, m.type)
           \/ /\ m.type = PROMOTION /\ m.prom \in KNIGHT .. QUEEN
              /\ m = createPromotion(m.from, m.to, m.prom)
  BY BoardMoveIs DEF RuleMoves
<1>4. m.type \in R!TypesOf(p.board, us, p.enPassantSquare, m.from, m.to) <=>
        m.to \notin R!Army(p.board, us) /\ R!Attacks(p.board, m.from, m.to) /\ m.type = NORMAL
  BY <1>2, TypesAre
<1>5. NORMAL # PROMOTION /\ (m = createMove(m.from, m.to, NORMAL) => m.type = NORMAL)
  BY Types DEF createMove
<1>6. m.from \in R!Army(p.board, us) <=> m.from \in Square
  BY ArmiesAre
<1>7a. m \in RuleMoves(p) <=>
        /\ m.from \in Square /\ m.to \in Square /\ m.to \notin R!Army(p.board, us)
        /\ R!Attacks(p.board, m.from, m.to) /\ m = createMove(m.from, m.to, NORMAL)
  BY <1>3, <1>4, <1>5, <1>6
<1>8. m.to \in Square => (m.to \notin R!Army(p.board, us) <=> m.to \in Theirs(p) \/ p.board[m.to] = PIECE_NONE)
  <2>1. p.board[m.to] = PIECE_NONE => m.to \notin R!Army(p.board, us)
    BY <1>1, ArmiesAre, Kinds
  <2> QED BY <2>1, ArmiesAre
<1>9. ASSUME m.from \in Square, m.to \in Square
      PROVE  R!Attacks(p.board, m.from, m.to) <=> m.to \in getAttacksBb(pt, m.from, occ)
  <2>1. R!Attacks(p.board, m.from, m.to) <=> m.from \in Strikers(occ, us, pt, m.to)
    BY <1>1, <1>9, AttackIs
  <2>2. CASE pt = KING
    <3>1. Strikers(occ, us, pt, m.to) = kingAttacks[m.to] /\ getAttacksBb(pt, m.from, occ) = kingAttacks[m.from]
      BY <2>2, StrikersAre, KingAttacksAre
    <3> QED BY <1>9, <2>1, <3>1, AttacksBack
  <2>3. CASE pt # KING
    <3>1. m.from \in Strikers(occ, us, pt, m.to) <=> m.to \in getAttacksBb(pt, m.from, occ)
      BY <1>1, <1>9, <2>3, DirectIs
    <3> QED BY <2>1, <3>1
  <2> QED BY <2>2, <2>3
<1> QED BY <1>7a, <1>8, <1>9 DEF Goes

\* The squares a piece may go to in one of the two modes.
LEMMA DestinationsAre ==
  ASSUME NEW p, Good(p), NEW t
  PROVE  t \in Destinations(p, GenNonQuiet) \/ t \in Destinations(p, GenQuiet) <=>
           t \in Square /\ (t \in Theirs(p) \/ p.board[t] = PIECE_NONE)
<1>1. GenNonQuiet # GenQuiet
  BY DEF GenNonQuiet, GenQuiet
<1>2. /\ Destinations(p, GenNonQuiet) = Theirs(p)
      /\ Destinations(p, GenQuiet) = Square \ getOccupiedBb(p)
  BY <1>1 DEF Destinations
<1> QED BY <1>2, TheirsAre, PawnsAre

\* What the generator lists for knights, bishops, rooks and queens.
LEMMA PieceMovesAre ==
  ASSUME NEW p, Good(p), NEW T, NEW m
  PROVE  m \in generateMoves(p, GenNonQuiet, T) \/ m \in generateMoves(p, GenQuiet, T) <=>
           \E pt \in KNIGHT .. QUEEN : Goes(p, pt, m) /\ m.to \in T
<1> DEFINE us == p.nextPlayer
           occ == getOccupiedBb(p)
<1>1. us \in Color
  BY PawnsAre
<1>2. KNIGHT .. QUEEN \subseteq PieceType
  BY TypeSets
<1>3. \A pt \in PieceType : \A s : s \in p.piecesBb[us][pt] <=> s \in Square /\ p.board[s] = makePiece(us, pt)
  BY <1>1, BitboardsAre DEF Placed
<1>4. ASSUME NEW mode
      PROVE  m \in generateMoves(p, mode, T) <=>
               \E pt \in KNIGHT .. QUEEN :
                 /\ m.from \in p.piecesBb[us][pt] /\ m.to \in getAttacksBb(pt, m.from, occ)
                 /\ m.to \in Destinations(p, mode) /\ m.to \in T /\ m = createMove(m.from, m.to, NORMAL)
  <2>1. m \in generateMoves(p, mode, T) <=>
          \E pt \in KNIGHT .. QUEEN : \E s \in p.piecesBb[us][pt] :
            \E t \in getAttacksBb(pt, s, occ) \cap (Destinations(p, mode) \cap T) : m = createMove(s, t, NORMAL)
    BY DEF generateMoves
  <2>2. \A s, t : m = createMove(s, t, NORMAL) <=> m.from = s /\ m.to = t /\ m = createMove(m.from, m.to, NORMAL)
    BY MoveMade
  <2> HIDE DEF us, occ
  <2> QED BY <2>1, <2>2
<1>5. m \in generateMoves(p, GenNonQuiet, T) \/ m \in generateMoves(p, GenQuiet, T) <=>
        \E pt \in KNIGHT .. QUEEN :
                 /\ m.from \in p.piecesBb[us][pt] /\ m.to \in getAttacksBb(pt, m.from, occ)
                 /\ m.to \in Destinations(p, GenNonQuiet) \/ m.to \in Destinations(p, GenQuiet)
                 /\ m.to \in T /\ m = createMove(m.from, m.to, NORMAL)
  <2> HIDE DEF us, occ
  <2> QED BY <1>4
<1>6. \A pt \in KNIGHT .. QUEEN :
        Goes(p, pt, m) <=>
          /\ m.from \in p.piecesBb[us][pt] /\ m.to \in getAttacksBb(pt, m.from, occ)
          /\ m.to \in Destinations(p, GenNonQuiet) \/ m.to \in Destinations(p, GenQuiet)
          /\ m = createMove(m.from, m.to, NORMAL)
  BY <1>2, <1>3, DestinationsAre DEF Goes
<1> QED BY <1>5, <1>6

\* What it lists for the king; an evading king goes to no attacked square.
LEMMA KingMovesAre ==
  ASSUME NEW p, Good(p), NEW ev, NEW m
  PROVE  m \in generateKingMoves(p, GenNonQuiet, ev) \/ m \in generateKingMoves(p, GenQuiet, ev) <=>
           Goes(p, KING, m) /\ (ev => attacksTo(p, m.to, Other(p.nextPlayer)) = {})
<1> DEFINE us == p.nextPlayer
           k == p.kingSquare[us]
           from == CHOOSE s \in p.piecesBb[us][KING] : TRUE
           occ == getOccupiedBb(p)
<1>1. us \in Color /\ KING \in PieceType
  BY PawnsAre, Kinds
<1>2. k \in Square /\ \A s \in Square : p.board[s] = makePiece(us, KING) <=> s = k
  BY <1>1 DEF Good, KingsOK
<1>3. p.piecesBb[us][KING] = {k}
  <2>1. \A s : s \in p.piecesBb[us][KING] <=> s \in Square /\ p.board[s] = makePiece(us, KING)
    BY <1>1, BitboardsAre DEF Placed
  <2> HIDE DEF us, k
  <2> QED BY <1>2, <2>1
<1>4. from = k
  BY <1>3
<1>5. \A s : getAttacksBb(KING, s, occ) = kingAttacks[s]
  BY KingAttacksAre
<1>6. ASSUME NEW mode
      PROVE  m \in generateKingMoves(p, mode, ev) <=>
               /\ m.from = k /\ m.to \in kingAttacks[k] /\ m.to \in Destinations(p, mode)
               /\ ev => attacksTo(p, m.to, Other(us)) = {}
               /\ m = createMove(m.from, m.to, NORMAL)
  <2>1. m \in generateKingMoves(p, mode, ev) <=>
          \E t : /\ t \in kingAttacks[k] /\ t \in Destinations(p, mode)
                 /\ ev => attacksTo(p, t, Other(us)) = {}
                 /\ m = createMove(k, t, NORMAL)
    <3>1. generateKingMoves(p, mode, ev) =
            {createMove(k, t, NORMAL) : t \in {s \in kingAttacks[k] \cap Destinations(p, mode) :
                                                 ev => attacksTo(p, s, Other(us)) = {}}}
      BY <1>4 DEF generateKingMoves
    <3> HIDE DEF k, us
    <3> QED BY <3>1
  <2>2. \A s, t : m = createMove(s, t, NORMAL) <=> m.from = s /\ m.to = t /\ m = createMove(m.from, m.to, NORMAL)
    BY MoveMade
  <2> HIDE DEF us, k
  <2> QED BY <2>1, <2>2
<1>7a. Goes(p, KING, m) <=>
         /\ m.from = k /\ m.to \in kingAttacks[k] /\ m = createMove(m.from, m.to, NORMAL)
         /\ m.to \in Destinations(p, GenNonQuiet) \/ m.to \in Destinations(p, GenQuiet)
  <2>1. m.to \in Destinations(p, GenNonQuiet) \/ m.to \in Destinations(p, GenQuiet) <=>
           m.to \in Square /\ (m.to \in Theirs(p) \/ p.board[m.to] = PIECE_NONE)
    BY DestinationsAre
  <2>2. m.from \in Square /\ p.board[m.from] = makePiece(us, KING) <=> m.from = k
    BY <1>2
  <2> HIDE DEF us, k, occ
  <2>3. getAttacksBb(KING, m.from, getOccupiedBb(p)) = kingAttacks[m.from]
    BY <1>5 DEF occ
  <2> QED BY <2>1, <2>2, <2>3 DEF Goes, us
<1> HIDE DEF us, k
<1>8. m \in generateKingMoves(p, GenNonQuiet, ev) \/ m \in generateKingMoves(p, GenQuiet, ev) <=>
         /\ m.from = k /\ m.to \in kingAttacks[k]
         /\ m.to \in Destinations(p, GenNonQuiet) \/ m.to \in Destinations(p, GenQuiet)
         /\ ev => attacksTo(p, m.to, Other(us)) = {}
         /\ m = createMove(m.from, m.to, NORMAL)
  BY <1>6
<1> QED BY <1>7a, <1>8 DEF us

-----------------------------------------------------------------------------
\* Where an evasion may go: the king to a square that is not attacked, the others
\* to a target, but a pawn that captures en passant anywhere.
Evades(p, m) ==
    IF p.board[m.from] = makePiece(p.nextPlayer, KING) THEN attacksTo(p, m.to, Other(p.nextPlayer)) = {}
    ELSE m.type = ENPASSANT \/ m.to \in getEvasionTargets(p)

\* The pseudo legal moves are the moves of the rules, those that evade if so

\* asked, and castling.
LEMMA PseudoAre ==
  ASSUME NEW p, Good(p), NEW ev \in BOOLEAN, NEW m
  PROVE  m \in generatePseudoLegalMoves(p, GenAll, ev) <=>
           \/ m \in RuleMoves(p) /\ (ev => Evades(p, m))
           \/ ~ev /\ m \in generateCastling(p)
<1> DEFINE us == p.nextPlayer
           T == Targets(p, ev)
           piece(pt) == p.board[m.from] = makePiece(us, pt)
<1>1. m \in generatePseudoLegalMoves(p, GenAll, ev) <=>
        \/ m \in PawnCaptures(p, T) \cup PawnPushes(p, T)
        \/ m \in generateMoves(p, GenNonQuiet, T) \/ m \in generateMoves(p, GenQuiet, T)
        \/ m \in generateKingMoves(p, GenNonQuiet, ev) \/ m \in generateKingMoves(p, GenQuiet, ev)
        \/ ~ev /\ m \in generateCastling(p)
  <2>1. GenNonQuiet # GenQuiet
    BY DEF GenNonQuiet, GenQuiet
  <2>2. /\ generatePawnMoves(p, GenNonQuiet, T) = PawnCaptures(p, T)
        /\ generatePawnMoves(p, GenQuiet, T) = PawnPushes(p, T)
    BY <2>1 DEF generatePawnMoves
  <2>3. generatePseudoLegalMoves(p, GenAll, ev) =
          (generatePawnMoves(p, GenNonQuiet, T) \cup generateMoves(p, GenNonQuiet, T)
             \cup generateKingMoves(p, GenNonQuiet, ev))
          \cup (generatePawnMoves(p, GenQuiet, T) \cup generateMoves(p, GenQuiet, T)
             \cup generateKingMoves(p, GenQuiet, ev))
          \cup (IF ~ev THEN generateCastling(p) ELSE {})
    BY DEF generatePseudoLegalMoves, GenAll
  <2> HIDE DEF T
  <2> QED BY <2>2, <2>3
<1>2. m \in PawnCaptures(p, T) \cup PawnPushes(p, T) <=>
        m \in RuleMoves(p) /\ piece(PAWN) /\ (m.type = ENPASSANT \/ m.to \in T)
  BY PawnMovesAre
<1>3. m \in generateMoves(p, GenNonQuiet, T) \/ m \in generateMoves(p, GenQuiet, T) <=>
        \E pt \in KNIGHT .. QUEEN : Goes(p, pt, m) /\ m.to \in T
  BY PieceMovesAre
<1>4. m \in generateKingMoves(p, GenNonQuiet, ev) \/ m \in generateKingMoves(p, GenQuiet, ev) <=>
           Goes(p, KING, m) /\ (ev => attacksTo(p, m.to, Other(us)) = {})
  BY KingMovesAre
<1>5. \A pt : Goes(p, pt, m) => piece(pt) /\ m.type = NORMAL
  BY DEF Goes, createMove
<1>6. \A pt \in PieceType : pt # PAWN => (Goes(p, pt, m) <=> m \in RuleMoves(p) /\ piece(pt))
  BY <1>5, RulePieceMoves
<1>7a. us \in Color /\ \A s, t \in PieceType : piece(s) /\ piece(t) => s = t
  BY PawnsAre, Kinds
<1>8. m \in RuleMoves(p) =>
        /\ \E pt \in PieceType : piece(pt)
        /\ m.type = ENPASSANT => piece(PAWN)
        /\ m.to \in Square
  BY RulesMove DEF RuleMoves
<1>9. /\ PieceType = {KING, PAWN} \cup (KNIGHT .. QUEEN)
      /\ KING # PAWN /\ KING \notin KNIGHT .. QUEEN /\ PAWN \notin KNIGHT .. QUEEN
  BY DEF PieceType, KING, PAWN, KNIGHT, QUEEN
<1>10. T = IF ev THEN getEvasionTargets(p) ELSE Square
  BY DEF Targets
<1> HIDE DEF T, piece
<1>11. CASE m \in RuleMoves(p)
  <2>1. PICK pt \in PieceType : piece(pt)
    BY <1>8, <1>11
  <2>2. piece(KING) <=> pt = KING
    BY <1>7a, <1>9, <2>1
  <2>3. Evades(p, m) <=> IF pt = KING THEN attacksTo(p, m.to, Other(us)) = {}
                         ELSE m.type = ENPASSANT \/ m.to \in getEvasionTargets(p)
    BY <2>2 DEF Evades, piece
  <2>4. CASE pt = PAWN
    <3>1. \A q \in KNIGHT .. QUEEN : ~Goes(p, q, m)
      BY <1>5, <1>7a, <1>9, <2>1, <2>4
    <3>2. ~Goes(p, KING, m)
      BY <1>5, <1>7a, <1>9, <2>1, <2>4
    <3> QED BY <1>1, <1>2, <1>3, <1>4, <1>8, <1>9, <1>10, <1>11, <2>1, <2>3, <2>4, <3>1, <3>2
  <2>5. CASE pt = KING
    <3>1. \A q \in KNIGHT .. QUEEN : ~Goes(p, q, m)
      BY <1>5, <1>7a, <1>9, <2>1, <2>5
    <3>2. Goes(p, KING, m) /\ ~piece(PAWN)
      BY <1>6, <1>7a, <1>9, <1>11, <2>1, <2>5
    <3> QED BY <1>1, <1>2, <1>3, <1>4, <1>11, <2>3, <2>5, <3>1, <3>2
  <2>6. CASE pt \in KNIGHT .. QUEEN
    <3>1. Goes(p, pt, m) /\ ~piece(PAWN) /\ pt # KING
      BY <1>6, <1>7a, <1>9, <1>11, <2>1, <2>6
    <3>2. ~Goes(p, KING, m) /\ m.type # ENPASSANT
      BY <1>5, <1>7a, <1>8, <1>9, <1>11, <2>1, <2>6, <3>1
    <3>3. (\E q \in KNIGHT .. QUEEN : Goes(p, q, m) /\ m.to \in T) <=> m.to \in T
      BY <2>6, <3>1
    <3> QED BY <1>1, <1>2, <1>3, <1>4, <1>8, <1>10, <1>11, <2>3, <3>1, <3>2, <3>3
  <2> QED BY <1>9, <2>4, <2>5, <2>6
<1>12. CASE m \notin RuleMoves(p)
  <2>1. \A q \in KNIGHT .. QUEEN : ~Goes(p, q, m)
    BY <1>6, <1>9, <1>12
  <2>2. ~Goes(p, KING, m)
    BY <1>6, <1>9, <1>12
  <2> QED BY <1>1, <1>2, <1>3, <1>4, <1>12, <2>1, <2>2
<1> QED BY <1>11, <1>12

-----------------------------------------------------------------------------

\* Two squares are on one line at most.
LEMMA OneLine ==
  ASSUME NEW d \in Directions, NEW e \in Directions, NEW s \in Square, NEW n \in 1 .. 7, NEW k \in 1 .. 7,
         Free(d, s, n), Free(e, s, k), s + n * d = s + k * e
  PROVE  d = e /\ n = k
<1>1. n = k
  <2>1. distance(s + n * d, s) = n /\ distance(s + k * e, s) = k
    BY LineIs DEF OfLine
  <2> QED BY <2>1
<1>2. d \in Int /\ e \in Int /\ s \in Int
  BY DirectionsAre DEF Square
<1>3. n * d = n * e
  <2>1. n * d \in Int /\ n * e \in Int
    BY <1>2
  <2>2. n * e = k * e
    BY <1>1
  <2> QED BY <1>2, <2>1, <2>2
<1>4. d = e
  <2>1. n \in {1, 2, 3, 4, 5, 6, 7}
    OBVIOUS
  <2>2. CASE n = 1 BY <1>2, <1>3, <2>2
  <2>3. CASE n = 2 BY <1>2, <1>3, <2>3
  <2>4. CASE n = 3 BY <1>2, <1>3, <2>4
  <2>5. CASE n = 4 BY <1>2, <1>3, <2>5
  <2>6. CASE n = 5 BY <1>2, <1>3, <2>6
  <2>7. CASE n = 6 BY <1>2, <1>3, <2>7
  <2>8. CASE n = 7 BY <1>2, <1>3, <2>8
  <2> QED BY <2>1, <2>2, <2>3, <2>4, <2>5, <2>6, <2>7, <2>8
<1> QED BY <1>1, <1>4

\* intermediateBb holds the squares strictly between the two ends of a line.
LEMMA IntermediateIs ==
  ASSUME NEW d \in Directions, NEW s \in Square, NEW n \in 1 .. 7, Free(d, s, n), NEW x
  PROVE  x \in intermediateBb[s][s + n * d] <=> \E i \in 1 .. n - 1 : x = s + i * d
<1> DEFINE t == s + n * d
<1>1. t \in Square
  BY LineIs DEF OfLine
<1>2. ASSUME NEW i \in 1 .. n - 1, x = s + i * d PROVE x \in intermediateBb[s][s + n * d]
  BY <1>2, Passed
<1>3. ASSUME x \in intermediateBb[s][t] PROVE \E i \in 1 .. n - 1 : x = s + i * d
  <2>1. rays = [e \in Directions |-> [z \in Square |-> Ray(e, z, {})]]
    BY DEF rays, Directions
  <2> HIDE DEF t
  <2>2. intermediateBb[s][t] =
         UNION {rays[e][s] \ (rays[e][t] \cup {t}) : e \in {f \in DOMAIN rays : t \in rays[f][s]}}
    BY <1>1 DEF intermediateBb
  <2>3. PICK e \in Directions : t \in Ray(e, s, {}) /\ x \in Ray(e, s, {}) /\ x \notin Ray(e, t, {}) /\ x # t
    BY <1>1, <1>3, <2>1, <2>2
  <2>4. PICK k \in 1 .. 7 : t = s + k * e /\ Free(e, s, k)
    BY <2>3, RayIs
  <2>5. PICK i \in 1 .. 7 : x = s + i * e /\ Free(e, s, i)
    BY <2>3, RayIs
  <2>6. e = d /\ k = n
    <3>1. s + n * d = s + k * e
      BY <2>4 DEF t
    <3> QED BY <2>4, <3>1, OneLine
  <2>7. x = s + i * d /\ Free(d, s, i)
    BY <2>5, <2>6
  <2>8. i # n
    BY <2>3, <2>7 DEF t
  <2>9. ~(n < i)
    <3>1. SUFFICES ASSUME n < i PROVE FALSE
      OBVIOUS
    <3>2. n \in 1 .. i - 1
      BY <3>1
    <3>3. /\ t \in Square /\ i - n \in 1 .. 7 /\ Free(d, t, i - n)
          /\ \A j \in 1 .. i - n : t + j * d = s + (n + j) * d
      BY <2>7, <3>2, SubLine DEF t
    <3>4. i - n \in 1 .. i - n /\ n + (i - n) = i
      BY <3>1
    <3>5. t + (i - n) * d = x
      BY <2>7, <3>3, <3>4
    <3>6. x \in Ray(d, t, {})
      BY <3>3, <3>5, RayIs
    <3> QED BY <2>3, <2>6, <3>6
  <2>10. i \in 1 .. n - 1
    BY <2>8, <2>9
  <2> QED BY <2>7, <2>10
<1> QED BY <1>2, <1>3

\* Between the king and the corner are the squares that must be empty to castle.
LEMMA CastlingWay ==
  ASSUME NEW king \in {4, 60}, NEW x
  PROVE  /\ x \in intermediateBb[king][king + 3] <=> x \in {king + 1, king + 2}
         /\ x \in intermediateBb[king][king - 4] <=> x \in {king - 1, king - 2, king - 3}
<1>1. 1 \in Directions /\ -1 \in Directions /\ king \in Square /\ Free(1, king, 3) /\ Free(-1, king, 4)
  BY Sideways
<1>2. x \in intermediateBb[king][king + 3] <=> x \in {king + 1, king + 2}
  <2>1. x \in intermediateBb[king][king + 3 * 1] <=> \E i \in 1 .. 3 - 1 : x = king + i * 1
    BY <1>1, IntermediateIs
  <2>2. king + 3 * 1 = king + 3 /\ king + 1 * 1 = king + 1 /\ king + 2 * 1 = king + 2
    OBVIOUS
  <2>3. \A i : i \in 1 .. 3 - 1 <=> i \in {1, 2}
    OBVIOUS
  <2> QED BY <2>1, <2>2, <2>3
<1>3. x \in intermediateBb[king][king - 4] <=> x \in {king - 1, king - 2, king - 3}
  <2>1. x \in intermediateBb[king][king + 4 * (-1)] <=> \E i \in 1 .. 4 - 1 : x = king + i * (-1)
    BY <1>1, IntermediateIs
  <2>2. king + 4 * (-1) = king - 4 /\ king + 1 * (-1) = king - 1 /\ king + 2 * (-1) = king - 2
        /\ king + 3 * (-1) = king - 3
    OBVIOUS
  <2>3. \A i : i \in 1 .. 4 - 1 <=> i \in {1, 2, 3}
    OBVIOUS
  <2> QED BY <2>1, <2>2, <2>3
<1> QED BY <1>2, <1>3

-----------------------------------------------------------------------------
\* the right to castle to the side e
CastlingRight(p, e) == IF e = 1 THEN OO(p.nextPlayer) ELSE OOO(p.nextPlayer)

\* The generator castles with a right and an empty way; the right says where the

\* king and the rook stand.
LEMMA CastlingAre ==
  ASSUME NEW p, Good(p), NEW m
  PROVE  m \in generateCastling(p) <=>
           \E king, e : /\ AtHome(p, king, e) /\ CastlingRight(p, e) \in p.castlingRights
                        /\ m = createMove(king, king + 2 * e, CASTLING)
<1> DEFINE us == p.nextPlayer
           king == IF us = WHITE THEN 4 ELSE 60
           occ == getOccupiedBb(p)
<1>1. us \in Color /\ king \in {4, 60}
  BY PawnsAre
<1>2. king = Home(us) /\ king + 3 * EAST = king + 3 /\ king + 4 * WEST = king - 4
      /\ king + 2 * EAST = king + 2 /\ king + 2 * WEST = king - 2
  BY <1>1 DEF Home, E1, E8, EAST, WEST
<1>3. m \in generateCastling(p) <=>
        \/ /\ OO(us) \in p.castlingRights /\ intermediateBb[king][king + 3] \cap occ = {}
           /\ m = createMove(king, king + 2, CASTLING)
        \/ /\ OOO(us) \in p.castlingRights /\ intermediateBb[king][king - 4] \cap occ = {}
           /\ m = createMove(king, king - 2, CASTLING)
  BY <1>2 DEF generateCastling, E1, E8
<1>4. /\ OO(us) \in p.castlingRights => HomeKept(p, us, king + 3)
      /\ OOO(us) \in p.castlingRights => HomeKept(p, us, king - 4)
  BY <1>1, <1>2, RightsAre DEF Good
<1>5. \A c : HomeKept(p, us, c) <=> p.board[king] = makePiece(us, KING) /\ p.board[c] = makePiece(us, ROOK)
  BY <1>2 DEF HomeKept
<1>6. /\ intermediateBb[king][king + 3] \cap occ = {} <=> king + 1 \notin occ /\ king + 2 \notin occ
      /\ intermediateBb[king][king - 4] \cap occ = {} <=>
           king - 1 \notin occ /\ king - 2 \notin occ /\ king - 3 \notin occ
  BY <1>1, CastlingWay
<1>7a. \A s \in {king + 1, king + 2, king - 1, king - 2, king - 3} : s \notin occ <=> p.board[s] = PIECE_NONE
  <2>1. \A s \in {king + 1, king + 2, king - 1, king - 2, king - 3} : s \in Square
    BY <1>1 DEF Square
  <2> QED BY <2>1, PawnsAre
<1>8. /\ king + 2 * 1 = king + 2 /\ king + 2 * (-1) = king - 2 /\ king + 3 * (-1) = king - 3
      /\ king + (-1) = king - 1
  BY <1>1
<1>9. /\ Corner(king, 1) = king + 3 /\ Corner(king, -1) = king - 4
      /\ CastlingRight(p, 1) = OO(us) /\ CastlingRight(p, -1) = OOO(us)
  BY DEF Corner, CastlingRight
<1>10. \A k, e : AtHome(p, k, e) => k = king /\ e \in {1, -1}
  BY DEF AtHome
<1>11. AtHome(p, king, 1) <=>
         /\ p.board[king] = makePiece(us, KING) /\ p.board[king + 3] = makePiece(us, ROOK)
         /\ p.board[king + 1] = PIECE_NONE /\ p.board[king + 2] = PIECE_NONE
  <2> HIDE DEF king
  <2>1. king = (IF us = WHITE THEN 4 ELSE 60)
    BY DEF king
  <2> QED BY <1>8, <1>9, <2>1 DEF AtHome
<1>12. AtHome(p, king, -1) <=>
         /\ p.board[king] = makePiece(us, KING) /\ p.board[king - 4] = makePiece(us, ROOK)
         /\ p.board[king - 1] = PIECE_NONE /\ p.board[king - 2] = PIECE_NONE /\ p.board[king - 3] = PIECE_NONE
  <2> HIDE DEF king
  <2>1. king = (IF us = WHITE THEN 4 ELSE 60)
    BY DEF king
  <2> QED BY <1>8, <1>9, <2>1 DEF AtHome
<1> HIDE DEF king, us, occ
<1>13. (\E k, e : AtHome(p, k, e) /\ CastlingRight(p, e) \in p.castlingRights /\ m = createMove(k, k + 2 * e, CASTLING))
         <=> \/ AtHome(p, king, 1) /\ OO(us) \in p.castlingRights /\ m = createMove(king, king + 2, CASTLING)
             \/ AtHome(p, king, -1) /\ OOO(us) \in p.castlingRights /\ m = createMove(king, king - 2, CASTLING)
  <2>1. ASSUME NEW k, NEW e, AtHome(p, k, e), CastlingRight(p, e) \in p.castlingRights, m = createMove(k, k + 2 * e, CASTLING)
        PROVE  \/ AtHome(p, king, 1) /\ OO(us) \in p.castlingRights /\ m = createMove(king, king + 2, CASTLING)
               \/ AtHome(p, king, -1) /\ OOO(us) \in p.castlingRights /\ m = createMove(king, king - 2, CASTLING)
    <3>1. k = king /\ (e = 1 \/ e = -1)
      BY <1>10, <2>1
    <3>2. CASE e = 1 BY <1>8, <1>9, <2>1, <3>1, <3>2
    <3>3. CASE e = -1 BY <1>8, <1>9, <2>1, <3>1, <3>3
    <3> QED BY <3>1, <3>2, <3>3
  <2>2. ASSUME AtHome(p, king, 1), OO(us) \in p.castlingRights, m = createMove(king, king + 2, CASTLING)
        PROVE  \E k, e : AtHome(p, k, e) /\ CastlingRight(p, e) \in p.castlingRights /\ m = createMove(k, k + 2 * e, CASTLING)
    <3>1. AtHome(p, king, 1) /\ CastlingRight(p, 1) \in p.castlingRights /\ m = createMove(king, king + 2 * 1, CASTLING)
      BY <1>8, <1>9, <2>2
    <3> QED BY <3>1
  <2>3. ASSUME AtHome(p, king, -1), OOO(us) \in p.castlingRights, m = createMove(king, king - 2, CASTLING)
        PROVE  \E k, e : AtHome(p, k, e) /\ CastlingRight(p, e) \in p.castlingRights /\ m = createMove(k, k + 2 * e, CASTLING)
    <3>1. AtHome(p, king, -1) /\ CastlingRight(p, -1) \in p.castlingRights /\ m = createMove(king, king + 2 * (-1), CASTLING)
      BY <1>8, <1>9, <2>3
    <3> QED BY <3>1
  <2> QED BY <2>1, <2>2, <2>3
<1>14. /\ OO(us) \in p.castlingRights /\ intermediateBb[king][king + 3] \cap occ = {} <=>
            AtHome(p, king, 1) /\ OO(us) \in p.castlingRights
       /\ OOO(us) \in p.castlingRights /\ intermediateBb[king][king - 4] \cap occ = {} <=>
            AtHome(p, king, -1) /\ OOO(us) \in p.castlingRights
  BY <1>4, <1>5, <1>6, <1>7a, <1>11, <1>12
<1> QED BY <1>3, <1>13, <1>14

-----------------------------------------------------------------------------
\* The pawns that may capture the pawn on t en passant.
Passers(p, t, c) ==
    IF p.enPassantSquare # SQ_NONE /\ t = p.enPassantSquare + pawnPush(Other(c))
    THEN neighbourFilesMask[t] \cap rankBb[rankOf(t)] \cap p.piecesBb[c][PAWN]
    ELSE {}

\* attacksTo finds the attackers of the rules, and pawns that may pass.
LEMMA AttacksToAre ==
  ASSUME NEW p, Good(p), NEW t \in Square, NEW c \in Color
  PROVE  attacksTo(p, t, c) = R!Attackers(p.board, t, c) \cup Passers(p, t, c)
<1> DEFINE pieces == p.piecesBb[c]
           occ == getOccupiedBb(p)
           plain == (pawnAttacks[Other(c)][t] \cap pieces[PAWN])
                      \cup (knightAttacks[t] \cap pieces[KNIGHT])
                      \cup (kingAttacks[t] \cap pieces[KING])
                      \cup (rookAttacks(t, occ) \cap (pieces[ROOK] \cup pieces[QUEEN]))
                      \cup (bishopAttacks(t, occ) \cap (pieces[BISHOP] \cup pieces[QUEEN]))
<1>1. attacksTo(p, t, c) = plain \cup Passers(p, t, c)
  <2>1. attacksTo(p, t, c) = Passers(p, t, c)
          \cup (pawnAttacks[Other(c)][t] \cap pieces[PAWN])
          \cup (knightAttacks[t] \cap pieces[KNIGHT])
          \cup (kingAttacks[t] \cap pieces[KING])
          \cup (rookAttacks(t, occ) \cap (pieces[ROOK] \cup pieces[QUEEN]))
          \cup (bishopAttacks(t, occ) \cap (pieces[BISHOP] \cup pieces[QUEEN]))
    BY Zenon DEF attacksTo, Passers
  <2> HIDE DEF pieces, occ
  <2> QED BY <2>1
<1>2. \A s : s \in R!Attackers(p.board, t, c) <=>
               \E pt \in PieceType : s \in pieces[pt] \cap Strikers(occ, c, pt, t)
  BY AttackersAre
<1>3. PieceType = {KING, PAWN, KNIGHT, BISHOP, ROOK, QUEEN}
  BY DEF PieceType, KING, PAWN, KNIGHT, BISHOP, ROOK, QUEEN
<1> HIDE DEF pieces, occ
<1>4. \A s : (\E pt \in PieceType : s \in pieces[pt] \cap Strikers(occ, c, pt, t)) <=> s \in plain
  BY <1>3, StrikersAre
<1>5. R!Attackers(p.board, t, c) = plain
  BY <1>2, <1>4
<1> QED BY <1>1, <1>5

-----------------------------------------------------------------------------
\* A move is legal if the castling path is not attacked and the king is not left

\* in check; isLegalMove looks at the path before the move, wasLegalMove after it.
LEMMA LegalityIs ==
  ASSUME NEW p, Good(p), NEW m, MoveShape(p, m), NEW q, q = doMove(p, m), Good(q)
  PROVE  LET us == p.nextPlayer IN
         /\ q.nextPlayer = Other(us)
         /\ isLegalMove(p, m) <=> ~CastlingPathAttacked(p, m, Other(us)) /\ ~R!Checked(q.board, us)
         /\ wasLegalMove(q) <=> ~CastlingPathAttacked(q, m, Other(us)) /\ ~R!Checked(q.board, us)
<1> DEFINE us == p.nextPlayer
<1>1. us \in Color /\ Other(us) \in Color /\ Other(Other(us)) = us
  BY PawnsAre, OtherColor
<1>2. Turned(p, m, q)
  BY GoodReady, DoLinks
<1>3. q.nextPlayer = Other(us) /\ q.historyState = Append(p.historyState, Record(p, m))
  BY <1>2 DEF Turned
<1>4. IsHistory(p.historyState)
  BY DEF Good
<1>5. Last(q.historyState) = Record(p, m) /\ q.historyState # <<>>
  <2>1. Len(q.historyState) = Len(p.historyState) + 1 /\ Len(p.historyState) \in Nat
        /\ Last(q.historyState) = Record(p, m)
    BY <1>3, <1>4, AppendFacts
  <2>2. Len(<<>>) = 0
    OBVIOUS
  <2> QED BY <2>1, <2>2
<1>6. Last(q.historyState).move = m
  BY <1>5, Entries
<1>7a. KingCapturable(q) <=> R!Checked(q.board, us)
  <2>1. KingCapturable(q) <=> isAttacked(q, q.kingSquare[us], Other(us))
    BY <1>1, <1>3 DEF KingCapturable
  <2> QED BY <1>1, <2>1, KingChecked
<1>8. isLegalMove(p, m) <=> ~CastlingPathAttacked(p, m, Other(us)) /\ ~KingCapturable(q)
  BY DEF isLegalMove
<1>9. wasLegalMove(q) <=> ~KingCapturable(q) /\ ~CastlingPathAttacked(q, m, Other(us))
  BY <1>3, <1>5, <1>6 DEF wasLegalMove
<1> QED BY <1>3, <1>7a, <1>8, <1>9

\* The board after a move of the rules.
LEMMA BoardAfter ==
  ASSUME NEW p, Good(p), ~KingCapturable(p), NEW m \in RuleMoves(p)
  PROVE  LET q == doMove(p, m) IN
         MoveShape(p, m) /\ Good(q) /\ q.board = R!After(p.board, p.nextPlayer, m) /\ m.type # CASTLING
<1> DEFINE us == p.nextPlayer
           q == doMove(p, m)
           there == R!After(p.board, us, m)
<1>1. us \in Color
  BY PawnsAre
<1>2. m \in generatePseudoLegalMoves(p, GenAll, FALSE)
  BY PseudoAre
<1>3. MoveShape(p, m) /\ Good(q)
  BY <1>2, MoveStaysGood
<1>4. Linked(p, m, q)
  BY <1>3, GoodReady, DoLinks
<1>5. m \in R!BoardMoves(p.board, us, p.enPassantSquare)
  BY DEF RuleMoves
<1>6. /\ m.from \in Square /\ m.to \in Square /\ m.from # m.to /\ m.type \in {NORMAL, PROMOTION, ENPASSANT}
      /\ m.type \in {PROMOTION, ENPASSANT} => p.board[m.from] = makePiece(us, PAWN)
  BY <1>5, RulesMove
<1>7a. /\ Placement(there)
       /\ \A s \in Square : there[s] = IF s = m.to THEN Dropped(p, m)
                                       ELSE IF s \in {m.from} \cup Gone(p, m) THEN PIECE_NONE
                                       ELSE p.board[s]
       /\ m.to \notin Gone(p, m)
  BY <1>5, AfterIs
<1>8. Placement(q.board) /\ Placement(p.board)
  BY <1>3 DEF Good, BoardOK, Placement
<1>9. \A s \in Square : q.board[s] = there[s]
  <2> HIDE DEF q, there
  <2>1. CASE m.type = NORMAL
    <3>1. PICK t \in PieceType : p.board[m.from] = makePiece(us, t) /\ IsNormal(p, m, q, t)
      BY <1>4, <2>1, Types DEF Linked
    <3>2. q.board = [p.board EXCEPT ![m.from] = PIECE_NONE, ![m.to] = makePiece(us, t)]
      BY <3>1 DEF IsNormal
    <3>3. Dropped(p, m) = makePiece(us, t) /\ Gone(p, m) = {}
      BY <2>1, <3>1, Types DEF Dropped, Gone
    <3> QED BY <1>6, <1>7a, <1>8, <3>2, <3>3 DEF Placement
  <2>2. CASE m.type = PROMOTION
    <3>1. IsPromotion(p, m, q)
      BY <1>4, <2>2, Types DEF Linked
    <3>2. q.board = [p.board EXCEPT ![m.from] = PIECE_NONE, ![m.to] = makePiece(us, m.prom)]
      BY <3>1 DEF IsPromotion
    <3>3. Dropped(p, m) = makePiece(us, m.prom) /\ Gone(p, m) = {}
      BY <2>2, Types DEF Dropped, Gone
    <3> QED BY <1>6, <1>7a, <1>8, <3>2, <3>3 DEF Placement
  <2>3. CASE m.type = ENPASSANT
    <3>1. IsEnPassant(p, m, q)
      BY <1>4, <2>3, Types DEF Linked
    <3>2. q.board = [p.board EXCEPT ![CapSq(p, m)] = PIECE_NONE, ![m.from] = PIECE_NONE,
                                    ![m.to] = makePiece(us, PAWN)]
      BY <3>1 DEF IsEnPassant, CapSq, Behind
    <3>3. Dropped(p, m) = makePiece(us, PAWN) /\ Gone(p, m) = {CapSq(p, m)}
      BY <1>6, <2>3, Types DEF Dropped, Gone
    <3>4. CapSq(p, m) \in Square
      BY <1>5, <2>3, EnPassantTaken
    <3> QED BY <1>6, <1>7a, <1>8, <3>2, <3>3, <3>4 DEF Placement
  <2> QED BY <1>6, <2>1, <2>2, <2>3
<1>10. q.board = there
  BY <1>7a, <1>8, <1>9 DEF Placement
<1>11. m.type # CASTLING
  BY <1>6, Types
<1> QED BY <1>3, <1>10, <1>11

\* Of a move that is not castling both say what the rules say.
LEMMA BoardMoveLegal ==
  ASSUME NEW p, Good(p), ~KingCapturable(p), NEW m \in RuleMoves(p)
  PROVE  LET lawful == ~R!Checked(R!After(p.board, p.nextPlayer, m), p.nextPlayer) IN
         /\ isLegalMove(p, m) <=> lawful
         /\ wasLegalMove(doMove(p, m)) <=> lawful
<1> DEFINE q == doMove(p, m)
<1>1. MoveShape(p, m) /\ Good(q) /\ q.board = R!After(p.board, p.nextPlayer, m) /\ m.type # CASTLING
  BY BoardAfter
<1>2. \A r, c : ~CastlingPathAttacked(r, m, c)
  BY <1>1 DEF CastlingPathAttacked
<1>3. PICK r : r = doMove(p, m)
  OBVIOUS
<1>4. /\ isLegalMove(p, m) <=> ~R!Checked(r.board, p.nextPlayer)
      /\ wasLegalMove(r) <=> ~R!Checked(r.board, p.nextPlayer)
  BY <1>1, <1>2, <1>3, LegalityIs
<1> QED BY <1>1, <1>3, <1>4

-----------------------------------------------------------------------------
(* Castling: what attacks the path before the move and after it. *)

\* Lines along the first rank from a square of the path.
LEMMA PathLines ==
  ASSUME NEW king \in {4, 60}, NEW e \in {1, -1}, NEW a \in 0 .. 2, NEW d \in {1, -1},
         NEW n \in 1 .. 7, Free(d, king + a * e, n), king + a * e \in Square, NEW i \in 1 .. n - 1
  PROVE  LET t == king + a * e IN
         /\ d = e => t + n * d \in {king + 2 * e, king + 3 * e, Corner(king, e)}
         /\ d = e => t + i * d # king
         /\ d = -e /\ t + i * d \in {king + e, king + 2 * e} =>
              t + n * d = king \/ (2 \in 1 .. n - 1 /\ t + 2 * d = king)
         /\ d = -e /\ t + i * d = king =>
              (a = 1 /\ i = 1) \/ (1 \in 1 .. n - 1 /\ t + 1 * d = king + e)
<1> DEFINE t == king + a * e
<1>1. d \in Directions /\ n \in 0 .. 7 /\ n \in 0 .. n
  BY DirectionsAre
<1>2. fileOf(t + n * d) = fileOf(t) + n * Run(d) /\ t + n * d \in Square
  BY <1>1, Line
<1>3. fileOf(t + n * d) \in 0 .. 7
  BY <1>2, Coordinates
<1>4. a \in {0, 1, 2}
  OBVIOUS
<1>5. n \in Int /\ i \in Int /\ 1 <= i /\ i < n
  OBVIOUS
<1>6. CASE e = 1
  <2>1. fileOf(t) = 4 + a /\ t = king + a
    <3>1. t = king + a
      BY <1>4, <1>6
    <3>2. CASE king = 4 BY <1>4, <3>1, <3>2 DEF fileOf
    <3>3. CASE king = 60 BY <1>4, <3>1, <3>3 DEF fileOf
    <3> QED BY <3>1, <3>2, <3>3
  <2>2. Corner(king, e) = king + 3 /\ king + 2 * e = king + 2 /\ king + 3 * e = king + 3 /\ king + e = king + 1
    BY <1>6 DEF Corner
  <2> HIDE DEF t
  <2>3. CASE d = 1
    <3>1. Run(d) = 1 /\ t + n * d = t + n /\ t + i * d = t + i
      BY <2>1, <2>3 DEF Run
    <3>2. a + n \in 2 .. 3
      BY <1>2, <1>3, <1>5, <2>1, <3>1
    <3>3. t + n * d \in {king + 2, king + 3}
      BY <1>5, <2>1, <3>1, <3>2
    <3>4. t + i * d # king
      BY <1>5, <2>1, <3>1
    <3> QED BY <1>6, <2>2, <2>3, <3>3, <3>4 DEF t
  <2>4. CASE d = -1
    <3>1. t + n * d = t - n /\ t + i * d = t - i /\ t + 2 * d = t - 2 /\ t + 1 * d = t - 1
      BY <2>1, <2>4
    <3>2. ASSUME t - i \in {king + 1, king + 2} PROVE t - n = king \/ (2 \in 1 .. n - 1 /\ t - 2 = king)
      BY <1>4, <1>5, <2>1, <3>2
    <3>3. ASSUME t - i = king PROVE (a = 1 /\ i = 1) \/ (1 \in 1 .. n - 1 /\ t - 1 = king + 1)
      BY <1>4, <1>5, <2>1, <3>3
    <3> QED BY <1>6, <2>2, <2>4, <3>1, <3>2, <3>3 DEF t
  <2> QED BY <2>3, <2>4
<1>7. CASE e = -1
  <2>1. fileOf(t) = 4 - a /\ t = king - a
    <3>1. t = king - a
      BY <1>4, <1>7
    <3>2. CASE king = 4 BY <1>4, <3>1, <3>2 DEF fileOf
    <3>3. CASE king = 60 BY <1>4, <3>1, <3>3 DEF fileOf
    <3> QED BY <3>1, <3>2, <3>3
  <2>2. Corner(king, e) = king - 4 /\ king + 2 * e = king - 2 /\ king + 3 * e = king - 3 /\ king + e = king - 1
    BY <1>7 DEF Corner
  <2> HIDE DEF t
  <2>3. CASE d = -1
    <3>1. Run(d) = -1 /\ t + n * d = t - n /\ t + i * d = t - i
      BY <2>1, <2>3 DEF Run
    <3>2. a + n \in 2 .. 4
      BY <1>2, <1>3, <1>5, <2>1, <3>1
    <3>3. t + n * d \in {king - 2, king - 3, king - 4}
      BY <1>5, <2>1, <3>1, <3>2
    <3>4. t + i * d # king
      BY <1>5, <2>1, <3>1
    <3> QED BY <1>7, <2>2, <2>3, <3>3, <3>4 DEF t
  <2>4. CASE d = 1
    <3>1. t + n * d = t + n /\ t + i * d = t + i /\ t + 2 * d = t + 2 /\ t + 1 * d = t + 1
      BY <2>1, <2>4
    <3>2. ASSUME t + i \in {king - 1, king - 2} PROVE t + n = king \/ (2 \in 1 .. n - 1 /\ t + 2 = king)
      BY <1>4, <1>5, <2>1, <3>2
    <3>3. ASSUME t + i = king PROVE (a = 1 /\ i = 1) \/ (1 \in 1 .. n - 1 /\ t + 1 = king - 1)
      BY <1>4, <1>5, <2>1, <3>3
    <3> QED BY <1>7, <2>2, <2>4, <3>1, <3>2, <3>3 DEF t
  <2> QED BY <2>3, <2>4
<1> QED BY <1>6, <1>7

\* A square of the path, the squares of a line that meets another of them.
LEMMA PathRank ==
  ASSUME NEW king \in {4, 60}, NEW e \in {1, -1}, NEW a \in 0 .. 2, NEW d \in Directions,
         NEW i \in 1 .. 6, king + a * e + i * d \in {king, king + e, king + 2 * e}
  PROVE  d \in {1, -1}
<1>1. a \in {0, 1, 2} /\ i \in 0 .. 7 /\ 0 \in 0 .. 7
  OBVIOUS
<1>2. king + a * e \in Int /\ d \in Int /\ king \in Int
  <2>1. CASE e = 1 BY <1>1, <2>1, DirectionsAre
  <2>2. CASE e = -1 BY <1>1, <2>2, DirectionsAre
  <2> QED BY <2>1, <2>2
<1> DEFINE k == king + a * e
<1>3. k - king \in {0, e, 2 * e}
  <2>1. CASE e = 1 BY <1>1, <2>1
  <2>2. CASE e = -1 BY <1>1, <2>2
  <2> QED BY <2>1, <2>2
<1>4. k + i * d \in {king, king + e, king + 2 * e}
  OBVIOUS
<1>5. (k + i * d) - k # 0
  <2> HIDE DEF k
  <2>1. i \in Int /\ i >= 1
    OBVIOUS
  <2> USE <1>2, <2>1 DEF k
  <2>2. d \in {8, 1, -8, -1, 9, -7, -9, 7}
    BY DirectionsAre
  <2> HIDE DEF k
  <2>3. k \in Int
    BY <1>2 DEF k
  <2> QED BY <2>1, <2>2, <2>3
<1> HIDE DEF k
<1>6. k \in Int
  BY <1>2 DEF k
<1>7. k + 0 * d = k
  BY <1>2, <1>6
<1>8. (k + i * d) - (k + 0 * d) \in {1, -1, 2, -2, 3, -4}
  <2>1. PICK x \in Int : x = k + i * d
    BY <1>2, <1>4
  <2>2. x - k # 0
    BY <1>5, <2>1
  <2>3. x - k \in {1, -1, 2, -2}
    <3>1. CASE e = 1 BY <1>2, <1>3, <1>4, <1>6, <2>1, <2>2, <3>1
    <3>2. CASE e = -1 BY <1>2, <1>3, <1>4, <1>6, <2>1, <2>2, <3>2
    <3> QED BY <3>1, <3>2
  <2> QED BY <1>7, <2>1, <2>3
<1> QED BY <1>1, <1>6, <1>8, SameRank

-----------------------------------------------------------------------------
\* Which squares slide to the path before castling and after it: castling hides

\* none, and uncovers the square the rook goes to from where the king was seen.
LEMMA PathSlides ==
  ASSUME NEW p, Good(p), NEW king, NEW e, AtHome(p, king, e), NEW a \in 0 .. 2,
         NEW dirs, dirs \subseteq Directions, NEW s \in Square,
         s \notin {king, king + 2 * e, Corner(king, e)}, e = -1 => s # king + 3 * e
  PROVE  LET t == king + a * e
             occ == getOccupiedBb(p)
             after == CastledOcc(p, king, e)
         IN /\ Slides(dirs, t, occ, s) => Slides(dirs, t, after, s)
            /\ Slides(dirs, t, after, s) => Slides(dirs, t, occ, s) \/ Slides(dirs, king, occ, s)
<1> DEFINE t == king + a * e
           occ == getOccupiedBb(p)
           after == CastledOcc(p, king, e)
           c == Corner(king, e)
<1>1. /\ king \in {4, 60} /\ e \in {1, -1}
      /\ king \in Square /\ king + e \in Square /\ king + 2 * e \in Square
      /\ c \in {0, 7, 56, 63}
      /\ king # king + e /\ king # king + 2 * e /\ king # c
  BY CastlingPlaces
<1>2. t \in {king, king + e, king + 2 * e} /\ t \in Square
  <2>1. a \in {0, 1, 2}
    OBVIOUS
  <2>2. t \in {king, king + e, king + 2 * e}
    <3>1. CASE e = 1 BY <1>1, <2>1, <3>1
    <3>2. CASE e = -1 BY <1>1, <2>1, <3>2
    <3> QED BY <1>1, <3>1, <3>2
  <2> QED BY <1>1, <2>2
<1>3. s # king + 3 * e
  <2>1. e = 1 => c = king + 3 * e
    BY <1>1 DEF Corner
  <2> QED BY <1>1, <2>1
<1>4. \A x : x \in after <=> (x \in occ /\ x # king /\ x # c) \/ x = king + e \/ x = king + 2 * e
  BY DEF CastledOcc
<1>5. king \in occ /\ king + e \notin occ /\ king + 2 * e \notin occ
  <2>1. p.board[king] # PIECE_NONE /\ p.board[king + e] = PIECE_NONE /\ p.board[king + 2 * e] = PIECE_NONE
    BY PawnsAre, Kinds DEF AtHome
  <2> QED BY <1>1, <2>1, PawnsAre
\* a line from the path that meets a square of it runs along the rank
<1>6. ASSUME NEW d \in Directions, NEW n \in 1 .. 7, Free(d, t, n), s = t + n * d, NEW i \in 1 .. n - 1,
             t + i * d \in {king, king + e, king + 2 * e}
      PROVE  /\ d = -e
             /\ t + i * d \in {king + e, king + 2 * e} => 2 \in 1 .. n - 1 /\ t + 2 * d = king
             /\ t + i * d = king => (a = 1 /\ i = 1) \/ (1 \in 1 .. n - 1 /\ t + 1 * d = king + e)
  <2>1. i \in 1 .. 6
    OBVIOUS
  <2>2. d \in {1, -1}
    BY <1>1, <1>6, <2>1, PathRank
  <2>3. /\ d = e => t + n * d \in {king + 2 * e, king + 3 * e, c}
        /\ d = -e /\ t + i * d \in {king + e, king + 2 * e} =>
              t + n * d = king \/ (2 \in 1 .. n - 1 /\ t + 2 * d = king)
        /\ d = -e /\ t + i * d = king =>
              (a = 1 /\ i = 1) \/ (1 \in 1 .. n - 1 /\ t + 1 * d = king + e)
    BY <1>1, <1>2, <1>6, <2>2, PathLines
  <2>4. d # e
    BY <1>3, <1>6, <2>3
  <2>5. d = -e
    BY <1>1, <2>2, <2>4
  <2> HIDE DEF t, c
  <2> QED BY <1>6, <2>3, <2>5
<1> HIDE DEF t, occ, after, c
<1>7a. ASSUME Slides(dirs, t, occ, s) PROVE Slides(dirs, t, after, s)
  <2>1. SUFFICES ASSUME ~Slides(dirs, t, after, s) PROVE FALSE
    OBVIOUS
  <2>2. PICK d \in dirs : \E n \in 1 .. 7 : \E i \in 1 .. n - 1 :
          /\ s = t + n * d /\ Free(d, t, n) /\ t + i * d \in after \ occ
          /\ \A j \in 1 .. n - 1 : t + j * d \notin occ
    BY <1>2, <1>7a, <2>1, SlidesUnless
  <2>3. PICK n \in 1 .. 7 : \E i \in 1 .. n - 1 :
          /\ s = t + n * d /\ Free(d, t, n) /\ t + i * d \in after \ occ
          /\ \A j \in 1 .. n - 1 : t + j * d \notin occ
    BY <2>2
  <2>4. PICK i \in 1 .. n - 1 :
          /\ s = t + n * d /\ Free(d, t, n) /\ t + i * d \in after \ occ
          /\ \A j \in 1 .. n - 1 : t + j * d \notin occ
    BY <2>3
  <2>5. d \in Directions /\ t + i * d \in {king + e, king + 2 * e}
    BY <1>4, <2>4
  <2>6. 2 \in 1 .. n - 1 /\ t + 2 * d = king
    BY <1>6, <2>4, <2>5
  <2> QED BY <1>5, <2>4, <2>6
<1>8. ASSUME Slides(dirs, t, after, s), ~Slides(dirs, t, occ, s) PROVE Slides(dirs, king, occ, s)
  <2>2. PICK d \in dirs : \E n \in 1 .. 7 : \E i \in 1 .. n - 1 :
          /\ s = t + n * d /\ Free(d, t, n) /\ t + i * d \in occ \ after
          /\ \A j \in 1 .. n - 1 : t + j * d \notin after
    BY <1>2, <1>8, SlidesUnless
  <2>3. PICK n \in 1 .. 7 : \E i \in 1 .. n - 1 :
          /\ s = t + n * d /\ Free(d, t, n) /\ t + i * d \in occ \ after
          /\ \A j \in 1 .. n - 1 : t + j * d \notin after
    BY <2>2
  <2>4. PICK i \in 1 .. n - 1 :
          /\ s = t + n * d /\ Free(d, t, n) /\ t + i * d \in occ \ after
          /\ \A j \in 1 .. n - 1 : t + j * d \notin after
    BY <2>3
  <2>5. d \in Directions
    OBVIOUS
  <2>6. \A j \in 1 .. n - 1 : t + j * d # c
    BY <1>1, <1>2, <2>4, <2>5, NoCornerBetween
  <2>7. t + i * d = king
    BY <1>4, <2>4, <2>6
  <2>8. i = 1
    <3>1. ~(1 \in 1 .. n - 1 /\ t + 1 * d = king + e)
      BY <1>4, <2>4
    <3> QED BY <1>6, <2>4, <2>5, <2>7, <3>1
  <2>9. /\ king \in Square /\ n - 1 \in 1 .. 7 /\ Free(d, king, n - 1)
        /\ \A j \in 1 .. n - 1 : king + j * d = t + (1 + j) * d
    BY <1>2, <2>4, <2>5, <2>7, <2>8, SubLine
  <2>10. s = king + (n - 1) * d
    <3>1. n - 1 \in 1 .. n - 1 /\ 1 + (n - 1) = n
      OBVIOUS
    <3> QED BY <2>4, <2>9, <3>1
  <2>11. ASSUME NEW j \in 1 .. (n - 1) - 1 PROVE king + j * d \notin occ
    <3>1. j \in 1 .. n - 1 /\ 1 + j \in 1 .. n - 1
      OBVIOUS
    <3>2. king + j * d = t + (1 + j) * d
      BY <2>9, <3>1
    <3>3. king + j * d \notin after /\ king + j * d # c
      BY <2>4, <2>6, <3>1, <3>2
    <3>4. king + j * d # king
      BY <2>5, <2>9, <2>11, BetweenEnds
    <3> QED BY <1>4, <3>3, <3>4
  <2> QED BY <2>9, <2>10, <2>11 DEF Slides
<1> QED BY <1>7a, <1>8 DEF t, occ, after

\* The occupied squares of a position are those of its board.
LEMMA BoardIs ==
  ASSUME NEW p, Good(p)
  PROVE  Placement(p.board) /\ Occupies(p.board, getOccupiedBb(p))
<1>1. getOccupiedBb(p) = {s \in Square : p.board[s] # PIECE_NONE}
  BY BitboardsAre
<1>2. Placement(p.board)
  BY DEF Good, BoardOK, Placement
<1> QED BY <1>1, <1>2 DEF Occupies

\* The attackers of the path: none is lost, and what is new saw the king.
LEMMA PathAttackers ==
  ASSUME NEW p, Good(p), NEW king, NEW e, AtHome(p, king, e), NEW a \in 0 .. 2
  PROVE  LET us == p.nextPlayer
             them == Other(us)
             t == king + a * e
             there == R!After(p.board, us, createMove(king, king + 2 * e, CASTLING))
         IN /\ R!Attackers(p.board, t, them) \subseteq R!Attackers(there, t, them)
            /\ R!Attackers(there, t, them) \subseteq
                 R!Attackers(p.board, t, them) \cup R!Attackers(p.board, king, them)
<1> DEFINE us == p.nextPlayer
           them == Other(us)
           t == king + a * e
           there == R!After(p.board, us, createMove(king, king + 2 * e, CASTLING))
           occ == getOccupiedBb(p)
           after == CastledOcc(p, king, e)
           c == Corner(king, e)
<1>1. us \in Color /\ them \in Color /\ them # us
  BY PawnsAre, OtherColor
<1>2. /\ king \in {4, 60} /\ e \in {1, -1}
      /\ king \in Square /\ king + e \in Square /\ king + 2 * e \in Square /\ c \in Square
      /\ king # king + e /\ king # king + 2 * e /\ king # c
      /\ king + e # king + 2 * e /\ king + e # c /\ king + 2 * e # c
  BY CastlingPlaces
<1>3. t \in Square
  <2>1. t \in {king, king + e, king + 2 * e}
    <3>1. a \in {0, 1, 2}
      OBVIOUS
    <3>2. CASE e = 1 BY <1>2, <3>1, <3>2
    <3>3. CASE e = -1 BY <1>2, <3>1, <3>3
    <3> QED BY <1>2, <3>2, <3>3
  <2> QED BY <1>2, <2>1
<1>4. /\ Placement(there)
      /\ \A s \in Square : there[s] = IF s = king + 2 * e THEN makePiece(us, KING)
                                      ELSE IF s = king + e THEN makePiece(us, ROOK)
                                      ELSE IF s \in {king, c} THEN PIECE_NONE
                                      ELSE p.board[s]
  BY AfterCastling
<1>5. Placement(p.board) /\ Occupies(p.board, occ)
  BY BoardIs
<1>6. /\ p.board[king] = makePiece(us, KING) /\ p.board[c] = makePiece(us, ROOK)
      /\ p.board[king + e] = PIECE_NONE /\ p.board[king + 2 * e] = PIECE_NONE
      /\ (e = -1 => p.board[king + 3 * e] = PIECE_NONE)
  BY DEF AtHome
<1>7a. \A s : s \in after <=> (s \in occ /\ s # king /\ s # c) \/ s = king + e \/ s = king + 2 * e
  BY DEF CastledOcc
<1>8. Occupies(there, after)
  <2> HIDE DEF us, them, t, there, occ, after, c
  <2>1. ASSUME NEW s \in Square PROVE s \in after <=> there[s] # PIECE_NONE
    BY <1>1, <1>4, <1>5, <1>7a, <2>1, Kinds DEF Occupies
  <2> QED BY <2>1 DEF Occupies
<1>9. ASSUME NEW pt \in PieceType, NEW s \in Square
      PROVE  /\ p.board[s] = makePiece(them, pt) <=> there[s] = makePiece(them, pt)
             /\ p.board[s] = makePiece(them, pt) =>
                  s \notin {king, king + e, king + 2 * e, c} /\ (e = -1 => s # king + 3 * e)
  <2>1. makePiece(them, pt) # PIECE_NONE /\ makePiece(them, pt) # makePiece(us, KING)
        /\ makePiece(them, pt) # makePiece(us, ROOK)
    BY <1>1, Kinds
  <2> HIDE DEF us, them, there, c
  <2>2. p.board[s] = makePiece(them, pt) =>
                  s \notin {king, king + e, king + 2 * e, c} /\ (e = -1 => s # king + 3 * e)
    BY <1>6, <2>1
  <2>3. there[s] = makePiece(them, pt) => s \notin {king, king + e, king + 2 * e, c}
    BY <1>4, <2>1
  <2>4. s \notin {king, king + e, king + 2 * e, c} => there[s] = p.board[s]
    BY <1>4
  <2> QED BY <2>2, <2>3, <2>4
<1>10. ASSUME NEW s \in Square, s \notin {king, king + e, king + 2 * e, c}, e = -1 => s # king + 3 * e,
              NEW pt \in PieceType
       PROVE  /\ s \in Strikers(occ, them, pt, t) => s \in Strikers(after, them, pt, t)
              /\ s \in Strikers(after, them, pt, t) =>
                   s \in Strikers(occ, them, pt, t) \/ s \in Strikers(occ, them, pt, king)
  <2>1. ASSUME NEW dirs, dirs \subseteq Directions
        PROVE /\ Slides(dirs, t, occ, s) => Slides(dirs, t, after, s)
              /\ Slides(dirs, t, after, s) => Slides(dirs, t, occ, s) \/ Slides(dirs, king, occ, s)
    BY <1>10, <2>1, PathSlides
  <2> HIDE DEF occ, after, t, them
  <2>2. /\ s \in bishopAttacks(t, occ) => s \in bishopAttacks(t, after)
        /\ s \in bishopAttacks(t, after) => s \in bishopAttacks(t, occ) \/ s \in bishopAttacks(king, occ)
        /\ s \in rookAttacks(t, occ) => s \in rookAttacks(t, after)
        /\ s \in rookAttacks(t, after) => s \in rookAttacks(t, occ) \/ s \in rookAttacks(king, occ)
    BY <1>2, <1>3, <2>1, DirectionSets, SlidersSlide
  <2>3. pt \in {KING, PAWN, KNIGHT, BISHOP, ROOK, QUEEN}
    BY DEF PieceType, KING, PAWN, KNIGHT, BISHOP, ROOK, QUEEN
  <2> QED BY <2>2, <2>3, StrikersAre
<1> HIDE DEF us, them, t, there, occ, after, c
<1>11. \A s : s \in R!Attackers(p.board, t, them) <=>
         s \in Square /\ \E pt \in PieceType : p.board[s] = makePiece(them, pt) /\ s \in Strikers(occ, them, pt, t)
  BY <1>1, <1>3, <1>5, AttackersOf
<1>12. \A s : s \in R!Attackers(p.board, king, them) <=>
         s \in Square /\ \E pt \in PieceType : p.board[s] = makePiece(them, pt) /\ s \in Strikers(occ, them, pt, king)
  BY <1>1, <1>2, <1>5, AttackersOf
<1>13. \A s : s \in R!Attackers(there, t, them) <=>
         s \in Square /\ \E pt \in PieceType : there[s] = makePiece(them, pt) /\ s \in Strikers(after, them, pt, t)
  BY <1>1, <1>3, <1>4, <1>8, AttackersOf
<1>14. R!Attackers(p.board, t, them) \subseteq R!Attackers(there, t, them)
  BY <1>9, <1>10, <1>11, <1>13
<1>15. R!Attackers(there, t, them) \subseteq R!Attackers(p.board, t, them) \cup R!Attackers(p.board, king, them)
  BY <1>9, <1>10, <1>11, <1>12, <1>13
<1> QED BY <1>14, <1>15 DEF us, them, t, there

-----------------------------------------------------------------------------
\* Castling is legal if none of the three squares of the king's way is attacked;

\* isLegalMove looks before the move and wasLegalMove after it, and both say so.
LEMMA CastlingLegal ==
  ASSUME NEW p, Good(p), ~KingCapturable(p), NEW king, NEW e, AtHome(p, king, e),
         CastlingRight(p, e) \in p.castlingRights, NEW m, m = createMove(king, king + 2 * e, CASTLING)
  PROVE  LET lawful == \A i \in 0 .. 2 : R!Attackers(p.board, king + i * e, Other(p.nextPlayer)) = {} IN
         /\ isLegalMove(p, m) <=> lawful
         /\ wasLegalMove(doMove(p, m)) <=> lawful
         /\ MoveShape(p, m)
<1> DEFINE us == p.nextPlayer
           them == Other(us)
           Before(t) == R!Attackers(p.board, t, them)
           there == R!After(p.board, us, m)
           After2(t) == R!Attackers(there, t, them)
<1>1. us \in Color /\ them \in Color /\ them # us /\ Other(them) = us
  BY PawnsAre, OtherColor
<1>2. /\ king \in {4, 60} /\ e \in {1, -1}
      /\ king \in Square /\ king + e \in Square /\ king + 2 * e \in Square /\ Corner(king, e) \in Square
      /\ king # king + e /\ king # king + 2 * e /\ king # Corner(king, e)
      /\ king + e # king + 2 * e /\ king + e # Corner(king, e) /\ king + 2 * e # Corner(king, e)
      /\ rookCorner[king + 2 * e] = Corner(king, e) /\ rookCrossing[king + 2 * e] = king + e
  BY CastlingPlaces
<1>3. king + 0 * e = king /\ king + 1 * e = king + e
  BY <1>2
<1>4. m.from = king /\ m.to = king + 2 * e /\ m.type = CASTLING
  BY DEF createMove
<1>5. m \in generatePseudoLegalMoves(p, GenAll, FALSE)
  <2>1. m \in generateCastling(p)
    BY CastlingAre
  <2> QED BY <2>1, PseudoAre
<1>6. PICK q : q = doMove(p, m)
  OBVIOUS
<1>7a. MoveShape(p, m) /\ Good(q)
  BY <1>5, <1>6, MoveStaysGood
<1>8. CastlingShape(p, m)
  BY <1>4, <1>7a, Types DEF MoveShape
<1>9. p.kingSquare \in [Color -> Square] /\ p.kingSquare \in [Color -> Int]
  <2>1. p.kingSquare \in [Color -> Square]
    BY DEF Good, KingsOK
  <2>2. Square \subseteq Int
    BY DEF Square
  <2> QED BY <2>1, <2>2
<1>10. DoneCastling(p, m, q)
  BY <1>1, <1>4, <1>6, <1>8, <1>9, DoCastling DEF Good
<1>11. /\ q.enPassantSquare = SQ_NONE /\ q.kingSquare[us] = king + 2 * e
       /\ q.board = [p.board EXCEPT ![king] = PIECE_NONE, ![king + 2 * e] = makePiece(us, KING),
                                 ![Corner(king, e)] = PIECE_NONE, ![king + e] = makePiece(us, ROOK)]
  <2> HIDE DEF us
  <2>1. /\ q.kingSquare = [p.kingSquare EXCEPT ![us] = m.to] /\ q.enPassantSquare = SQ_NONE
        /\ q.board = [p.board EXCEPT ![m.from] = PIECE_NONE, ![m.to] = makePiece(us, KING),
                                 ![rookCorner[m.to]] = PIECE_NONE,
                                 ![rookCrossing[m.to]] = makePiece(us, ROOK)]
    BY <1>10 DEF DoneCastling, us
  <2>2. q.kingSquare[us] = m.to
    BY <1>1, <1>9, <2>1
  <2> QED BY <1>2, <1>4, <2>1, <2>2
<1>12. q.board = there
  <2>1. /\ Placement(there)
        /\ \A s \in Square : there[s] = IF s = king + 2 * e THEN makePiece(us, KING)
                                      ELSE IF s = king + e THEN makePiece(us, ROOK)
                                      ELSE IF s \in {king, Corner(king, e)} THEN PIECE_NONE
                                      ELSE p.board[s]
    BY AfterCastling
  <2>2. Placement(p.board) /\ Placement(q.board)
    BY <1>7a, BoardIs
  <2> HIDE DEF there, us
  <2>3. \A s \in Square : q.board[s] = there[s]
    BY <1>2, <1>11, <2>1, <2>2 DEF Placement
  <2> QED BY <2>1, <2>2, <2>3 DEF Placement
<1>13. R!Checked(q.board, us) <=> After2(king + 2 * e) # {}
  BY <1>1, <1>7a, <1>11, <1>12, KingChecked
<1>14. /\ isAttacked(p, king, them) <=> Before(king) # {}
       /\ isAttacked(p, king + e, them) <=> Before(king + e) # {}
  <2>1. p.board[king] # makePiece(us, PAWN) /\ p.board[king + e] # makePiece(us, PAWN)
    BY <1>1, Kinds DEF AtHome
  <2>2. ~EnPassantAttacked(p, king, them) /\ ~EnPassantAttacked(p, king + e, them)
    BY <1>1, <2>1 DEF EnPassantAttacked
  <2> QED BY <1>1, <1>2, <2>2, AttackedByRules
<1>15. /\ isAttacked(q, king, them) <=> After2(king) # {}
       /\ isAttacked(q, king + e, them) <=> After2(king + e) # {}
  <2>1. ~EnPassantAttacked(q, king, them) /\ ~EnPassantAttacked(q, king + e, them)
    BY <1>11 DEF EnPassantAttacked
  <2> QED BY <1>1, <1>2, <1>7a, <1>12, <2>1, AttackedByRules
<1>16. \A r : CastlingPathAttacked(r, m, them) <=> isAttacked(r, king, them) \/ isAttacked(r, king + e, them)
  BY <1>2, <1>4 DEF CastlingPathAttacked
<1>17. /\ isLegalMove(p, m) <=> ~CastlingPathAttacked(p, m, them) /\ ~R!Checked(q.board, us)
       /\ wasLegalMove(q) <=> ~CastlingPathAttacked(q, m, them) /\ ~R!Checked(q.board, us)
  BY <1>6, <1>7a, LegalityIs
<1>18. \A a \in 0 .. 2 :
         /\ Before(king + a * e) \subseteq After2(king + a * e)
         /\ After2(king + a * e) \subseteq Before(king + a * e) \cup Before(king)
  BY PathAttackers
<1>19. /\ Before(king) \subseteq After2(king) /\ After2(king) \subseteq Before(king)
       /\ Before(king + e) \subseteq After2(king + e) /\ After2(king + e) \subseteq Before(king + e) \cup Before(king)
       /\ Before(king + 2 * e) \subseteq After2(king + 2 * e)
       /\ After2(king + 2 * e) \subseteq Before(king + 2 * e) \cup Before(king)
  <2>1. 0 \in 0 .. 2 /\ 1 \in 0 .. 2 /\ 2 \in 0 .. 2
    OBVIOUS
  <2> HIDE DEF Before, After2
  <2>2. Before(king + 0 * e) \subseteq After2(king + 0 * e) /\ After2(king + 0 * e) \subseteq Before(king + 0 * e) \cup Before(king)
    BY <1>18, <2>1
  <2>3. Before(king + 1 * e) \subseteq After2(king + 1 * e) /\ After2(king + 1 * e) \subseteq Before(king + 1 * e) \cup Before(king)
    BY <1>18, <2>1
  <2>4. Before(king + 2 * e) \subseteq After2(king + 2 * e) /\ After2(king + 2 * e) \subseteq Before(king + 2 * e) \cup Before(king)
    BY <1>18, <2>1
  <2> QED BY <1>3, <2>2, <2>3, <2>4
<1>20. (\A i \in 0 .. 2 : Before(king + i * e) = {}) <=>
         Before(king) = {} /\ Before(king + e) = {} /\ Before(king + 2 * e) = {}
  <2>1. \A i : i \in 0 .. 2 <=> i = 0 \/ i = 1 \/ i = 2
    OBVIOUS
  <2> HIDE DEF Before
  <2> QED BY <1>3, <2>1
<1> HIDE DEF Before, After2, there, us, them
<1>21. isLegalMove(p, m) <=> Before(king) = {} /\ Before(king + e) = {} /\ After2(king + 2 * e) = {}
  BY <1>13, <1>14, <1>16, <1>17
<1>22. wasLegalMove(q) <=> After2(king) = {} /\ After2(king + e) = {} /\ After2(king + 2 * e) = {}
  BY <1>13, <1>15, <1>16, <1>17
<1>23. /\ isLegalMove(p, m) <=> \A i \in 0 .. 2 : Before(king + i * e) = {}
       /\ wasLegalMove(q) <=> \A i \in 0 .. 2 : Before(king + i * e) = {}
  BY <1>19, <1>20, <1>21, <1>22
<1> QED BY <1>6, <1>7a, <1>23 DEF Before, us, them

\* Of every pseudo legal move both say what the rules say.
LEMMA PseudoLegal ==
  ASSUME NEW p, Good(p), ~KingCapturable(p), NEW m \in generatePseudoLegalMoves(p, GenAll, FALSE)
  PROVE  LET rules == R!LegalMoves(p.board, p.nextPlayer, p.castlingRights, p.enPassantSquare) IN
         /\ isLegalMove(p, m) <=> m \in rules
         /\ wasLegalMove(doMove(p, m)) <=> m \in rules
<1> DEFINE us == p.nextPlayer
           rules == R!LegalMoves(p.board, us, p.castlingRights, p.enPassantSquare)
<1>1. m \in rules <=> \/ m \in RuleMoves(p) /\ ~R!Checked(R!After(p.board, us, m), us)
                      \/ m \in R!CastlingMoves(p.board, us, p.castlingRights)
  BY DEF R!LegalMoves, RuleMoves
<1>2. m \in RuleMoves(p) \/ m \in generateCastling(p)
  BY PseudoAre
<1>3. m \in R!CastlingMoves(p.board, us, p.castlingRights) <=>
           \E king, e :
             /\ AtHome(p, king, e)
             /\ CastlingRight(p, e) \in p.castlingRights
             /\ \A i \in 0 .. 2 : R!Attackers(p.board, king + i * e, Other(us)) = {}
             /\ m = createMove(king, king + 2 * e, CASTLING)
  BY RulesCastling DEF CastlingRight
<1>4. m \in RuleMoves(p) => m.type # CASTLING
  BY BoardAfter
<1>5. \A king, e : m = createMove(king, king + 2 * e, CASTLING) => m.type = CASTLING
  BY DEF createMove
<1>6. CASE m \in RuleMoves(p)
  <2>1. m \notin R!CastlingMoves(p.board, us, p.castlingRights)
    BY <1>3, <1>4, <1>5, <1>6
  <2> QED BY <1>1, <1>6, <2>1, BoardMoveLegal
<1>7a. CASE m \in generateCastling(p)
  <2>1. PICK king, e : /\ AtHome(p, king, e) /\ CastlingRight(p, e) \in p.castlingRights
                       /\ m = createMove(king, king + 2 * e, CASTLING)
    BY <1>7a, CastlingAre
  <2>2. m \notin RuleMoves(p) /\ m.from = king /\ m.to = king + 2 * e
    <3>1. m.from = king /\ m.to = king + 2 * e
      BY <2>1 DEF createMove
    <3> QED BY <1>4, <1>5, <2>1, <3>1
  <2> DEFINE lawful == \A i \in 0 .. 2 : R!Attackers(p.board, king + i * e, Other(us)) = {}
  <2>3. (isLegalMove(p, m) <=> lawful) /\ (wasLegalMove(doMove(p, m)) <=> lawful)
    BY <2>1, CastlingLegal
  <2>4. m \in R!CastlingMoves(p.board, us, p.castlingRights) <=> lawful
    <3>1. ASSUME lawful PROVE m \in R!CastlingMoves(p.board, us, p.castlingRights)
      BY <1>3, <2>1, <3>1
    <3>2. ASSUME m \in R!CastlingMoves(p.board, us, p.castlingRights) PROVE lawful
      <4>1. PICK k, f : /\ AtHome(p, k, f)
                        /\ \A i \in 0 .. 2 : R!Attackers(p.board, k + i * f, Other(us)) = {}
                        /\ m = createMove(k, k + 2 * f, CASTLING)
        BY <1>3, <3>2
      <4>2. k = king /\ k + 2 * f = king + 2 * e
        <5>1. m.from = k /\ m.to = k + 2 * f
          BY <4>1 DEF createMove
        <5> QED BY <2>2, <5>1
      <4>3. k \in {4, 60} /\ f \in {1, -1} /\ e \in {1, -1}
        BY <2>1, <4>1, CastlingPlaces
      <4>4. f = e
        <5>1. CASE e = 1 BY <4>2, <4>3, <5>1
        <5>2. CASE e = -1 BY <4>2, <4>3, <5>2
        <5> QED BY <4>3, <5>1, <5>2
      <4> QED BY <4>1, <4>2, <4>4
    <3> QED BY <3>1, <3>2
  <2> HIDE DEF lawful
  <2> QED BY <1>1, <2>2, <2>3, <2>4
<1> QED BY <1>2, <1>6, <1>7a

-----------------------------------------------------------------------------
(* The evasions: no legal move out of check is missed. *)

\* Whether the square a line starts from is taken makes no difference to a slider.
LEMMA SlidesStill ==
  ASSUME NEW k \in Square, NEW s \in Square, NEW occ, NEW less, less \subseteq occ \cup {k},
         NEW c, NEW pt \in PieceType, s \in Strikers(occ, c, pt, k)
  PROVE  s \in Strikers(less, c, pt, k)
<1>1. ASSUME NEW dirs, dirs \subseteq Directions, Slides(dirs, k, occ, s)
      PROVE  Slides(dirs, k, less, s)
  <2>1. ASSUME NEW d \in dirs, NEW n \in 1 .. 7, NEW i \in 1 .. n - 1, k + i * d \in less \ occ
        PROVE  FALSE
    <3>1. k + i * d = k
      BY <2>1
    <3>2. d \in Directions
      BY <1>1
    <3> QED BY <3>1, <3>2, BetweenEnds
  <2> QED BY <1>1, <2>1, SlidesUnless
<1>2. /\ s \in bishopAttacks(k, occ) => s \in bishopAttacks(k, less)
      /\ s \in rookAttacks(k, occ) => s \in rookAttacks(k, less)
  BY <1>1, DirectionSets, SlidersSlide
<1>3. pt \in {KING, PAWN, KNIGHT, BISHOP, ROOK, QUEEN}
  BY DEF PieceType, KING, PAWN, KNIGHT, BISHOP, ROOK, QUEEN
<1> QED BY <1>2, <1>3, StrikersAre

\* A slider that no longer attacks k has a new piece in its way.
LEMMA StrikerBlocked ==
  ASSUME NEW k \in Square, NEW s \in Square, NEW occ, NEW less, NEW c, NEW pt \in PieceType,
         s \in Strikers(occ, c, pt, k), s \notin Strikers(less, c, pt, k)
  PROVE  /\ pt \in {BISHOP, ROOK, QUEEN}
         /\ \E d \in Directions : \E n \in 1 .. 7 : \E i \in 1 .. n - 1 :
              /\ s = k + n * d /\ Free(d, k, n) /\ k + i * d \in less \ occ
              /\ \A j \in 1 .. n - 1 : k + j * d \notin occ
<1> DEFINE Blocked == \E d \in Directions : \E n \in 1 .. 7 : \E i \in 1 .. n - 1 :
              /\ s = k + n * d /\ Free(d, k, n) /\ k + i * d \in less \ occ
              /\ \A j \in 1 .. n - 1 : k + j * d \notin occ
<1>1. ASSUME NEW dirs, dirs \subseteq Directions, Slides(dirs, k, occ, s), ~Slides(dirs, k, less, s)
      PROVE  Blocked
  <2>1. \E d \in dirs : \E n \in 1 .. 7 : \E i \in 1 .. n - 1 :
              /\ s = k + n * d /\ Free(d, k, n) /\ k + i * d \in less \ occ
              /\ \A j \in 1 .. n - 1 : k + j * d \notin occ
    BY <1>1, SlidesUnless
  <2> QED BY <1>1, <2>1
<1> HIDE DEF Blocked
<1>2. /\ s \in bishopAttacks(k, occ) /\ s \notin bishopAttacks(k, less) => Blocked
      /\ s \in rookAttacks(k, occ) /\ s \notin rookAttacks(k, less) => Blocked
  BY <1>1, DirectionSets, SlidersSlide
<1>3. pt \in {KING, PAWN, KNIGHT, BISHOP, ROOK, QUEEN}
  BY DEF PieceType, KING, PAWN, KNIGHT, BISHOP, ROOK, QUEEN
<1>4. pt \in {BISHOP, ROOK, QUEEN} /\ Blocked
  BY <1>2, <1>3, StrikersAre
<1> QED BY <1>4 DEF Blocked

\* A move of the king out of check is generated as an evasion.
LEMMA KingEvades ==
  ASSUME NEW p, Good(p), EnPassantSafe(p), InCheck(p), NEW m \in RuleMoves(p),
         ~R!Checked(R!After(p.board, p.nextPlayer, m), p.nextPlayer),
         p.board[m.from] = makePiece(p.nextPlayer, KING)
  PROVE  attacksTo(p, m.to, Other(p.nextPlayer)) = {}
<1> DEFINE us == p.nextPlayer
           them == Other(us)
           there == R!After(p.board, us, m)
           k == p.kingSquare[us]
           t == m.to
           occ == getOccupiedBb(p)
           after == OccupiedAfter(p, m)
<1>1. us \in Color /\ them \in Color /\ us # them /\ Other(them) = us
  BY BitboardsAre, OtherColor
<1>2. k \in Square /\ \A s \in Square : p.board[s] = makePiece(us, KING) <=> s = k
  BY <1>1 DEF Good, KingsOK
<1>3. m \in R!BoardMoves(p.board, p.nextPlayer, p.enPassantSquare)
  BY DEF RuleMoves
<1>4. m.from = k /\ t \in Square /\ t # k /\ m.type = NORMAL
  <2>1. m.from \in Square /\ m.to \in Square /\ m.from # m.to /\ m.type \in {NORMAL, PROMOTION, ENPASSANT}
    BY <1>3, RulesMove
  <2>2. m.type \in {PROMOTION, ENPASSANT} => p.board[m.from] = makePiece(us, PAWN)
    BY <1>3, RulesMove
  <2>3. makePiece(us, KING) # makePiece(us, PAWN)
    BY <1>1, Kinds
  <2> QED BY <1>2, <2>1, <2>2, <2>3
<1>5. Gone(p, m) = {} /\ Dropped(p, m) = makePiece(us, KING)
  BY <1>4, Types DEF Gone, Dropped
<1>6. /\ Placement(there)
      /\ \A s \in Square : there[s] = IF s = t THEN makePiece(us, KING)
                                      ELSE IF s = k THEN PIECE_NONE ELSE p.board[s]
  BY <1>3, <1>4, <1>5, AfterIs
<1>7. Occupies(there, after)
  BY <1>3, OccupiesAfter
<1>8. Placement(p.board) /\ Occupies(p.board, occ)
  BY BoardIs
<1>9. \A s \in Square : there[s] = makePiece(us, KING) <=> s = t
  <2>1. makePiece(us, KING) # PIECE_NONE
    BY <1>1, Kinds, PieceFacts
  <2> QED BY <1>2, <1>6, <2>1
<1>10. R!Attackers(there, t, them) = {}
  BY <1>1, <1>4, <1>9, KingFound
<1>11. R!Attackers(p.board, t, them) = {}
  <2>1. SUFFICES ASSUME NEW s \in R!Attackers(p.board, t, them) PROVE FALSE
    OBVIOUS
  <2>2. PICK pt \in PieceType : s \in Square /\ p.board[s] = makePiece(them, pt) /\ s \in Strikers(occ, them, pt, t)
    BY <1>1, <1>4, <1>8, <2>1, AttackersOf
  <2>3. s # t
    BY <1>4, <2>1, SamePlace, RulesBoard DEF R!Attackers, R!Attacks
  <2>4. s # k
    BY <1>1, <1>2, <2>2, PieceFacts, Kinds
  <2>5. there[s] = makePiece(them, pt)
    BY <1>6, <2>2, <2>3, <2>4
  <2>6. \A x \in Square : x \in after => x \in occ \cup {t}
    BY <1>6, <1>7, <1>8 DEF Occupies
  <2>7. s \in Strikers(after \cap Square, them, pt, t)
    <3>1. after \cap Square \subseteq occ \cup {t}
      BY <2>6
    <3> HIDE DEF after, occ, them, t
    <3> QED BY <1>4, <2>2, <3>1, SlidesStill
  <2>8. Occupies(there, after \cap Square)
    BY <1>7 DEF Occupies
  <2>9. s \in R!Attackers(there, t, them)
    BY <1>1, <1>4, <1>6, <2>2, <2>5, <2>7, <2>8, AttackersOf
  <2> QED BY <1>10, <2>9
<1>12. Passers(p, t, them) = {}
  <2>1. SUFFICES ASSUME p.enPassantSquare # SQ_NONE, t = p.enPassantSquare + pawnPush(us) PROVE FALSE
    BY <1>1 DEF Passers
  <2>2. k \in kingAttacks[t]
    <3>1. Goes(p, KING, m)
      BY <1>4, RulePieceMoves, Kinds DEF PieceType, KING, PAWN
    <3>2. t \in kingAttacks[k]
      BY <1>4, <3>1, KingAttacksAre DEF Goes
    <3> QED BY <1>2, <1>4, <3>2, AttacksBack
  <2>3. p.board[t] = PIECE_NONE /\ isAttacked(p, t, them)
    BY <2>1, <2>2 DEF EnPassantSafe
  <2>4. ~EnPassantAttacked(p, t, them)
    BY <1>1, <2>3, Kinds, PieceFacts DEF EnPassantAttacked
  <2> QED BY <1>1, <1>4, <1>11, <2>3, <2>4, AttackedByRules
<1> QED BY <1>1, <1>4, <1>11, <1>12, AttacksToAre

\* The move to x blocks the open line from the piece on s to k.
Met(occ, k, x, s) ==
  \E d \in Directions : \E n \in 1 .. 7 : \E i \in 1 .. n - 1 :
    /\ s = k + n * d /\ Free(d, k, n) /\ x = k + i * d /\ x \notin occ
    /\ \A j \in 1 .. n - 1 : k + j * d \notin occ

\* A move of another piece that leaves the king safe takes or blocks every attacker.
LEMMA AttackerMet ==
  ASSUME NEW p, Good(p), NEW m \in RuleMoves(p), m.type # ENPASSANT,
         ~R!Checked(R!After(p.board, p.nextPlayer, m), p.nextPlayer),
         p.board[m.from] # makePiece(p.nextPlayer, KING),
         NEW s \in R!Attackers(p.board, p.kingSquare[p.nextPlayer], Other(p.nextPlayer))
  PROVE  LET k == p.kingSquare[p.nextPlayer] IN
         /\ s \in Square /\ s \in getOccupiedBb(p)
         /\ \/ m.to = s
            \/ typeOf(p.board[s]) > KNIGHT /\ Met(getOccupiedBb(p), k, m.to, s)
<1> DEFINE us == p.nextPlayer
           them == Other(us)
           there == R!After(p.board, us, m)
           k == p.kingSquare[us]
           occ == getOccupiedBb(p)
           after == OccupiedAfter(p, m)
<1>1. us \in Color /\ them \in Color /\ us # them /\ Other(them) = us
  BY BitboardsAre, OtherColor
<1>2. k \in Square /\ \A x \in Square : p.board[x] = makePiece(us, KING) <=> x = k
  BY <1>1 DEF Good, KingsOK
<1>3. m \in R!BoardMoves(p.board, p.nextPlayer, p.enPassantSquare)
  BY DEF RuleMoves
<1>4. /\ m.from \in Square /\ m.to \in Square /\ m.from # m.to
      /\ \E pt \in PieceType : p.board[m.from] = makePiece(us, pt)
      /\ m.type = PROMOTION => m.prom \in KNIGHT .. QUEEN
      /\ m.to # k /\ m.from # k
  <2>1. /\ m.from \in Square /\ m.to \in Square /\ m.from # m.to
        /\ \E pt \in PieceType : p.board[m.from] = makePiece(us, pt)
        /\ m.type = PROMOTION => m.prom \in KNIGHT .. QUEEN
        /\ \A pt \in PieceType : p.board[m.to] # makePiece(us, pt)
    BY <1>3, RulesMove
  <2> QED BY <1>2, <2>1, Kinds
<1>5. Gone(p, m) = {}
  BY DEF Gone
<1>6. Dropped(p, m) # makePiece(us, KING)
  <2>1. CASE m.type = PROMOTION
    <3>1. m.prom \in PieceType /\ m.prom # KING
      BY <1>4, <2>1 DEF PieceType, KING, KNIGHT, QUEEN
    <3> QED BY <1>1, <2>1, <3>1, Kinds DEF Dropped
  <2>2. CASE m.type # PROMOTION
    BY <2>2 DEF Dropped
  <2> QED BY <2>1, <2>2
<1>7. /\ Placement(there)
      /\ \A x \in Square : there[x] = IF x = m.to THEN Dropped(p, m)
                                      ELSE IF x = m.from THEN PIECE_NONE ELSE p.board[x]
  BY <1>3, <1>5, AfterIs
<1>8. /\ Occupies(there, after)
      /\ \A x \in Square : x \in after <=> x = m.to \/ (p.board[x] # PIECE_NONE /\ x # m.from)
  BY <1>3, <1>5, OccupiesAfter
<1>9. Placement(p.board) /\ Occupies(p.board, occ)
  BY BoardIs
<1>10. \A x \in Square : there[x] = makePiece(us, KING) <=> x = k
  BY <1>1, <1>2, <1>4, <1>6, <1>7, Kinds
<1>11. R!Attackers(there, k, them) = {}
  BY <1>1, <1>2, <1>10, KingFound
<1>12. PICK pt \in PieceType : s \in Square /\ p.board[s] = makePiece(them, pt) /\ s \in Strikers(occ, them, pt, k)
  BY <1>1, <1>2, <1>9, AttackersOf
<1>13. s \in occ
  BY <1>1, <1>9, <1>12, Kinds DEF Occupies
<1>14. CASE m.to # s
  <2>1. s # m.from
    BY <1>1, <1>4, <1>12, Kinds
  <2>2. there[s] = makePiece(them, pt)
    BY <1>7, <1>12, <1>14, <2>1
  <2>3. s \notin Strikers(after, them, pt, k)
    BY <1>1, <1>2, <1>7, <1>8, <1>11, <1>12, <2>2, AttackersOf
  <2> HIDE DEF occ, after, k, them
  <2>4. pt \in {BISHOP, ROOK, QUEEN}
    BY <1>2, <1>12, <2>3, StrikerBlocked
  <2>5. \E d \in Directions : \E n \in 1 .. 7 : \E i \in 1 .. n - 1 :
              /\ s = k + n * d /\ Free(d, k, n) /\ k + i * d \in after \ occ
              /\ \A j \in 1 .. n - 1 : k + j * d \notin occ
    BY <1>2, <1>12, <2>3, StrikerBlocked
  <2>6. PICK d \in Directions : \E n \in 1 .. 7 : \E i \in 1 .. n - 1 :
              /\ s = k + n * d /\ Free(d, k, n) /\ k + i * d \in after \ occ
              /\ \A j \in 1 .. n - 1 : k + j * d \notin occ
    BY <2>5
  <2>7. PICK n \in 1 .. 7 : \E i \in 1 .. n - 1 :
              /\ s = k + n * d /\ Free(d, k, n) /\ k + i * d \in after \ occ
              /\ \A j \in 1 .. n - 1 : k + j * d \notin occ
    BY <2>6
  <2>8. PICK i \in 1 .. n - 1 :
              /\ s = k + n * d /\ Free(d, k, n) /\ k + i * d \in after \ occ
              /\ \A j \in 1 .. n - 1 : k + j * d \notin occ
    BY <2>7
  <2>9. k + i * d \in Square
    BY <1>2, <2>8, SubLine
  <2>10. PICK x : x = k + i * d
    OBVIOUS
  <2>11. x = m.to
    BY <1>8, <1>9, <2>8, <2>9, <2>10 DEF Occupies
  <2>12. typeOf(p.board[s]) > KNIGHT
    <3>1. typeOf(p.board[s]) = pt
      BY <1>1, <1>12, PieceFacts DEF them
    <3>2. pt > KNIGHT
      BY <2>4 DEF KNIGHT, BISHOP, ROOK, QUEEN
    <3> QED BY <3>1, <3>2
  <2>13. /\ s = k + n * d /\ Free(d, k, n) /\ m.to = k + i * d /\ m.to \notin occ
         /\ \A j \in 1 .. n - 1 : k + j * d \notin occ
    BY <2>8, <2>10, <2>11
  <2>14. Met(occ, k, m.to, s)
    BY <2>13 DEF Met
  <2> QED BY <1>12, <1>13, <2>12, <2>14 DEF occ, k
<1> QED BY <1>12, <1>13, <1>14

\* One square blocks one attacker.
LEMMA OneAttacker ==
  ASSUME NEW occ, NEW k \in Square, NEW x, NEW a \in occ, NEW b \in occ, Met(occ, k, x, a), Met(occ, k, x, b)
  PROVE  a = b
<1>1. PICK d \in Directions : \E n \in 1 .. 7 : \E i \in 1 .. n - 1 :
        /\ a = k + n * d /\ Free(d, k, n) /\ x = k + i * d
        /\ \A j \in 1 .. n - 1 : k + j * d \notin occ
  BY DEF Met
<1>2. PICK n \in 1 .. 7 : \E i \in 1 .. n - 1 :
        /\ a = k + n * d /\ Free(d, k, n) /\ x = k + i * d
        /\ \A j \in 1 .. n - 1 : k + j * d \notin occ
  BY <1>1
<1>3. PICK i \in 1 .. n - 1 :
        /\ a = k + n * d /\ Free(d, k, n) /\ x = k + i * d
        /\ \A j \in 1 .. n - 1 : k + j * d \notin occ
  BY <1>2
<1>4. PICK e \in Directions : \E l \in 1 .. 7 : \E i_1 \in 1 .. l - 1 :
        /\ b = k + l * e /\ Free(e, k, l) /\ x = k + i_1 * e
        /\ \A j \in 1 .. l - 1 : k + j * e \notin occ
  BY DEF Met
<1>5. PICK l \in 1 .. 7 : \E i_1 \in 1 .. l - 1 :
        /\ b = k + l * e /\ Free(e, k, l) /\ x = k + i_1 * e
        /\ \A j \in 1 .. l - 1 : k + j * e \notin occ
  BY <1>4
<1>6. PICK h \in 1 .. l - 1 :
        /\ b = k + l * e /\ Free(e, k, l) /\ x = k + h * e
        /\ \A j \in 1 .. l - 1 : k + j * e \notin occ
  BY <1>5
<1>7. i \in 1 .. 7 /\ h \in 1 .. 7 /\ Free(d, k, i) /\ Free(e, k, h)
  BY <1>3, <1>6 DEF Free
<1>8. d = e
  <2>1. k + i * d = k + h * e
    BY <1>3, <1>6
  <2> QED BY <1>7, <2>1, OneLine
<1>9. n \notin 1 .. l - 1 /\ l \notin 1 .. n - 1
  BY <1>3, <1>6, <1>8
<1>10. n = l
  BY <1>9
<1> QED BY <1>3, <1>6, <1>8, <1>10

\* Out of check, every legal move is generated as an evasion.
LEMMA EvasionsSuffice ==
  ASSUME NEW p, Good(p), EnPassantSafe(p), InCheck(p), NEW m \in RuleMoves(p),
         ~R!Checked(R!After(p.board, p.nextPlayer, m), p.nextPlayer)
  PROVE  Evades(p, m)
<1> DEFINE us == p.nextPlayer
           them == Other(us)
           k == p.kingSquare[us]
           A == R!Attackers(p.board, k, them)
           occ == getOccupiedBb(p)
<1>1. us \in Color /\ them \in Color /\ us # them /\ Other(them) = us
  BY BitboardsAre, OtherColor
<1>2. k \in Square /\ p.board[k] = makePiece(us, KING)
  BY <1>1 DEF Good, KingsOK
<1>3. CASE p.board[m.from] = makePiece(us, KING)
  BY <1>3, KingEvades DEF Evades
<1>4. CASE m.type = ENPASSANT /\ p.board[m.from] # makePiece(us, KING)
  BY <1>4 DEF Evades
<1>5. CASE m.type # ENPASSANT /\ p.board[m.from] # makePiece(us, KING)
  <2>1. attacksTo(p, k, them) = A
    <3>1. Passers(p, k, them) = {}
      <4>1. SUFFICES ASSUME p.enPassantSquare # SQ_NONE, k = p.enPassantSquare + pawnPush(us) PROVE FALSE
        BY <1>1 DEF Passers
      <4>2. p.board[k] = PIECE_NONE
        BY <4>1 DEF EnPassantSafe
      <4> QED BY <1>1, <1>2, <4>2, Kinds
    <3>2. attacksTo(p, k, them) = A \cup Passers(p, k, them)
      BY <1>1, <1>2, AttacksToAre
    <3> QED BY <3>1, <3>2
  <2>2. A # {}
    BY <1>1, KingChecked DEF InCheck
  <2>3. \A s \in A : /\ s \in Square /\ s \in occ
                     /\ m.to = s \/ (typeOf(p.board[s]) > KNIGHT /\ Met(occ, k, m.to, s))
    BY <1>5, AttackerMet
  <2> HIDE DEF A
  <2>4. ASSUME NEW a \in A, NEW b \in A PROVE a = b
    <3>1. CASE m.to \in occ
      <4>1. m.to = a /\ m.to = b
        <5>1. \A s : ~Met(occ, k, m.to, s)
          BY <3>1 DEF Met
        <5> QED BY <2>3, <5>1
      <4> QED BY <4>1
    <3>2. CASE m.to \notin occ
      <4>1. a \in occ /\ b \in occ /\ Met(occ, k, m.to, a) /\ Met(occ, k, m.to, b)
        BY <2>3, <3>2
      <4> QED BY <1>2, <4>1, OneAttacker
    <3> QED BY <3>1, <3>2
  <2>5. PICK a \in A : A = {a}
    BY <2>2, <2>4
  <2>6. Cardinality(attacksTo(p, k, them)) = 1
    BY <2>1, <2>5, FS_Singleton
  <2>7. getEvasionTargets(p) = {a} \cup UNION {intermediateBb[s][k] : s \in {z \in {a} : typeOf(p.board[z]) > KNIGHT}}
    <3>1. ~(Cardinality(attacksTo(p, k, them)) > 1)
      BY <2>6
    <3> QED BY <2>1, <2>5, <3>1 DEF getEvasionTargets
  <2>8. CASE m.to = a
    BY <1>5, <2>7, <2>8 DEF Evades
  <2>9. CASE m.to # a
    <3>1. typeOf(p.board[a]) > KNIGHT /\ Met(occ, k, m.to, a)
      BY <2>3, <2>9
    <3> HIDE DEF occ, k
    <3>2. PICK d \in Directions : \E n \in 1 .. 7 : \E i \in 1 .. n - 1 :
                       a = k + n * d /\ Free(d, k, n) /\ m.to = k + i * d
      BY <3>1 DEF Met
    <3>3. PICK n \in 1 .. 7 : \E i \in 1 .. n - 1 :
                       a = k + n * d /\ Free(d, k, n) /\ m.to = k + i * d
      BY <3>2
    <3>4. PICK i \in 1 .. n - 1 : a = k + n * d /\ Free(d, k, n) /\ m.to = k + i * d
      BY <3>3
    <3>5. -d \in Directions /\ Free(-d, a, n)
      BY <1>2, <3>4, Back DEF k
    <3>6. a \in Square
      BY <2>3
    <3>7. n - i \in 1 .. n - 1 /\ a + (n - i) * (-d) = m.to /\ a + n * (-d) = k
      <4>1. k \in Int /\ d \in Int /\ n \in Int /\ i \in Int
        BY <1>2, DirectionsAre DEF Square, k
      <4> QED BY <3>4, <4>1
    <3>8. m.to \in intermediateBb[a][a + n * (-d)]
      <4>1. PICK e : e = -d
        OBVIOUS
      <4>2. e \in Directions /\ Free(e, a, n) /\ \E h \in 1 .. n - 1 : m.to = a + h * e
        BY <3>5, <3>7, <4>1
      <4>3. m.to \in intermediateBb[a][a + n * e]
        BY <3>6, <4>2, IntermediateIs
      <4> QED BY <4>1, <4>3
    <3>9. m.to \in intermediateBb[a][k]
      BY <3>7, <3>8
    <3>10. m.to \in getEvasionTargets(p)
      BY <2>7, <3>1, <3>9
    <3> QED BY <1>5, <3>10 DEF Evades
  <2> QED BY <2>8, <2>9
<1> QED BY <1>3, <1>4, <1>5

-----------------------------------------------------------------------------
(* hasLegalMove: the moves it tries. *)

\* No attack leaves the board.
LEMMA AttacksOnBoard ==
  ASSUME NEW pt \in PieceType, NEW s \in Square, NEW occ
  PROVE  getAttacksBb(pt, s, occ) \subseteq Square
<1>1. ASSUME NEW dirs, dirs \subseteq Directions, NEW t, Slides(dirs, s, occ, t) PROVE t \in Square
  <2>1. PICK d \in dirs : \E n \in 1 .. 7 : t = s + n * d /\ Free(d, s, n)
    BY <1>1 DEF Slides
  <2>2. PICK n \in 1 .. 7 : t = s + n * d /\ Free(d, s, n)
    BY <2>1
  <2>3. d \in Directions /\ n \in 0 .. 7 /\ n \in 0 .. n
    BY <1>1
  <2>4. s + n * d \in Square
    BY <2>2, <2>3, Line
  <2> QED BY <2>2, <2>4
<1>2. bishopAttacks(s, occ) \subseteq Square /\ rookAttacks(s, occ) \subseteq Square
  BY <1>1, DirectionSets, SlidersSlide
<1>3. kingAttacks[s] \subseteq Square /\ knightAttacks[s] \subseteq Square
  BY DEF kingAttacks, knightAttacks, Jumps
<1> QED BY <1>2, <1>3 DEF getAttacksBb

\* the moves hasLegalMove tries
Candidates(p) ==
    LET us == p.nextPlayer
        Normal(from, to) == createMove(from, to, NORMAL)
    IN {Normal(p.kingSquare[us], t) : t \in kingAttacks[p.kingSquare[us]] \ p.occupiedBb[us]}
       \cup {Normal(t - 2 * pawnPush(us), t) : t \in Doubles(p)}
       \cup {Normal(t - pawnPush(us), t) : t \in Singles(p)}
       \cup (UNION {{Normal(t - pawnPush(us) - dir, t) : t \in Takes(p, dir)} : dir \in {WEST, EAST}})
       \cup (UNION {{Normal(from, t) :
                       t \in getAttacksBb(typeOf(p.board[from]), from, getOccupiedBb(p)) \ p.occupiedBb[us]} :
                       from \in UNION {p.piecesBb[us][pt] : pt \in KNIGHT .. QUEEN}})
       \cup UNION {{createMove(s, s + pawnPush(us) - dir, ENPASSANT) : s \in Passing(p, dir)} : dir \in {WEST, EAST}}

\* hasLegalMove asks isLegalMove for each of them.
LEMMA CandidatesTried == \A p : hasLegalMove(p) <=> \E m \in Candidates(p) : isLegalMove(p, m)
BY DEF hasLegalMove, Candidates, Singles, Doubles, Takes, Passing

\* They are the moves of the rules, but for what a pawn is promoted to.
LEMMA CandidatesAre ==
  ASSUME NEW p, Good(p), NEW m
  PROVE  m \in Candidates(p) <=>
           \/ PawnReaches(p, m.from, m.to) /\ m = createMove(m.from, m.to, NORMAL)
           \/ PassesTo(p, m.from, m.to) /\ m = createMove(m.from, m.to, ENPASSANT)
           \/ \E pt \in {KING} \cup (KNIGHT .. QUEEN) : Goes(p, pt, m)
<1> DEFINE us == p.nextPlayer
           push == pawnPush(us)
           k == p.kingSquare[us]
           ours == p.occupiedBb[us]
           occ == getOccupiedBb(p)
           officers == UNION {p.piecesBb[us][pt] : pt \in KNIGHT .. QUEEN}
           plain == m = createMove(m.from, m.to, NORMAL)
           Kings == {createMove(k, t, NORMAL) : t \in kingAttacks[k] \ ours}
           Leaps == {createMove(t - 2 * push, t, NORMAL) : t \in Doubles(p)}
           Pushed == {createMove(t - push, t, NORMAL) : t \in Singles(p)}
           Captured(dir) == {createMove(t - push - dir, t, NORMAL) : t \in Takes(p, dir)}
           Officer(from) == {createMove(from, t, NORMAL) : t \in getAttacksBb(typeOf(p.board[from]), from, occ) \ ours}
           AlongSide(dir) == {createMove(s, s + push - dir, ENPASSANT) : s \in Passing(p, dir)}
<1>1. us \in Color /\ KING \in PieceType /\ push \in {8, -8} /\ push \in Int
  BY PawnsAre, Kinds, Pushes
<1>2. k \in Square /\ \A s \in Square : p.board[s] = makePiece(us, KING) <=> s = k
  BY <1>1 DEF Good, KingsOK
<1>3. m \in Candidates(p) <=>
        \/ m \in Kings \/ m \in Leaps \/ m \in Pushed
        \/ \E dir \in {WEST, EAST} : m \in Captured(dir)
        \/ \E from \in officers : m \in Officer(from)
        \/ \E dir \in {WEST, EAST} : m \in AlongSide(dir)
  <2>1. Candidates(p) = Kings \cup Leaps \cup Pushed \cup (UNION {Captured(dir) : dir \in {WEST, EAST}})
                          \cup (UNION {Officer(from) : from \in officers})
                          \cup (UNION {AlongSide(dir) : dir \in {WEST, EAST}})
    BY DEF Candidates
  <2> HIDE DEF Kings, Leaps, Pushed, Captured, Officer, AlongSide, officers
  <2> QED BY <2>1
<1>4. \A s, t, type : m = createMove(s, t, type) <=> m.from = s /\ m.to = t /\ m = createMove(m.from, m.to, type)
  BY MoveMade
<1>5. \A t : t \in Square \ ours <=> t \in Square /\ (t \in Theirs(p) \/ p.board[t] = PIECE_NONE)
  <2>1. ours = R!Army(p.board, us)
    BY ArmiesAre
  <2>2. \A t \in Square : t \in ours => p.board[t] # PIECE_NONE
    BY <1>1, <2>1, ArmiesAre, Kinds
  <2>3. \A t \in Square : t \in Theirs(p) <=> p.board[t] # PIECE_NONE /\ t \notin ours
    BY <2>1, ArmiesAre
  <2> QED BY <2>2, <2>3
<1>6. m \in Kings <=> Goes(p, KING, m)
  <2>1. m \in Kings <=> m.from = k /\ m.to \in kingAttacks[k] \ ours /\ plain
    BY <1>4
  <2>2. kingAttacks[k] \subseteq Square /\ getAttacksBb(KING, k, occ) = kingAttacks[k]
    BY <1>1, <1>2, KingAttacksAre, AttacksOnBoard
  <2> HIDE DEF Kings, ours, k, us, plain
  <2>3. Goes(p, KING, m) <=> m.from = k /\ m.to \in Square \ ours /\ m.to \in kingAttacks[k] /\ plain
    BY <1>2, <1>5, <2>2 DEF Goes, us, plain
  <2> QED BY <2>1, <2>2, <2>3
<1>7a. (\E from \in officers : m \in Officer(from)) <=> \E pt \in KNIGHT .. QUEEN : Goes(p, pt, m)
  <2>1. KNIGHT .. QUEEN \subseteq PieceType
    BY TypeSets
  <2>2. \A pt \in PieceType : \A s : s \in p.piecesBb[us][pt] <=> s \in Square /\ p.board[s] = makePiece(us, pt)
    BY <1>1, BitboardsAre DEF Placed
  <2>3. \A from : m \in Officer(from) <=>
          m.from = from /\ m.to \in getAttacksBb(typeOf(p.board[from]), from, occ) \ ours /\ plain
    BY <1>4
  <2>4. \A pt \in PieceType, s \in Square : p.board[s] = makePiece(us, pt) =>
           typeOf(p.board[s]) = pt /\ getAttacksBb(pt, s, occ) \subseteq Square
    BY <1>1, PieceFacts, AttacksOnBoard
  <2>5. \A pt \in KNIGHT .. QUEEN : Goes(p, pt, m) <=>
          m.from \in p.piecesBb[us][pt] /\ m.to \in getAttacksBb(pt, m.from, occ) \ ours /\ plain
    <3> TAKE pt \in KNIGHT .. QUEEN
    <3>1. PICK q : q = pt
      OBVIOUS
    <3>2. q \in PieceType
      BY <2>1, <3>1
    <3> HIDE DEF ours, occ, us
    <3>3. m.from \in Square /\ p.board[m.from] = makePiece(us, q) /\ m.to \in getAttacksBb(q, m.from, occ) =>
            m.to \in Square
      BY <2>4, <3>2
    <3>4. Goes(p, q, m) <=>
          m.from \in p.piecesBb[us][q] /\ m.to \in getAttacksBb(q, m.from, occ) \ ours /\ plain
      BY <1>5, <2>2, <3>2, <3>3 DEF Goes, occ, us
    <3> QED BY <3>1, <3>4
  <2> HIDE DEF ours, occ, us, plain
  <2>6. \A from : from \in officers <=> \E pt \in KNIGHT .. QUEEN : from \in p.piecesBb[us][pt]
    BY DEF officers
  <2> HIDE DEF officers, Officer
  <2>7. \A pt \in KNIGHT .. QUEEN : m.from \in p.piecesBb[us][pt] => typeOf(p.board[m.from]) = pt
    BY <2>1, <2>2, <2>4
  <2> QED BY <2>3, <2>5, <2>6, <2>7
<1>8. m \in Leaps <=> Jumpers(p, m) /\ plain
  <2>1. m \in Leaps <=> m.to \in Doubles(p) /\ m.from = m.to - 2 * push /\ plain
    BY <1>4
  <2>2. m.to \in Doubles(p) => m.to \in Int
    BY DoublesAre DEF Square
  <2> HIDE DEF Leaps, plain
  <2> QED BY <1>1, <2>1, <2>2 DEF Jumpers
<1>9. m \in Pushed <=> Steppers(p, m) /\ plain
  <2>1. m \in Pushed <=> m.to \in Singles(p) /\ m.from = m.to - push /\ plain
    BY <1>4
  <2>2. m.to \in Singles(p) => m.to \in Int
    BY SinglesAre DEF Square
  <2> HIDE DEF Pushed, plain
  <2> QED BY <1>1, <2>1, <2>2 DEF Steppers
<1>10. (\E dir \in {WEST, EAST} : m \in Captured(dir)) <=> Takers(p, m) /\ plain
  <2>1. ASSUME NEW dir \in {WEST, EAST}
        PROVE  m \in Captured(dir) <=> m.to \in Takes(p, dir) /\ m.from = m.to - (push + dir) /\ plain
    <3>1. m \in Captured(dir) <=> m.to \in Takes(p, dir) /\ m.from = m.to - push - dir /\ plain
      BY <1>4
    <3>2. m.to \in Takes(p, dir) => m.to \in Int
      BY DEF Takes, shiftBb, Square
    <3> HIDE DEF Captured, plain
    <3>3. m.to \in Int => m.to - push - dir = m.to - (push + dir)
      BY <1>1, <2>1, DirectionsOfPawns
    <3> HIDE DEF push
    <3> QED BY <3>1, <3>2, <3>3
  <2> HIDE DEF Captured, plain
  <2> QED BY <2>1 DEF Takers
<1>11. (\E dir \in {WEST, EAST} : m \in AlongSide(dir)) <=> PassesTo(p, m.from, m.to) /\ m = createMove(m.from, m.to, ENPASSANT)
  <2>1. \A dir : m \in AlongSide(dir) <=>
          /\ m.from \in Passing(p, dir) /\ m.to = m.from + push - dir
          /\ m = createMove(m.from, m.to, ENPASSANT)
    BY <1>4
  <2> HIDE DEF AlongSide
  <2> QED BY <2>1, PassingReach
<1>12. PawnReaches(p, m.from, m.to) <=> Jumpers(p, m) \/ Steppers(p, m) \/ Takers(p, m)
  BY PushesReach, TakesReach DEF Jumpers, Steppers, Takers
<1> HIDE DEF Kings, Leaps, Pushed, Captured, Officer, AlongSide, officers, plain
<1>13. (\E pt \in {KING} \cup (KNIGHT .. QUEEN) : Goes(p, pt, m)) <=>
         Goes(p, KING, m) \/ \E pt \in KNIGHT .. QUEEN : Goes(p, pt, m)
  OBVIOUS
<1>14. /\ PawnReaches(p, m.from, m.to) /\ plain <=> (Jumpers(p, m) /\ plain) \/ (Steppers(p, m) /\ plain) \/ (Takers(p, m) /\ plain)
  BY <1>12
<1> QED BY <1>3, <1>6, <1>7a, <1>8, <1>9, <1>10, <1>11, <1>13, <1>14 DEF plain

-----------------------------------------------------------------------------

\* A promotion tried as a plain move of the pawn is as legal as the promotion.
LEMMA PromotionTried ==
  ASSUME NEW p, Good(p), ~KingCapturable(p), NEW r \in RuleMoves(p), r.type = PROMOTION,
         NEW m, m = createMove(r.from, r.to, NORMAL)
  PROVE  isLegalMove(p, m) <=> ~R!Checked(R!After(p.board, p.nextPlayer, r), p.nextPlayer)
<1> DEFINE us == p.nextPlayer
           them == Other(us)
           there == R!After(p.board, us, r)
           k == p.kingSquare[us]
           after == OccupiedAfter(p, r)
<1>1. us \in Color /\ them \in Color /\ us # them /\ Other(them) = us
  BY BitboardsAre, OtherColor
<1>2. k \in Square /\ \A x \in Square : p.board[x] = makePiece(us, KING) <=> x = k
  BY <1>1 DEF Good, KingsOK
<1>3. r \in R!BoardMoves(p.board, p.nextPlayer, p.enPassantSquare)
  BY DEF RuleMoves
<1>4. m.from = r.from /\ m.to = r.to /\ m.type = NORMAL /\ m.type # CASTLING
  BY Made, Types
<1>5. /\ r.from \in Square /\ r.to \in Square /\ r.from # r.to
      /\ p.board[r.from] = makePiece(us, PAWN) /\ r.prom \in KNIGHT .. QUEEN
      /\ \A pt \in PieceType : p.board[r.to] # makePiece(us, pt)
  BY <1>3, RulesMove
<1>6. PawnTakes(p, r) \/ PawnSteps(p, r)
  <2>1. Generated(p, r)
    BY PseudoAre, PseudoGenerated
  <2> QED BY <2>1, Types DEF Generated, PawnPasses, PawnJumps, PieceGoes, KingGoes, Castles
<1>7. Generated(p, m)
  BY <1>4, <1>6 DEF Generated, PawnTakes, PawnSteps, Stepper, Ordinary
<1>8. MoveShape(p, m) /\ p.board[m.to] # makePiece(them, KING)
  BY <1>4, <1>7, GeneratedShape, KingStays
<1>9. PICK q : q = doMove(p, m)
  OBVIOUS
<1>10. Good(q)
  BY <1>4, <1>8, <1>9, GoodStays
<1>11. isLegalMove(p, m) <=> ~R!Checked(q.board, us)
  <2>1. ~CastlingPathAttacked(p, m, them)
    BY <1>4 DEF CastlingPathAttacked
  <2> QED BY <1>8, <1>9, <1>10, <2>1, LegalityIs
<1>12. Placement(q.board) /\ Placement(p.board)
  BY <1>10 DEF Good, BoardOK, Placement
<1>13. \A x \in Square : q.board[x] = IF x = r.to THEN makePiece(us, PAWN)
                                      ELSE IF x = r.from THEN PIECE_NONE ELSE p.board[x]
  <2>1. Linked(p, m, q)
    BY <1>8, <1>9, GoodReady, DoLinks
  <2>2. PICK t \in PieceType : p.board[m.from] = makePiece(us, t) /\ IsNormal(p, m, q, t)
    BY <1>4, <2>1, Types DEF Linked
  <2>3. q.board = [p.board EXCEPT ![r.from] = PIECE_NONE, ![r.to] = makePiece(us, t)]
    BY <1>4, <2>2 DEF IsNormal
  <2>4. makePiece(us, t) = makePiece(us, PAWN)
    BY <1>4, <1>5, <2>2
  <2> HIDE DEF us
  <2> QED BY <1>5, <1>12, <2>3, <2>4 DEF Placement
<1>14. /\ Placement(there)
       /\ \A x \in Square : there[x] = IF x = r.to THEN makePiece(us, r.prom)
                                       ELSE IF x = r.from THEN PIECE_NONE ELSE p.board[x]
  <2>1. Gone(p, r) = {} /\ Dropped(p, r) = makePiece(us, r.prom)
    BY Types, Types DEF Gone, Dropped
  <2> QED BY <1>3, <2>1, AfterIs
<1>15. Occupies(there, after)
  BY <1>3, OccupiesAfter
<1>16. r.prom \in PieceType /\ r.prom # KING
  BY <1>5 DEF PieceType, KING, KNIGHT, QUEEN
<1> HIDE DEF us, them, there, k, after
<1>17. Occupies(q.board, after)
  <2>1. makePiece(us, PAWN) # PIECE_NONE /\ makePiece(us, r.prom) # PIECE_NONE
    BY <1>1, <1>16, Kinds
  <2>2. \A x \in Square : q.board[x] # PIECE_NONE <=> there[x] # PIECE_NONE
    BY <1>13, <1>14, <2>1
  <2> QED BY <1>15, <2>2 DEF Occupies
<1>18. \A x \in Square : \A pt \in PieceType : q.board[x] = makePiece(them, pt) <=> there[x] = makePiece(them, pt)
  <2>1. \A pt \in PieceType : makePiece(us, PAWN) # makePiece(them, pt) /\ makePiece(us, r.prom) # makePiece(them, pt)
    BY <1>1, <1>16, Kinds
  <2> QED BY <1>13, <1>14, <2>1
<1>19. R!Attackers(q.board, k, them) = R!Attackers(there, k, them)
  <2>1. \A x : x \in R!Attackers(q.board, k, them) <=> x \in R!Attackers(there, k, them)
    BY <1>1, <1>2, <1>12, <1>14, <1>15, <1>17, <1>18, AttackersOf
  <2>2. R!Attackers(q.board, k, them) \subseteq Square /\ R!Attackers(there, k, them) \subseteq Square
    BY RulesBoard DEF R!Attackers, R!Army
  <2> QED BY <2>1, <2>2
<1>20. /\ \A x \in Square : q.board[x] = makePiece(us, KING) <=> x = k
       /\ \A x \in Square : there[x] = makePiece(us, KING) <=> x = k
  <2>1. makePiece(us, PAWN) # makePiece(us, KING) /\ makePiece(us, r.prom) # makePiece(us, KING)
        /\ PIECE_NONE # makePiece(us, KING)
    BY <1>1, <1>16, Kinds
  <2>2. k # r.from /\ k # r.to
    BY <1>2, <1>5, <2>1, Kinds DEF us
  <2> QED BY <1>2, <1>13, <1>14, <2>1, <2>2
<1>21. R!Checked(q.board, us) <=> R!Checked(there, us)
  BY <1>1, <1>2, <1>19, <1>20, KingFound DEF them
<1> QED BY <1>11, <1>21 DEF us, there

-----------------------------------------------------------------------------
\* the move does not leave the player's own king in check
Lawful(p, m) == ~R!Checked(R!After(p.board, p.nextPlayer, m), p.nextPlayer)

\* hasLegalMove finds a move if there is one other than castling.
LEMMA BoardMoveFound ==
  ASSUME NEW p, Good(p), ~KingCapturable(p)
  PROVE  hasLegalMove(p) <=> \E r \in RuleMoves(p) : Lawful(p, r)
<1> DEFINE us == p.nextPlayer
<1>1. us \in Color
  BY PawnsAre
<1>2. {KING} \cup (KNIGHT .. QUEEN) = PieceType \ {PAWN} /\ QUEEN \in KNIGHT .. QUEEN
  BY DEF PieceType, KING, PAWN, KNIGHT, QUEEN
<1>3. \A m \in RuleMoves(p) : isLegalMove(p, m) <=> Lawful(p, m)
  BY BoardMoveLegal DEF Lawful
<1>4. ASSUME NEW pt \in PieceType \ {PAWN}, NEW m, p.board[m.from] = makePiece(us, pt)
      PROVE  m \in RuleMoves(p) <=> Goes(p, pt, m)
  BY <1>4, RulePieceMoves
<1>5. ASSUME NEW s, NEW t, NEW r, r = createPromotion(s, t, QUEEN)
      PROVE  r.from = s /\ r.to = t /\ r.prom = QUEEN /\ r.type = PROMOTION
             /\ r = createPromotion(r.from, r.to, r.prom)
  BY <1>5 DEF createPromotion, createMove
<1>6. ASSUME NEW m \in Candidates(p), isLegalMove(p, m)
      PROVE  \E r \in RuleMoves(p) : Lawful(p, r)
  <2>1. CASE PawnReaches(p, m.from, m.to) /\ m = createMove(m.from, m.to, NORMAL)
    <3>1. p.board[m.from] = makePiece(us, PAWN)
      BY <2>1 DEF PawnReaches
    <3>2. CASE rankOf(m.to) # promotionRank(us)
      <4>1. m \in RuleMoves(p)
        BY <2>1, <3>2, RulePawnMoves
      <4> QED BY <1>3, <1>6, <4>1
    <3>3. CASE rankOf(m.to) = promotionRank(us)
      <4>1. PICK r : r = createPromotion(m.from, m.to, QUEEN)
        OBVIOUS
      <4>2. /\ r.from = m.from /\ r.to = m.to /\ r.prom = QUEEN /\ r.type = PROMOTION
            /\ r = createPromotion(r.from, r.to, r.prom)
        BY <1>5, <4>1
      <4>3. r \in RuleMoves(p)
        BY <1>2, <2>1, <3>3, <4>2, RulePawnMoves
      <4>4. m = createMove(r.from, r.to, NORMAL)
        BY <2>1, <4>2
      <4> QED BY <1>6, <4>2, <4>3, <4>4, PromotionTried DEF Lawful
    <3> QED BY <3>2, <3>3
  <2>2. CASE PassesTo(p, m.from, m.to) /\ m = createMove(m.from, m.to, ENPASSANT)
    <3>1. m \in RuleMoves(p)
      BY <2>2, RulePawnMoves
    <3> QED BY <1>3, <1>6, <3>1
  <2>3. CASE \E pt \in {KING} \cup (KNIGHT .. QUEEN) : Goes(p, pt, m)
    <3>1. PICK pt \in PieceType \ {PAWN} : Goes(p, pt, m)
      BY <1>2, <2>3
    <3>2. m \in RuleMoves(p)
      BY <1>4, <3>1 DEF Goes
    <3> QED BY <1>3, <1>6, <3>2
  <2> QED BY <1>6, <2>1, <2>2, <2>3, CandidatesAre
<1>7. ASSUME NEW r \in RuleMoves(p), Lawful(p, r)
      PROVE  \E m \in Candidates(p) : isLegalMove(p, m)
  <2>1. PICK pt \in PieceType : p.board[r.from] = makePiece(us, pt)
    BY RulesMove DEF RuleMoves
  <2>2. CASE pt = PAWN
    <3>1. CASE PawnReaches(p, r.from, r.to) /\ rankOf(r.to) = promotionRank(us) /\ r.prom \in KNIGHT .. QUEEN
                 /\ r = createPromotion(r.from, r.to, r.prom)
      <4>1. PICK m : m = createMove(r.from, r.to, NORMAL)
        OBVIOUS
      <4>2. m.from = r.from /\ m.to = r.to /\ m = createMove(m.from, m.to, NORMAL)
        BY <4>1, Made
      <4>3. m \in Candidates(p)
        BY <3>1, <4>2, CandidatesAre
      <4>4. r.type = PROMOTION
        BY <3>1 DEF createPromotion, createMove
      <4> QED BY <1>7, <4>1, <4>3, <4>4, PromotionTried DEF Lawful
    <3>2. CASE PawnReaches(p, r.from, r.to) /\ r = createMove(r.from, r.to, NORMAL)
      <4>1. r \in Candidates(p)
        BY <3>2, CandidatesAre
      <4> QED BY <1>3, <1>7, <4>1
    <3>3. CASE PassesTo(p, r.from, r.to) /\ r = createMove(r.from, r.to, ENPASSANT)
      <4>1. r \in Candidates(p)
        BY <3>3, CandidatesAre
      <4> QED BY <1>3, <1>7, <4>1
    <3> QED BY <1>7, <2>1, <2>2, <3>1, <3>2, <3>3, RulePawnMoves
  <2>3. CASE pt # PAWN
    <3>1. Goes(p, pt, r)
      BY <1>4, <2>1, <2>3
    <3>2. r \in Candidates(p)
      BY <1>2, <2>3, <3>1, CandidatesAre
    <3> QED BY <1>3, <1>7, <3>2
  <2> QED BY <2>2, <2>3
<1> QED BY <1>6, <1>7, CandidatesTried

\* A line of attack through a piece that is taken away reaches that piece first.
LEMMA SlidesThrough ==
  ASSUME NEW dirs, dirs \subseteq Directions, NEW t \in Square, NEW occ, NEW after, NEW k,
         occ \subseteq after \cup {k}, NEW s, Slides(dirs, t, after, s)
  PROVE  Slides(dirs, t, occ, s) \/ Slides(dirs, k, occ, s)
<1>1. PICK d \in dirs : \E n \in 1 .. 7 : s = t + n * d /\ Free(d, t, n) /\ \A i \in 1 .. n - 1 : t + i * d \notin after
  BY DEF Slides
<1>2. PICK n \in 1 .. 7 : s = t + n * d /\ Free(d, t, n) /\ \A i \in 1 .. n - 1 : t + i * d \notin after
  BY <1>1
<1>3. d \in Directions
  OBVIOUS
<1>4. CASE \E i \in 1 .. n - 1 : t + i * d = k
  <2>1. PICK i \in 1 .. n - 1 : t + i * d = k
    BY <1>4
  <2>2. /\ k \in Square /\ n - i \in 1 .. 7 /\ Free(d, k, n - i)
        /\ \A j \in 1 .. n - i : k + j * d = t + (i + j) * d
    BY <1>2, <1>3, <2>1, SubLine
  <2>3. PICK l : l = n - i
    OBVIOUS
  <2>4. l \in 1 .. 7 /\ Free(d, k, l) /\ s = k + l * d
    <3>1. l \in 1 .. n - i /\ i + l = n
      BY <2>2, <2>3
    <3> QED BY <1>2, <2>2, <2>3, <3>1
  <2>5. ASSUME NEW j \in 1 .. l - 1 PROVE k + j * d \notin occ
    <3>1. j \in 1 .. n - i /\ i + j \in 1 .. n - 1
      BY <2>3
    <3>2. k + j * d \notin after
      BY <1>2, <2>2, <3>1
    <3>3. k + j * d # k
      BY <1>3, <2>2, <2>4, BetweenEnds
    <3> QED BY <3>2, <3>3
  <2> QED BY <2>4, <2>5 DEF Slides
<1>5. CASE \A i \in 1 .. n - 1 : t + i * d # k
  <2>1. \A i \in 1 .. n - 1 : t + i * d \notin occ
    BY <1>2, <1>5
  <2> QED BY <1>2, <2>1 DEF Slides
<1> QED BY <1>4, <1>5

-----------------------------------------------------------------------------

\* The king may go where it would cross: whoever castles may also step aside.
LEMMA StepsAside ==
  ASSUME NEW p, Good(p), NEW king, NEW e, AtHome(p, king, e),
         \A i \in 0 .. 2 : R!Attackers(p.board, king + i * e, Other(p.nextPlayer)) = {}
  PROVE  \E r \in RuleMoves(p) : Lawful(p, r)
<1> DEFINE us == p.nextPlayer
           them == Other(us)
           t == king + e
           occ == getOccupiedBb(p)
           r == createMove(king, t, NORMAL)
           there == R!After(p.board, us, r)
           after == OccupiedAfter(p, r)
<1>1. us \in Color /\ them \in Color /\ them # us /\ Other(them) = us
  BY PawnsAre, OtherColor
<1>2. king \in {4, 60} /\ e \in {1, -1} /\ king \in Square /\ t \in Square /\ king # t
  BY CastlingPlaces
<1>3. p.board[king] = makePiece(us, KING) /\ p.board[t] = PIECE_NONE
  BY DEF AtHome
<1>4. R!Attackers(p.board, king, them) = {} /\ R!Attackers(p.board, t, them) = {}
  <2>1. king + 0 * e = king /\ king + 1 * e = t /\ 0 \in 0 .. 2 /\ 1 \in 0 .. 2
    BY <1>2
  <2> QED BY <2>1
<1>5. t \in kingAttacks[king]
  <2>1. distance(t, king) = 1
    <3>1. /\ distance(5, 4) = 1 /\ distance(3, 4) = 1
          /\ distance(61, 60) = 1 /\ distance(59, 60) = 1
      BY DEF distance, Larger, Gap, fileOf, rankOf
    <3>2. <<t, king>> \in {<<5, 4>>, <<3, 4>>, <<61, 60>>, <<59, 60>>}
      BY <1>2
    <3> HIDE DEF t
    <3> QED BY <3>1, <3>2
  <2> QED BY <1>2, <2>1, JumpsByRules
<1>6. r.from = king /\ r.to = t /\ r.type = NORMAL /\ r = createMove(r.from, r.to, NORMAL)
  BY Made
<1>7. r \in RuleMoves(p)
  <2> HIDE DEF r, t, us
  <2>1. Goes(p, KING, r)
    BY <1>2, <1>3, <1>5, <1>6, KingAttacksAre DEF Goes, us
  <2> QED BY <1>3, <1>6, <2>1, RulePieceMoves, Kinds DEF us
<1>8. r \in R!BoardMoves(p.board, us, p.enPassantSquare)
  BY <1>7 DEF RuleMoves
<1> HIDE DEF r
<1>9. Gone(p, r) = {} /\ Dropped(p, r) = makePiece(us, KING)
  BY <1>3, <1>6, Types DEF Gone, Dropped
<1>10. /\ Placement(there)
       /\ \A s \in Square : there[s] = IF s = t THEN makePiece(us, KING)
                                       ELSE IF s = king THEN PIECE_NONE ELSE p.board[s]
  BY <1>6, <1>8, <1>9, AfterIs
<1>11. /\ Occupies(there, after)
       /\ \A s \in Square : s \in after <=> s = t \/ (p.board[s] # PIECE_NONE /\ s # king)
  BY <1>6, <1>8, <1>9, OccupiesAfter
<1>12. Placement(p.board) /\ Occupies(p.board, occ) /\ occ \subseteq Square
  BY BoardIs, PawnsAre
<1>13. occ \subseteq after \cup {king}
  BY <1>11, <1>12 DEF Occupies
<1>14. \A s \in Square : there[s] = makePiece(us, KING) <=> s = t
  <2>1. \A s \in Square : p.board[s] = makePiece(us, KING) => s = king
    <3>1. \A s \in Square : p.board[s] = makePiece(us, KING) <=> s = p.kingSquare[us]
      BY <1>1 DEF Good, KingsOK
    <3> QED BY <1>2, <1>3, <3>1
  <2> QED BY <1>1, <1>10, <2>1, Kinds
<1> HIDE DEF us, them, t, occ, there, after
<1>15. R!Attackers(there, t, them) = {}
  <2>1. SUFFICES ASSUME NEW s \in R!Attackers(there, t, them) PROVE FALSE
    OBVIOUS
  <2>2. PICK pt \in PieceType : s \in Square /\ there[s] = makePiece(them, pt) /\ s \in Strikers(after, them, pt, t)
    BY <1>1, <1>2, <1>10, <1>11, <2>1, AttackersOf
  <2>3. p.board[s] = makePiece(them, pt)
    <3>1. makePiece(them, pt) # makePiece(us, KING) /\ makePiece(them, pt) # PIECE_NONE
      BY <1>1, Kinds
    <3> QED BY <1>10, <2>2, <3>1
  <2>4. /\ s \in bishopAttacks(t, after) => s \in bishopAttacks(t, occ) \/ s \in bishopAttacks(king, occ)
        /\ s \in rookAttacks(t, after) => s \in rookAttacks(t, occ) \/ s \in rookAttacks(king, occ)
    BY <1>2, <1>13, DirectionSets, SlidersSlide, SlidesThrough
  <2>5. pt \in {KING, PAWN, KNIGHT, BISHOP, ROOK, QUEEN}
    BY DEF PieceType, KING, PAWN, KNIGHT, BISHOP, ROOK, QUEEN
  <2>6. s \in Strikers(occ, them, pt, t) \/ s \in Strikers(occ, them, pt, king)
    BY <2>2, <2>4, <2>5, StrikersAre
  <2>7. s \in R!Attackers(p.board, t, them) \/ s \in R!Attackers(p.board, king, them)
    BY <1>1, <1>2, <1>12, <2>2, <2>3, <2>6, AttackersOf
  <2> QED BY <1>4, <2>7
<1>16. ~R!Checked(there, us)
  BY <1>1, <1>2, <1>14, <1>15, KingFound DEF them
<1> QED BY <1>7, <1>16 DEF Lawful, there, us

\* hasLegalMove finds a move if there is a legal one, which may be castling.
LEMMA LegalMoveFound ==
  ASSUME NEW p, Good(p), ~KingCapturable(p)
  PROVE  hasLegalMove(p) <=> R!LegalMoves(p.board, p.nextPlayer, p.castlingRights, p.enPassantSquare) # {}
<1> DEFINE castling == R!CastlingMoves(p.board, p.nextPlayer, p.castlingRights)
<1>1. R!LegalMoves(p.board, p.nextPlayer, p.castlingRights, p.enPassantSquare)
        = {m \in RuleMoves(p) : Lawful(p, m)} \cup castling
  BY DEF R!LegalMoves, RuleMoves, Lawful
<1>2. castling # {} => \E r \in RuleMoves(p) : Lawful(p, r)
  <2>1. SUFFICES ASSUME NEW m \in castling PROVE \E r \in RuleMoves(p) : Lawful(p, r)
    OBVIOUS
  <2>2. PICK king, e : /\ AtHome(p, king, e)
                       /\ \A i \in 0 .. 2 : R!Attackers(p.board, king + i * e, Other(p.nextPlayer)) = {}
    BY <2>1, RulesCastling
  <2> QED BY <2>2, StepsAside
<1> HIDE DEF castling
<1> QED BY <1>1, <1>2, BoardMoveFound

-----------------------------------------------------------------------------

\* What the rules allow is listed, in check and out of it.
LEMMA LegalListed ==
  ASSUME NEW p, Good(p), EnPassantSafe(p), NEW ev \in BOOLEAN, ev <=> InCheck(p),
         NEW m \in R!LegalMoves(p.board, p.nextPlayer, p.castlingRights, p.enPassantSquare)
  PROVE  m \in generatePseudoLegalMoves(p, GenAll, ev) /\ m \in generatePseudoLegalMoves(p, GenAll, FALSE)
<1>1. \/ m \in RuleMoves(p) /\ ~R!Checked(R!After(p.board, p.nextPlayer, m), p.nextPlayer)
      \/ m \in R!CastlingMoves(p.board, p.nextPlayer, p.castlingRights)
  BY DEF R!LegalMoves, RuleMoves
<1>2. CASE m \in RuleMoves(p) /\ ~R!Checked(R!After(p.board, p.nextPlayer, m), p.nextPlayer)
  <2>1. InCheck(p) => Evades(p, m)
    BY <1>2, EvasionsSuffice
  <2> QED BY <1>2, <2>1, PseudoAre
<1>3. CASE m \in R!CastlingMoves(p.board, p.nextPlayer, p.castlingRights)
  <2>1. PICK king, e : /\ AtHome(p, king, e) /\ CastlingRight(p, e) \in p.castlingRights
                       /\ \A i \in 0 .. 2 : R!Attackers(p.board, king + i * e, Other(p.nextPlayer)) = {}
                       /\ m = createMove(king, king + 2 * e, CASTLING)
    BY <1>3, RulesCastling DEF CastlingRight
  <2>2. m \in generateCastling(p)
    BY <2>1, CastlingAre
  <2>3. ~InCheck(p)
    <3>1. p.nextPlayer \in Color
      BY PawnsAre
    <3>2. king = p.kingSquare[p.nextPlayer]
      <4>1. king \in Square /\ p.board[king] = makePiece(p.nextPlayer, KING)
        <5>1. AtHome(p, king, e)
          BY <2>1
        <5>2. king \in Square
          BY <5>1, CastlingPlaces
        <5> QED BY <5>1, <5>2 DEF AtHome
      <4>2. \A s \in Square : p.board[s] = makePiece(p.nextPlayer, KING) <=> s = p.kingSquare[p.nextPlayer]
        BY <3>1 DEF Good, KingsOK
      <4> QED BY <4>1, <4>2
    <3>3. king + 0 * e = king /\ 0 \in 0 .. 2
      BY <2>1, CastlingPlaces
    <3>4. R!Attackers(p.board, king, Other(p.nextPlayer)) = {}
      BY <2>1, <3>3
    <3> QED BY <3>1, <3>2, <3>4, KingChecked DEF InCheck
  <2> QED BY <2>2, <2>3, PseudoAre
<1> QED BY <1>1, <1>2, <1>3

\* The legal moves the generator lists are those of the rules.
LEMMA LegalMovesAre ==
  ASSUME NEW p, Good(p), FlagKnown(p), EnPassantSafe(p), ~KingCapturable(p)
  PROVE  generateLegalMoves(p, GenAll) = R!LegalMoves(p.board, p.nextPlayer, p.castlingRights, p.enPassantSquare)
<1> DEFINE rules == R!LegalMoves(p.board, p.nextPlayer, p.castlingRights, p.enPassantSquare)
<1>1. PICK ev : ev = hasCheck(p)
  OBVIOUS
<1>2. InCheck(p) \in BOOLEAN
  BY DEF InCheck, isAttacked
<1>3. ev \in BOOLEAN /\ (ev <=> InCheck(p))
  BY <1>1, <1>2 DEF hasCheck, FlagKnown
<1>4. generateLegalMoves(p, GenAll) = {m \in generatePseudoLegalMoves(p, GenAll, ev) : isLegalMove(p, m)}
  BY <1>1 DEF generateLegalMoves
<1>5. \A m \in generatePseudoLegalMoves(p, GenAll, ev) : m \in generatePseudoLegalMoves(p, GenAll, FALSE)
  BY <1>3, PseudoAre
<1>6. \A m \in generatePseudoLegalMoves(p, GenAll, FALSE) : isLegalMove(p, m) <=> m \in rules
  BY PseudoLegal
<1>7a. \A m \in rules : m \in generatePseudoLegalMoves(p, GenAll, ev) /\ m \in generatePseudoLegalMoves(p, GenAll, FALSE)
  BY <1>3, LegalListed
<1> HIDE DEF rules
<1>8. generateLegalMoves(p, GenAll) = rules
  BY <1>4, <1>5, <1>6, <1>7a
<1> QED BY <1>8 DEF rules

\* In every game whose first position could have come from a double step, if it
\* names one, the generator lists the legal moves of the rules, isLegalMove and
\* wasLegalMove judge each pseudo-legal move as the rules do, and hasLegalMove
\* knows mate and stalemate.
THEOREM LegalityAlways == Spec => [](EnPassantSafe(setupBoard(start.fen)) => LegalityAgrees)
<1>1. ASSUME Reached(FALSE), EnPassantSafe(setupBoard(start.fen)), Sound PROVE LegalityAgrees
  <2> DEFINE rules == LegalByTheRules
             pseudo == generatePseudoLegalMoves(pos, GenAll, FALSE)
  <2>1. Good(pos) /\ FlagKnown(pos) /\ EnPassantSafe(pos)
    BY <1>1, ReachedNow DEF Sane, StartSafe
  <2>2. ~KingCapturable(pos)
    <3>1. pos.nextPlayer \in Color /\ Other(pos.nextPlayer) \in Color
          /\ Other(Other(pos.nextPlayer)) = pos.nextPlayer
      BY <2>1, PawnsAre, OtherColor
    <3> QED BY <1>1, <2>1, <3>1, KingChecked DEF Sound, KingCapturable
  <2>3. rules = R!LegalMoves(pos.board, pos.nextPlayer, pos.castlingRights, pos.enPassantSquare)
    BY DEF LegalByTheRules
  <2>4. generateLegalMoves(pos, GenAll) = rules
    BY <2>1, <2>2, <2>3, LegalMovesAre
  <2>5. \A m \in pseudo : /\ isLegalMove(pos, m) <=> m \in rules
                          /\ wasLegalMove(doMove(pos, m)) <=> m \in rules
    BY <2>1, <2>2, <2>3, PseudoLegal
  <2>6. hasLegalMove(pos) <=> rules # {}
    BY <2>1, <2>2, <2>3, LegalMoveFound
  <2> HIDE DEF rules, pseudo
  <2>7. /\ \A m : isLegalMove(pos, m) \in BOOLEAN
        /\ \A q : wasLegalMove(q) \in BOOLEAN
        /\ hasLegalMove(pos) \in BOOLEAN
    BY DEF isLegalMove, wasLegalMove, hasLegalMove
  <2>8. \A m \in pseudo : /\ isLegalMove(pos, m) = (m \in rules)
                          /\ wasLegalMove(doMove(pos, m)) = (m \in rules)
    BY <2>5, <2>7
  <2>9. hasLegalMove(pos) = (rules /= {})
    BY <2>6, <2>7
  <2> QED BY <2>4, <2>8, <2>9 DEF LegalityAgrees, rules, pseudo
<1>2. Reached(FALSE) => (EnPassantSafe(setupBoard(start.fen)) => LegalityAgrees)
  BY <1>1 DEF LegalityAgrees
<1> QED BY <1>2, GamesAreRecorded, PTL
=============================================================================
