--------------------------- MODULE DftKernel_proofs ---------------------------
(***************************************************************************)
(* Proofs about DftKernel: the groups that are launched share out the UV   *)
(* points, and each writes the transforms of its own and of no other - so  *)
(* that none is left out or written twice; and they are transforms of the  *)
(* whole image if the group is a single bundle or the image a single tile  *)
(* - for all groups, widths of the lockstep, images and numbers of UV      *)
(* points.                                                                 *)
(***************************************************************************)
EXTENDS DftKernel, TLAPS

\* The loop runs Rounds times; round k begins at Start(k), and behind the last
\* one is the output.
Round == local_size + 3
Rounds == Tiles(image_size, local_size)
Start(k) == k * Round + 1
Last == Start(Rounds)

Sized ==
  /\ {local_size, width, image_size, nuv} \subseteq Nat \ {0} /\ bid \in Nat
  /\ Rounds \in Nat /\ image_size <= Rounds * local_size
  /\ image_size <= local_size => Rounds = 1

RoundAt(k) ==
  /\ program[Start(k)] = Instr("load_pixels", k * local_size)
  /\ program[Start(k) + 1] = Instr("compute_indicies", k * local_size)
  /\ program[Start(k) + 2] = Barrier
  /\ \A q \in Items : program[Start(k) + 3 + q] = Instr("ft_pixel", q)
KernelShape ==
  /\ Len(program) = Last /\ program[Last] = Instr("output", 0)
  /\ \A k \in 0 .. Rounds - 1 : RoundAt(k)

Group == Bundles(local_size, width)
Bundle(i) == i \div width

\* Exactly the items that are done have written, those with a UV point.
Written ==
  DOMAIN output = {i \in Items : at[Bundle(i)] > Last /\ bid * local_size + i < nuv}

Typed ==
  /\ at \in [Group -> Nat \ {0}] /\ \A b \in Group : at[b] <= Last + 1
  /\ DOMAIN sdata = {Flux(i) : i \in Items} \cup {Coords(i) : i \in Items}
  /\ DOMAIN dft_output = Items

\* Nobody is past a barrier that another has not reached.
InStep ==
  \A b, c \in Group : \A k \in 0 .. Rounds - 1 : at[b] > Start(k) + 2 => at[c] >= Start(k) + 2

\* A tile stays in local memory from when a bundle has loaded its part until
\* it loads the next one.
FluxOf(p) == IF p < image_size THEN p ELSE PADDING
LoadedBy(i, k) ==
  LET m == at[Bundle(i)] IN
  m <= Start(k + 1) \/ k = Rounds - 1 =>
    /\ m > Start(k) => sdata[Flux(i)] = {FluxOf(k * local_size + i)}
    /\ m > Start(k) + 1 => sdata[Coords(i)] = {k * local_size + i}
Loaded == \A i \in Items : \A k \in 0 .. Rounds - 1 : LoadedBy(i, k)

\* The pixels an item has added before instruction Start(k) + r.
Pixels == 0 .. image_size - 1
Seen(k, r) == {p \in Pixels : p < k * local_size + IF r <= 3 THEN 0 ELSE r - 3}
AddedBy(i, k) ==
  LET m == at[Bundle(i)] IN
  m \in Start(k) .. Start(k + 1) - 1 => dft_output[i] = Seen(k, m - Start(k))
Added == \A i \in Items : \A k \in 0 .. Rounds : AddedBy(i, k)

\* One bundle loads all of a tile, and is done with it before it loads the
\* next; of a single tile there is no next.
OneBundle == local_size <= width
OneTile == image_size <= local_size

GroupInv == Sized /\ KernelShape /\ Typed /\ Written
-----------------------------------------------------------------------------
(* Division *)

\* Quotient and remainder are the ones that division by m leaves,
LEMMA ModIs ==
  ASSUME NEW a \in Nat, NEW m \in Nat \ {0}, NEW q \in Nat, NEW r \in 0 .. m - 1, a = q * m + r
  PROVE  a \div m = q /\ a % m = r
BY SMTT(30)

\* and every number has them.
LEMMA DivIs ==
  ASSUME NEW a \in Nat, NEW m \in Nat \ {0}
  PROVE  \E q \in Nat, r \in 0 .. m - 1 : a = q * m + r /\ a \div m = q /\ a % m = r
BY SMTT(30)

\* Multiples are in the order of their factors.
LEMMA TimesMonotone ==
  ASSUME NEW m \in Nat, NEW a \in Nat, NEW b \in Nat, a < b
  PROVE  a * m + m <= b * m
<1>1. PICK c \in Nat : b = a + 1 + c
  <2>1. b - a - 1 \in Nat /\ b = a + 1 + (b - a - 1)
    OBVIOUS
  <2> QED
    BY <2>1
<1>2. b * m = a * m + m + c * m
  BY <1>1
<1>3. c * m \in Nat /\ a * m \in Nat
  OBVIOUS
<1> QED
  BY <1>2, <1>3

\* So are quotients.
LEMMA DivMonotone ==
  ASSUME NEW a \in Nat, NEW b \in Nat, NEW m \in Nat \ {0}, a <= b
  PROVE  a \div m \in Nat /\ a \div m <= b \div m
<1>1. PICK q \in Nat, r \in 0 .. m - 1 : a = q * m + r /\ a \div m = q
  BY DivIs
<1>2. PICK p \in Nat, s \in 0 .. m - 1 : b = p * m + s /\ b \div m = p
  BY DivIs
<1>3. ASSUME p < q PROVE FALSE
  <2>1. p * m + m <= q * m
    BY <1>3, TimesMonotone
  <2>2. p * m \in Nat /\ q * m \in Nat
    OBVIOUS
  <2> QED
    BY <1>1, <1>2, <2>1, <2>2
<1> QED
  BY <1>1, <1>2, <1>3
-----------------------------------------------------------------------------
(* The kernel *)

\* The rounds cover the image; an image within a tile takes one.
LEMMA TilesCover ==
  ASSUME NEW n \in Nat \ {0}, NEW size \in Nat \ {0}
  PROVE  /\ Tiles(n, size) \in Nat /\ n <= Tiles(n, size) * size
         /\ n <= size => Tiles(n, size) = 1
<1>1. PICK q \in Nat, r \in 0 .. size - 1 :
        n + size - 1 = q * size + r /\ (n + size - 1) \div size = q
  BY DivIs
<1>2. q * size \in Nat
  OBVIOUS
<1>3. n <= q * size
  BY <1>1, <1>2
<1>4. ASSUME n <= size PROVE q = 1
  <2>1. n + size - 1 = 1 * size + (n - 1) /\ n - 1 \in 0 .. size - 1
    BY <1>4
  <2>2. n + size - 1 \in Nat
    OBVIOUS
  <2> QED
    BY <1>1, <2>1, <2>2, ModIs
<1> QED
  BY <1>1, <1>3, <1>4 DEF Tiles

Instructions ==
  [op : {"load_pixels", "compute_indicies", "barrier", "ft_pixel", "output"}, h : Nat]

\* A function on 1 .. n is a sequence,
LEMMA FunctionIsSeq ==
  ASSUME NEW n \in Nat, NEW f \in [1 .. n -> Instructions]
  PROVE  f \in Seq(Instructions) /\ Len(f) = n
OBVIOUS

\* and this is what a concatenation has where.
LEMMA Joined ==
  ASSUME NEW a \in Seq(Instructions), NEW b \in Seq(Instructions), NEW n \in Nat, Len(a) = n
  PROVE  /\ a \o b \in Seq(Instructions) /\ Len(a \o b) = n + Len(b)
         /\ \A j \in 1 .. Len(a \o b) : (a \o b)[j] = IF j <= n THEN a[j] ELSE b[j - n]
OBVIOUS

\* What a tile consists of.
LEMMA TileIs ==
  ASSUME NEW start \in Nat, NEW size \in Nat \ {0}
  PROVE  /\ Tile(start, size) \in Seq(Instructions) /\ Len(Tile(start, size)) = size + 3
         /\ Tile(start, size)[1] = Instr("load_pixels", start)
         /\ Tile(start, size)[2] = Instr("compute_indicies", start)
         /\ Tile(start, size)[3] = Barrier
         /\ \A q \in 0 .. size - 1 : Tile(start, size)[4 + q] = Instr("ft_pixel", q)
<1> DEFINE front == <<Instr("load_pixels", start), Instr("compute_indicies", start), Barrier>>
           pixels == [pixel \in 1 .. size |-> Instr("ft_pixel", pixel - 1)]
<1>1. front \in Seq(Instructions) /\ Len(front) = 3
  BY DEF Instr, Barrier, Instructions
<1>2. pixels \in Seq(Instructions) /\ Len(pixels) = size
  <2>1. pixels \in [1 .. size -> Instructions]
    BY DEF Instr, Instructions
  <2> HIDE DEF pixels
  <2> QED
    BY <2>1, FunctionIsSeq
<1>3. /\ front[1] = Instr("load_pixels", start) /\ front[2] = Instr("compute_indicies", start)
      /\ front[3] = Barrier
      /\ \A q \in 0 .. size - 1 : pixels[1 + q] = Instr("ft_pixel", q)
  OBVIOUS
<1>4. PICK k \in Nat : k = 3
  OBVIOUS
<1> HIDE DEF front, pixels
<1>5. /\ front \o pixels \in Seq(Instructions) /\ Len(front \o pixels) = k + size
      /\ \A j \in 1 .. k + size : (front \o pixels)[j] = IF j <= k THEN front[j] ELSE pixels[j - k]
  <2>1. Len(front) = k /\ size \in Nat
    BY <1>1, <1>4
  <2>2. /\ front \o pixels \in Seq(Instructions) /\ Len(front \o pixels) = k + Len(pixels)
        /\ \A j \in 1 .. Len(front \o pixels) :
             (front \o pixels)[j] = IF j <= k THEN front[j] ELSE pixels[j - k]
    BY ONLY k \in Nat, <1>1, <1>2, <2>1, Joined, Zenon
  <2> QED
    BY <1>2, <2>2, Zenon
<1>6. Tile(start, size) = front \o pixels
  BY DEF Tile, front, pixels
<1>7. ASSUME NEW q \in 0 .. size - 1
      PROVE  (front \o pixels)[4 + q] = Instr("ft_pixel", q)
  <2>1. PICK j \in 1 .. k + size : j = 4 + q
    BY <1>4
  <2>2. ~ (j <= k) /\ j - k = 1 + q
    BY <1>4, <2>1
  <2>3. (front \o pixels)[j] = pixels[j - k]
    BY <1>5, <2>2, Zenon
  <2> QED
    BY <1>3, <2>1, <2>2, <2>3, Zenon
<1>8. 1 \in 1 .. k + size /\ 2 \in 1 .. k + size /\ 3 \in 1 .. k + size /\ 1 <= k /\ 2 <= k /\ 3 <= k
  BY <1>4
<1>9. ASSUME NEW j \in {1, 2, 3}
      PROVE  (front \o pixels)[j] = front[j]
  BY <1>5, <1>8, Zenon
<1>10. (front \o pixels)[1] = front[1] /\ (front \o pixels)[2] = front[2] /\ (front \o pixels)[3] = front[3]
  BY <1>9
<1>11. Len(front \o pixels) = size + 3
  BY <1>4, <1>5
<1> QED
  BY <1>3, <1>5, <1>6, <1>7, <1>10, <1>11, Zenon

\* What the kernel that the host enqueues consists of.
LEMMA KernelHasShape ==
  ASSUME Sized, program = Dft2d(image_size, local_size)
  PROVE  KernelShape
<1> DEFINE body == [i \in 1 .. Rounds * Round |->
                      Tile(((i - 1) \div Round) * local_size, local_size)[1 + ((i - 1) % Round)]]
           end == <<Instr("output", 0)>>
<1>1. Rounds \in Nat /\ Round \in Nat \ {0} /\ Rounds * Round \in Nat /\ local_size \in Nat \ {0}
  BY DEF Sized, Round
<1>2. program = body \o end
  <2>1. Len(Tile(0, local_size)) = Round
    BY <1>1, TileIs DEF Round
  <2> QED
    BY <2>1 DEF Dft2d, Rounds
<1>3. PICK n \in Nat : n = Rounds * Round
  BY <1>1
<1>4. /\ Len(program) = n + 1 /\ program[n + 1] = Instr("output", 0)
      /\ \A i \in 1 .. n : program[i] = body[i]
  <2>1. body \in Seq(Instructions) /\ Len(body) = n
    <3>1. ASSUME NEW i \in 1 .. n PROVE body[i] \in Instructions
      <4>1. PICK q \in Nat, r \in 0 .. Round - 1 :
              (i - 1) \div Round = q /\ (i - 1) % Round = r
        <5>1. i - 1 \in Nat
          OBVIOUS
        <5> QED
          BY <1>1, <5>1, DivIs
      <4>2. body[i] = Tile(((i - 1) \div Round) * local_size, local_size)[1 + ((i - 1) % Round)]
        BY <1>3
      <4>3. q * local_size \in Nat /\ 1 + r \in 1 .. local_size + 3
        BY <1>1 DEF Round
      <4>4. /\ Tile(q * local_size, local_size) \in Seq(Instructions)
            /\ Len(Tile(q * local_size, local_size)) = local_size + 3
        BY <1>1, <4>3, TileIs
      <4>5. Tile(q * local_size, local_size)[1 + r] \in Instructions
        BY <4>3, <4>4
      <4> QED
        BY <4>1, <4>2, <4>5, Zenon
    <3>2. body \in [1 .. n -> Instructions]
      BY <1>3, <3>1
    <3> HIDE DEF body
    <3> QED
      BY <1>3, <3>2, FunctionIsSeq
  <2>2. end \in Seq(Instructions) /\ Len(end) = 1 /\ end[1] = Instr("output", 0)
    BY DEF Instr, Instructions
  <2> HIDE DEF body, end
  <2>3. PICK m \in Nat : m = 1
    OBVIOUS
  <2>4. /\ Len(program) = n + m
        /\ \A j \in 1 .. n + m : program[j] = IF j <= n THEN body[j] ELSE end[j - n]
    <3>1. Len(end) = m
      BY <2>2, <2>3
    <3>2. /\ body \o end \in Seq(Instructions) /\ Len(body \o end) = n + Len(end)
          /\ \A j \in 1 .. Len(body \o end) :
               (body \o end)[j] = IF j <= n THEN body[j] ELSE end[j - n]
      BY ONLY n \in Nat, <2>1, <2>2, Joined, Zenon
    <3> QED
      BY <1>2, <3>1, <3>2, Zenon
  <2>5. /\ n + 1 \in 1 .. n + m /\ ~ (n + 1 <= n) /\ n + 1 - n = 1
        /\ \A i \in 1 .. n : i \in 1 .. n + m /\ i <= n
    BY <2>3
  <2> QED
    BY <2>2, <2>3, <2>4, <2>5
<1>5. ASSUME NEW k \in 0 .. Rounds - 1, NEW r \in 0 .. Round - 1
      PROVE  program[Start(k) + r] = Tile(k * local_size, local_size)[1 + r]
  <2>1. k \in Nat /\ k * Round \in Nat /\ k * Round + r \in Nat
    BY <1>1
  <2>2. k * Round + Round <= n
    BY <1>1, <1>3, <2>1, TimesMonotone
  <2>3. Start(k) + r \in 1 .. n /\ Start(k) + r - 1 = k * Round + r
    BY <1>1, <2>1, <2>2 DEF Start
  <2>4. (k * Round + r) \div Round = k /\ (k * Round + r) % Round = r
    BY <1>1, <2>1, ModIs
  <2>5. body[Start(k) + r] = Tile(k * local_size, local_size)[1 + r]
    <3>1. PICK i \in 1 .. n : i = Start(k) + r
      BY <2>3
    <3>2. (i - 1) \div Round = k /\ (i - 1) % Round = r
      <4>1. i - 1 = k * Round + r
        <5>1. Start(k) \in Nat
          BY <1>1, <2>1 DEF Start
        <5> QED
          BY <2>1, <2>3, <3>1, <5>1
      <4> QED
        BY <2>4, <4>1, Zenon
    <3>3. body[i] = Tile(((i - 1) \div Round) * local_size, local_size)[1 + ((i - 1) % Round)]
      BY <1>3
    <3> QED
      BY <3>1, <3>2, <3>3, Zenon
  <2> QED
    BY <1>4, <2>3, <2>5
<1>6. ASSUME NEW k \in 0 .. Rounds - 1 PROVE RoundAt(k)
  <2> DEFINE tile == Tile(k * local_size, local_size)
  <2>0. /\ tile[1] = Instr("load_pixels", k * local_size)
        /\ tile[2] = Instr("compute_indicies", k * local_size)
        /\ tile[3] = Barrier
        /\ \A q \in 0 .. local_size - 1 : tile[4 + q] = Instr("ft_pixel", q)
    <3>1. k * local_size \in Nat
      BY <1>1
    <3> QED
      BY <1>1, <3>1, TileIs
  <2>a. \A r \in 0 .. Round - 1 : program[Start(k) + r] = tile[1 + r]
    BY <1>5
  <2> HIDE DEF tile
  <2>1. /\ 0 \in 0 .. Round - 1 /\ 1 \in 0 .. Round - 1 /\ 2 \in 0 .. Round - 1
        /\ Start(k) \in Nat
    BY <1>1 DEF Round, Start
  <2>2. ASSUME NEW q \in Items
        PROVE  program[Start(k) + 3 + q] = Instr("ft_pixel", q)
    <3>1. q \in 0 .. local_size - 1 /\ 3 + q \in 0 .. Round - 1 /\ 1 + (3 + q) = 4 + q
          /\ Start(k) + 3 + q = Start(k) + (3 + q)
      BY <1>1, <2>1 DEF Items, Round
    <3>2. program[Start(k) + (3 + q)] = tile[4 + q]
      BY <2>a, <3>1, Zenon
    <3> QED
      BY <2>0, <3>1, <3>2, Zenon
  <2>3. /\ program[Start(k) + 0] = tile[1 + 0]
        /\ program[Start(k) + 1] = tile[1 + 1]
        /\ program[Start(k) + 2] = tile[1 + 2]
    BY <2>a, <2>1
  <2>4. Start(k) + 0 = Start(k) /\ 1 + 0 = 1 /\ 1 + 1 = 2 /\ 1 + 2 = 3
    BY <2>1
  <2> QED
    BY <2>0, <2>2, <2>3, <2>4, Zenon DEF RoundAt
<1>7. Last = n + 1
  BY <1>3 DEF Last, Start
<1> QED
  BY <1>4, <1>6, <1>7 DEF KernelShape
-----------------------------------------------------------------------------
(* Where a bundle is in the kernel *)

\* The rounds follow each other.
LEMMA Starts ==
  ASSUME Sized
  PROVE  /\ Round \in Nat \ {0} /\ Round = local_size + 3 /\ Last \in Nat \ {0} /\ Start(0) = 1
         /\ \A k \in Nat : Start(k) \in Nat \ {0} /\ Start(k + 1) = Start(k) + Round
         /\ \A j, k \in Nat : j < k => Start(j) + Round <= Start(k)
<1>1. Round \in Nat \ {0} /\ Round = local_size + 3 /\ Rounds \in Nat
  BY DEF Sized, Round
<1>2. ASSUME NEW k \in Nat PROVE Start(k) \in Nat \ {0} /\ Start(k + 1) = Start(k) + Round
  <2>1. k * Round \in Nat /\ (k + 1) * Round = k * Round + Round
    BY <1>1
  <2> QED
    BY <1>1, <2>1 DEF Start
<1>3. ASSUME NEW j \in Nat, NEW k \in Nat, j < k PROVE Start(j) + Round <= Start(k)
  <2>1. j * Round + Round <= k * Round /\ j * Round \in Nat /\ k * Round \in Nat
    BY <1>1, <1>3, TimesMonotone
  <2> QED
    BY <1>1, <2>1 DEF Start
<1>4. Start(0) = 1
  BY <1>1 DEF Start
<1> QED
  BY <1>1, <1>2, <1>3, <1>4 DEF Last

\* Each of them is in front of the output.
LEMMA RoundOf ==
  ASSUME Sized, NEW k \in 0 .. Rounds - 1
  PROVE  /\ k \in Nat /\ k + 1 \in 0 .. Rounds /\ Rounds \in Nat
         /\ Round \in Nat /\ Round > 3 /\ Round = local_size + 3
         /\ Start(k) \in Nat /\ Start(k + 1) \in Nat /\ Start(k + 1) = Start(k) + Round
<1>1. Rounds \in Nat /\ local_size \in Nat \ {0}
  BY DEF Sized
<1>2. k \in Nat /\ k + 1 \in Nat /\ k + 1 \in 0 .. Rounds
  BY <1>1
<1>3. Round \in Nat /\ Round > 3 /\ Round = local_size + 3
  BY <1>1 DEF Round
<1>4. Start(k) \in Nat /\ Start(k + 1) \in Nat /\ Start(k + 1) = Start(k) + Round
  BY <1>2, Starts
<1> QED
  BY <1>1, <1>2, <1>3, <1>4

\* Every instruction but the last is in a round,
LEMMA Places ==
  ASSUME Sized, NEW m \in 1 .. Last
  PROVE  m = Last \/ \E k \in 0 .. Rounds - 1 : \E r \in 0 .. Round - 1 : m = Start(k) + r
<1>1. Round \in Nat \ {0} /\ Rounds \in Nat /\ m - 1 \in Nat /\ m <= Last
  BY Starts DEF Sized
<1>2. PICK q \in Nat, r \in 0 .. Round - 1 : m - 1 = q * Round + r
  BY <1>1, DivIs
<1>3. CASE q < Rounds
  <2>1. q \in 0 .. Rounds - 1 /\ m = Start(q) + r
    BY <1>1, <1>2, <1>3 DEF Start
  <2> QED
    BY <2>1
<1>4. CASE ~ (q < Rounds)
  <2>1. Rounds * Round <= q * Round
    <3>1. CASE Rounds = q
      BY <1>1, <3>1
    <3>2. CASE Rounds < q
      <4>1. Rounds * Round + Round <= q * Round /\ Rounds * Round \in Nat /\ q * Round \in Nat
        BY <1>1, <3>2, TimesMonotone
      <4> QED
        BY <1>1, <4>1
    <3> QED
      BY <1>1, <1>4, <3>1, <3>2
  <2>2. Rounds * Round \in Nat /\ q * Round \in Nat
    BY <1>1
  <2>3. Last = Rounds * Round + 1
    BY DEF Last, Start
  <2> QED
    BY <1>1, <1>2, <2>1, <2>2, <2>3
<1> QED
  BY <1>3, <1>4

\* and its operation tells where in the round it is.
LEMMA OpIs ==
  ASSUME Sized, KernelShape, NEW m \in 1 .. Last
  PROVE  /\ program[m].op = "load_pixels" =>
              \E k \in 0 .. Rounds - 1 : m = Start(k) /\ program[m].h = k * local_size
         /\ program[m].op = "compute_indicies" =>
              \E k \in 0 .. Rounds - 1 : m = Start(k) + 1 /\ program[m].h = k * local_size
         /\ program[m].op = "barrier" => \E k \in 0 .. Rounds - 1 : m = Start(k) + 2
         /\ program[m].op = "ft_pixel" =>
              \E k \in 0 .. Rounds - 1 : \E q \in Items : m = Start(k) + 3 + q /\ program[m].h = q
         /\ program[m].op = "output" => m = Last
<1>1. CASE m = Last
  BY <1>1 DEF KernelShape, Instr
<1>2. CASE m # Last
  <2>1. PICK k \in 0 .. Rounds - 1, r \in 0 .. Round - 1 : m = Start(k) + r
    BY <1>2, Places
  <2>2. Start(k) \in Nat /\ local_size \in Nat \ {0} /\ Round = local_size + 3 /\ RoundAt(k)
    <3>1. k \in Nat
      BY DEF Sized
    <3> QED
      BY <3>1, Starts DEF Sized, KernelShape
  <2>3. CASE r = 0
    <3>1. m = Start(k)
      BY <2>1, <2>2, <2>3
    <3> QED
      BY <2>2, <3>1 DEF RoundAt, Instr
  <2>4. CASE r = 1
    BY <2>1, <2>2, <2>4 DEF RoundAt, Instr
  <2>5. CASE r = 2
    BY <2>1, <2>2, <2>5 DEF RoundAt, Barrier
  <2>6. CASE r > 2
    <3>1. PICK q \in Items : r = 3 + q
      <4>1. r - 3 \in Items /\ r = 3 + (r - 3)
        BY <2>2, <2>6 DEF Items
      <4> QED
        BY <4>1
    <3>2. m = Start(k) + 3 + q
      <4>1. q \in Nat
        BY DEF Items
      <4> QED
        BY <2>1, <2>2, <3>1, <4>1
    <3>3. program[m] = Instr("ft_pixel", q)
      BY <2>2, <3>2 DEF RoundAt
    <3> QED
      BY <3>2, <3>3 DEF Instr
  <2> QED
    BY <2>1, <2>2, <2>3, <2>4, <2>5, <2>6
<1> QED
  BY <1>1, <1>2

\* Which operation is where.
LEMMA OpAt ==
  ASSUME Sized, KernelShape
  PROVE  /\ program[Last].op = "output" /\ Len(program) = Last
         /\ \A k \in 0 .. Rounds - 1 :
              /\ program[Start(k)].op = "load_pixels"
              /\ program[Start(k) + 1].op = "compute_indicies"
              /\ program[Start(k) + 2].op = "barrier"
              /\ \A q \in Items : program[Start(k) + 3 + q].op = "ft_pixel"
<1>1. \A op, h : Instr(op, h).op = op
  BY DEF Instr
<1>2. Barrier.op = "barrier"
  BY DEF Barrier
<1>3. program[Last].op = "output" /\ Len(program) = Last
  BY <1>1 DEF KernelShape
<1>4. ASSUME NEW k \in 0 .. Rounds - 1
      PROVE  /\ program[Start(k)].op = "load_pixels"
             /\ program[Start(k) + 1].op = "compute_indicies"
             /\ program[Start(k) + 2].op = "barrier"
             /\ \A q \in Items : program[Start(k) + 3 + q].op = "ft_pixel"
  BY <1>1, <1>2, Zenon DEF KernelShape, RoundAt
<1> QED
  BY <1>3, <1>4

\* Every item is in a bundle; up to the width of the lockstep in the first.
LEMMA BundleIs ==
  ASSUME Sized
  PROVE  /\ \A i \in Items : i \in Nat /\ Bundle(i) \in Group
         /\ \A b : Lanes(b, local_size, width) = {i \in Items : Bundle(i) = b}
         /\ OneBundle => \A b \in Group : b = 0
<1>1. local_size \in Nat \ {0} /\ width \in Nat \ {0} /\ local_size - 1 \in Nat
  BY DEF Sized
<1>2. ASSUME NEW i \in Items PROVE i \in Nat /\ Bundle(i) \in Group
  <2>1. i \in Nat /\ i <= local_size - 1
    BY <1>1 DEF Items
  <2>2. i \div width \in Nat /\ i \div width <= (local_size - 1) \div width
    BY <1>1, <2>1, DivMonotone
  <2>3. (local_size - 1) \div width \in Nat
    BY <1>1
  <2> QED
    BY <2>1, <2>2, <2>3 DEF Bundle, Group, Bundles
<1>3. ASSUME OneBundle PROVE \A b \in Group : b = 0
  <2>1. local_size - 1 = 0 * width + (local_size - 1) /\ local_size - 1 \in 0 .. width - 1
    BY <1>1, <1>3 DEF OneBundle
  <2>2. (local_size - 1) \div width = 0
    BY <1>1, <2>1, ModIs
  <2> QED
    BY <2>2 DEF Group, Bundles
<1> QED
  BY <1>2, <1>3 DEF Lanes, Items, Bundle
-----------------------------------------------------------------------------
(* Who writes what *)

\* What the plan of a launch defines is kept with it.
LEMMA PlanKept ==
  ASSUME Sized, KernelShape, UNCHANGED plan
  PROVE  /\ Sized' /\ KernelShape' /\ Items' = Items /\ Group' = Group /\ Rounds' = Rounds
         /\ Last' = Last /\ \A k : Start(k)' = Start(k)
         /\ \A i : Bundle(i)' = Bundle(i)
         /\ \A k, r : Seen(k, r)' = Seen(k, r)
         /\ \A p : FluxOf(p)' = FluxOf(p)
<1>1. /\ local_size' = local_size /\ width' = width /\ image_size' = image_size
      /\ nuv' = nuv /\ bid' = bid /\ program' = program
  BY DEF plan
<1>2. /\ Items' = Items /\ Group' = Group /\ Rounds' = Rounds
      /\ \A k : Start(k)' = Start(k)
      /\ \A i : Bundle(i)' = Bundle(i)
      /\ \A p : FluxOf(p)' = FluxOf(p)
      /\ Pixels' = Pixels
  BY <1>1 DEF Items, Group, Rounds, Start, Round, Bundle, FluxOf, Pixels
<1>3. Last' = Last
  BY <1>2 DEF Last
<1>4. Sized'
  BY <1>1, <1>2 DEF Sized
<1>5. KernelShape'
  BY <1>1, <1>2, <1>3 DEF KernelShape, RoundAt
<1>6. \A k, r : Seen(k, r)' = Seen(k, r)
  BY <1>1, <1>2 DEF Seen
<1> QED
  BY <1>2, <1>3, <1>4, <1>5, <1>6

\* Bundle b executes instruction m.
Moves(b, m) ==
  /\ at[b] = m /\ m \in 1 .. Last /\ at' = [at EXCEPT ![b] = m + 1]
  /\ UNCHANGED plan
  /\ DOMAIN sdata' = DOMAIN sdata /\ DOMAIN dft_output' = DOMAIN dft_output

\* It keeps the types, and writes if it is the last one.
LEMMA MoveKeepsGroup ==
  ASSUME GroupInv, NEW b \in Group, NEW m, Moves(b, m),
         IF m = Last
           THEN DOMAIN output' = DOMAIN output \cup
                  {i \in Items : Bundle(i) = b /\ bid * local_size + i < nuv}
           ELSE output' = output
  PROVE  GroupInv' /\ \A c \in Group : at'[c] = IF c = b THEN m + 1 ELSE at[c]
<1>1. /\ Sized' /\ KernelShape' /\ Items' = Items /\ Group' = Group /\ Last' = Last
      /\ \A i : Bundle(i)' = Bundle(i)
  BY PlanKept DEF Moves, GroupInv
<1>2. Last \in Nat \ {0} /\ m \in Nat \ {0} /\ m <= Last
  BY Starts DEF Moves, GroupInv
<1>3. /\ at' \in [Group -> Nat \ {0}]
      /\ \A c \in Group : at'[c] = IF c = b THEN m + 1 ELSE at[c]
  <2>1. at \in [Group -> Nat \ {0}] /\ at' = [at EXCEPT ![b] = m + 1] /\ m + 1 \in Nat \ {0}
    BY <1>2 DEF GroupInv, Typed, Moves
  <2> QED
    BY <2>1
<1>4. Typed'
  <2>1. \A c \in Group : at'[c] <= Last + 1
    BY <1>2, <1>3 DEF GroupInv, Typed
  <2> QED
    BY <1>1, <1>3, <2>1 DEF GroupInv, Typed, Moves, Flux, Coords
<1>5. Written'
  <2>1. bid' = bid /\ local_size' = local_size /\ nuv' = nuv /\ at[b] = m
    BY DEF Moves, plan
  <2>2. \A i \in Items : Bundle(i) \in Group /\ at[Bundle(i)] \in Nat
    BY BundleIs DEF GroupInv, Typed
  <2>3. \A i \in Items :
          at'[Bundle(i)] > Last <=> at[Bundle(i)] > Last \/ (Bundle(i) = b /\ m = Last)
    BY <1>2, <1>3, <2>1, <2>2
  <2>4. DOMAIN output' = {i \in Items : at'[Bundle(i)] > Last /\ bid * local_size + i < nuv}
    <3>1. DOMAIN output = {i \in Items : at[Bundle(i)] > Last /\ bid * local_size + i < nuv}
      BY DEF GroupInv, Written
    <3>2. CASE m = Last
      BY <2>3, <3>1, <3>2
    <3>3. CASE m # Last
      BY <2>3, <3>1, <3>3
    <3> QED
      BY <3>2, <3>3
  <2> QED
    BY <1>1, <2>1, <2>4 DEF Written
<1> QED
  BY <1>1, <1>3, <1>4, <1>5 DEF GroupInv

\* What the actions have in common.
LEMMA StepMoves ==
  ASSUME GroupInv, NEW b \in DOMAIN at,
         LoadPixels(b) \/ ComputeIndicies(b) \/ FtPixel(b) \/ WaitBarrier(b) \/ Output(b)
  PROVE  /\ b \in Group /\ Moves(b, at[b])
         /\ Output(b) => at[b] = Last
         /\ ~ Output(b) => at[b] # Last /\ output' = output
<1>1. /\ DOMAIN at = Group /\ at[b] \in Nat \ {0} /\ Sized /\ KernelShape /\ Len(program) = Last
      /\ DOMAIN dft_output = Items
  BY OpAt DEF GroupInv, Typed
<1>2. ASSUME NEW op, Executes(program, b, op), Advance(b), UNCHANGED plan,
             DOMAIN sdata' = DOMAIN sdata, DOMAIN dft_output' = DOMAIN dft_output
      PROVE  Moves(b, at[b]) /\ program[at[b]].op = op
  <2>1. at[b] \in 1 .. Last
    BY <1>1, <1>2, Starts DEF Executes
  <2> QED
    BY <1>2, <2>1 DEF Executes, Advance, Moves
<1>3. program[Last].op = "output"
  BY <1>1, OpAt
<1>4. CASE LoadPixels(b) \/ ComputeIndicies(b)
  <2>1. \E op \in {"load_pixels", "compute_indicies"} :
          /\ Executes(program, b, op) /\ Advance(b) /\ UNCHANGED plan /\ output' = output
          /\ DOMAIN sdata' = DOMAIN sdata /\ dft_output' = dft_output
    BY <1>4 DEF LoadPixels, ComputeIndicies, StoreTile
  <2> QED
    BY <1>1, <1>2, <1>3, <2>1 DEF Output, Executes
<1>5. CASE FtPixel(b)
  <2>1. /\ Executes(program, b, "ft_pixel") /\ Advance(b) /\ UNCHANGED plan /\ output' = output
        /\ sdata' = sdata /\ DOMAIN dft_output' = DOMAIN dft_output
    BY <1>1, <1>5 DEF FtPixel
  <2> QED
    BY <1>1, <1>2, <1>3, <2>1 DEF Output, Executes
<1>6. CASE WaitBarrier(b)
  <2>1. /\ Executes(program, b, "barrier") /\ Advance(b) /\ UNCHANGED plan /\ output' = output
        /\ sdata' = sdata /\ dft_output' = dft_output
    BY <1>6 DEF WaitBarrier, PassBarrier
  <2> QED
    BY <1>1, <1>2, <1>3, <2>1 DEF Output, Executes
<1>7. CASE Output(b)
  <2>1. /\ Executes(program, b, "output") /\ Advance(b) /\ UNCHANGED plan
        /\ sdata' = sdata /\ dft_output' = dft_output
    BY <1>7 DEF Output
  <2>2. Moves(b, at[b]) /\ program[at[b]].op = "output"
    BY <1>2, <2>1
  <2>3. at[b] = Last
    BY <1>1, <2>2, OpIs DEF Moves
  <2> QED
    BY <1>1, <1>7, <2>2, <2>3
<1> QED
  BY <1>4, <1>5, <1>6, <1>7

LEMMA GroupStep ==
  ASSUME GroupInv, NEW b \in DOMAIN at,
         LoadPixels(b) \/ ComputeIndicies(b) \/ FtPixel(b) \/ WaitBarrier(b) \/ Output(b)
  PROVE  GroupInv' /\ \A c \in Group : at'[c] = IF c = b THEN at[b] + 1 ELSE at[c]
<1>1. b \in Group /\ Moves(b, at[b])
  BY StepMoves
<1>2. CASE ~ Output(b)
  BY <1>1, <1>2, StepMoves, MoveKeepsGroup
<1>3. CASE Output(b)
  <2>1. at[b] = Last
    BY <1>3, StepMoves
  <2>2. Lanes(b, local_size, width) = {i \in Items : Bundle(i) = b}
    BY BundleIs DEF GroupInv
  <2>3. DOMAIN output' = DOMAIN output \cup
          {i \in Items : Bundle(i) = b /\ bid * local_size + i < nuv}
    BY <1>3, <2>2 DEF Output, Writes, UVPoint
  <2> QED
    BY <1>1, <2>1, <2>3, MoveKeepsGroup
<1> QED
  BY <1>2, <1>3

LEMMA InitGroup ==
  ASSUME Init
  PROVE  GroupInv /\ \A b \in Group : at[b] = 1
<1>1. /\ local_size \in Nat \ {0} /\ width \in Nat \ {0}
      /\ image_size \in Nat \ {0} /\ nuv \in Nat \ {0}
  BY LaunchAssumption DEF Init
<1>2. bid \in Nat
  BY DEF Init, Groups
<1>3. Sized
  BY <1>1, <1>2, TilesCover DEF Sized, Rounds
<1>4. KernelShape
  BY <1>3, KernelHasShape DEF Init
<1>5. at = [b \in Group |-> 1]
  BY DEF Init, GroupInit, Group
<1>6. Typed
  <2>1. DOMAIN sdata = {Flux(i) : i \in Items} \cup {Coords(i) : i \in Items}
    BY DEF Init, GroupInit
  <2>2. DOMAIN dft_output = Items
    BY DEF Init
  <2>3. at \in [Group -> Nat \ {0}] /\ \A b \in Group : at[b] <= Last + 1
    <3>1. Last \in Nat /\ 1 <= Last + 1
      BY <1>3, Starts
    <3> QED
      BY <1>5, <3>1
  <2> QED
    BY <2>1, <2>2, <2>3 DEF Typed
<1>7. Written
  <2>1. DOMAIN output = {}
    BY DEF Init
  <2>2. \A i \in Items : at[Bundle(i)] = 1
    BY <1>3, <1>5, BundleIs
  <2>3. ~ (1 > Last)
    BY <1>3, Starts
  <2>4. \A i \in Items : ~ (at[Bundle(i)] > Last)
    BY <2>2, <2>3
  <2> QED
    BY <2>1, <2>4 DEF Written
<1> QED
  BY <1>3, <1>4, <1>5, <1>6, <1>7 DEF GroupInv
-----------------------------------------------------------------------------
(* The tiles in local memory *)

\* Only the barrier of a round takes a bundle past it.
LEMMA InStepKept ==
  ASSUME GroupInv, InStep, NEW b \in DOMAIN at,
         LoadPixels(b) \/ ComputeIndicies(b) \/ FtPixel(b) \/ WaitBarrier(b) \/ Output(b)
  PROVE  InStep'
<1>1. /\ Sized /\ KernelShape /\ b \in Group /\ Moves(b, at[b])
      /\ \A c \in Group : at[c] \in Nat /\ at'[c] = IF c = b THEN at[b] + 1 ELSE at[c]
  BY StepMoves, GroupStep DEF GroupInv, Typed
<1>2. Group' = Group /\ Rounds' = Rounds /\ \A k : Start(k)' = Start(k)
  BY <1>1, PlanKept DEF Moves
<1>3. ASSUME NEW d \in Group, NEW c \in Group, NEW k \in 0 .. Rounds - 1, at'[d] > Start(k) + 2
      PROVE  at'[c] >= Start(k) + 2
  <2>1. k \in Nat /\ Start(k) \in Nat
    BY <1>1, RoundOf
  <2>2. CASE at[d] > Start(k) + 2
    <3>1. at[c] >= Start(k) + 2
      BY <2>2 DEF InStep
    <3> QED
      BY <1>1, <2>1, <3>1
  <2>3. CASE ~ (at[d] > Start(k) + 2)
    <3>1. d = b /\ at[b] = Start(k) + 2
      BY <1>1, <1>3, <2>1, <2>3
    <3>2. program[at[b]].op = "barrier"
      BY <1>1, <3>1, OpAt
    <3>3. PassBarrier(program, b)
      BY <3>2 DEF LoadPixels, ComputeIndicies, FtPixel, WaitBarrier, Output, Executes
    <3>4. at[c] >= at[b]
      BY <3>3 DEF PassBarrier, GroupInv, Typed
    <3> QED
      BY <1>1, <2>1, <3>1, <3>4
  <2> QED
    BY <2>2, <2>3
<1> QED
  BY <1>2, <1>3 DEF InStep

\* A step that loads nothing leaves what is loaded, and nobody misses a load.
LEMMA LoadedKept ==
  ASSUME GroupInv, Loaded, NEW b \in DOMAIN at,
         FtPixel(b) \/ WaitBarrier(b) \/ Output(b)
  PROVE  Loaded'
<1>1. /\ Sized /\ KernelShape /\ b \in Group /\ Moves(b, at[b])
      /\ \A c \in Group : at[c] \in Nat /\ at'[c] = IF c = b THEN at[b] + 1 ELSE at[c]
  BY StepMoves, GroupStep DEF GroupInv, Typed
<1>2. /\ Items' = Items /\ Rounds' = Rounds /\ \A k : Start(k)' = Start(k)
      /\ \A i : Bundle(i)' = Bundle(i) /\ \A p : FluxOf(p)' = FluxOf(p)
      /\ local_size' = local_size
  BY <1>1, PlanKept DEF Moves, plan
<1>3. sdata' = sdata /\ program[at[b]].op \notin {"load_pixels", "compute_indicies"}
  BY DEF FtPixel, WaitBarrier, PassBarrier, Output, Executes
<1>4. ASSUME NEW i \in Items, NEW k \in 0 .. Rounds - 1
      PROVE  LoadedBy(i, k)'
  <2>1. k \in Nat /\ Start(k) \in Nat /\ Start(k + 1) \in Nat /\ Bundle(i) \in Group
    BY <1>1, RoundOf, BundleIs
  <2>2. at[b] # Start(k) /\ at[b] # Start(k) + 1
    BY <1>1, <1>3, OpAt
  <2>3. PICK m \in Nat, n \in Nat : m = at[Bundle(i)] /\ n = at'[Bundle(i)]
    BY <1>1, <2>1
  <2>4. /\ n <= Start(k + 1) => m <= Start(k + 1)
        /\ n > Start(k) => m > Start(k)
        /\ n > Start(k) + 1 => m > Start(k) + 1
    BY <1>1, <2>1, <2>2, <2>3
  <2>5. LoadedBy(i, k)
    BY DEF Loaded
  <2> QED
    BY <1>2, <1>3, <2>3, <2>4, <2>5 DEF LoadedBy, Flux, Coords
<1> QED
  BY <1>2, <1>4 DEF Loaded

\* A bundle that loads is in this round.
LEMMA ThisRound ==
  ASSUME Sized, NEW j \in 0 .. Rounds - 1, NEW k \in 0 .. Rounds - 1, NEW n \in Nat,
         n \in {Start(j) + 1, Start(j) + 2}, n > Start(k), n <= Start(k + 1) \/ k = Rounds - 1
  PROVE  j = k
<1>1. /\ j \in Nat /\ k \in Nat /\ Rounds \in Nat /\ Round \in Nat /\ Round > 3
      /\ Start(j) \in Nat /\ Start(k) \in Nat /\ Start(k + 1) = Start(k) + Round
  BY RoundOf
<1>2. ASSUME j < k PROVE FALSE
  <2>1. Start(j) + Round <= Start(k)
    BY <1>1, <1>2, Starts
  <2> QED
    BY <1>1, <2>1
<1>3. ASSUME k < j PROVE FALSE
  <2>1. Start(k) + Round <= Start(j)
    BY <1>1, <1>3, Starts
  <2>2. n <= Start(k + 1)
    BY <1>1, <1>3
  <2> QED
    BY <1>1, <2>1, <2>2
<1> QED
  BY <1>1, <1>2, <1>3

\* A bundle that loads puts each of its elements in place.
LEMMA LoadStep ==
  ASSUME GroupInv, Loaded, NEW b \in DOMAIN at, LoadPixels(b) \/ ComputeIndicies(b)
  PROVE  Loaded'
<1>1. /\ Sized /\ KernelShape /\ b \in Group /\ Moves(b, at[b]) /\ at[b] \in 1 .. Last
      /\ \A c \in Group : at[c] \in Nat /\ at'[c] = IF c = b THEN at[b] + 1 ELSE at[c]
      /\ Lanes(b, local_size, width) = {i \in Items : Bundle(i) = b}
      /\ DOMAIN sdata = {Flux(i) : i \in Items} \cup {Coords(i) : i \in Items}
  BY StepMoves, GroupStep, BundleIs DEF GroupInv, Typed, Moves
<1>2. /\ Items' = Items /\ Rounds' = Rounds /\ \A k : Start(k)' = Start(k)
      /\ \A i : Bundle(i)' = Bundle(i) /\ \A p : FluxOf(p)' = FluxOf(p)
      /\ local_size' = local_size
  BY <1>1, PlanKept DEF Moves, plan
<1>3. \A i, j : Flux(i) # Coords(j) /\ Flux(i)[2] = i /\ Coords(j)[2] = j
               /\ (Flux(i) = Flux(j) => i = j) /\ (Coords(i) = Coords(j) => i = j)
  BY DEF Flux, Coords
<1>4. \A i \in Items : \A k \in 0 .. Rounds - 1 : LoadedBy(i, k)
  BY DEF Loaded
<1>5. CASE LoadPixels(b)
  <2>1. PICK j \in 0 .. Rounds - 1 : at[b] = Start(j) /\ program[at[b]].h = j * local_size
    BY <1>1, <1>5, OpIs DEF LoadPixels, Executes
  <2>2. sdata' = [a \in DOMAIN sdata |->
                   IF a \in {Flux(i) : i \in {u \in Items : Bundle(u) = b}}
                     THEN {FluxOf(j * local_size + a[2])} ELSE sdata[a]]
    BY <1>1, <1>5, <2>1 DEF LoadPixels, StoreTile, FluxOf
  <2>3. ASSUME NEW i \in Items
        PROVE  /\ sdata'[Coords(i)] = sdata[Coords(i)]
               /\ sdata'[Flux(i)] = IF Bundle(i) = b THEN {FluxOf(j * local_size + i)}
                                                     ELSE sdata[Flux(i)]
    <3>1. Flux(i) \in DOMAIN sdata /\ Coords(i) \in DOMAIN sdata
      BY <1>1
    <3>2. Flux(i) \in {Flux(u) : u \in {v \in Items : Bundle(v) = b}} <=> Bundle(i) = b
      BY <1>3
    <3>3. Coords(i) \notin {Flux(u) : u \in {v \in Items : Bundle(v) = b}}
      BY <1>3
    <3> QED
      BY <1>3, <2>2, <3>1, <3>2, <3>3
  <2>4. ASSUME NEW i \in Items, NEW k \in 0 .. Rounds - 1
        PROVE  LoadedBy(i, k)'
    <3>1. k \in Nat /\ j \in Nat /\ Start(k) \in Nat /\ Start(k + 1) \in Nat /\ Start(j) \in Nat
          /\ Bundle(i) \in Group
      BY <1>1, RoundOf, BundleIs
    <3>2. CASE Bundle(i) # b
      <4>1. LoadedBy(i, k) /\ at'[Bundle(i)] = at[Bundle(i)]
        BY <1>1, <1>4, <3>1, <3>2
      <4>2. sdata'[Coords(i)] = sdata[Coords(i)] /\ sdata'[Flux(i)] = sdata[Flux(i)]
        BY <2>3, <3>2
      <4> QED
        BY <1>2, <4>1, <4>2 DEF LoadedBy, Flux, Coords
    <3>3. CASE Bundle(i) = b
      <4>1. PICK n \in Nat : n = at'[Bundle(i)] /\ n = Start(j) + 1
        BY <1>1, <2>1, <3>1, <3>3
      <4>2. ASSUME n <= Start(k + 1) \/ k = Rounds - 1, n > Start(k)
            PROVE  /\ sdata'[Flux(i)] = {FluxOf(k * local_size + i)}
                   /\ ~ (n > Start(k) + 1)
        <5>1. j = k
          BY <1>1, <4>1, <4>2, ThisRound
        <5>2. ~ (n > Start(k) + 1)
          BY <3>1, <4>1, <5>1
        <5> QED
          BY <2>3, <3>3, <5>1, <5>2
      <4>3. n > Start(k) + 1 => n > Start(k)
        BY <3>1
      <4> QED
        BY <1>2, <4>1, <4>2, <4>3 DEF LoadedBy, Flux, Coords
    <3> QED
      BY <3>2, <3>3
  <2> QED
    BY <1>2, <2>4 DEF Loaded
<1>6. CASE ComputeIndicies(b)
  <2>1. PICK j \in 0 .. Rounds - 1 : at[b] = Start(j) + 1 /\ program[at[b]].h = j * local_size
    BY <1>1, <1>6, OpIs DEF ComputeIndicies, Executes
  <2>2. sdata' = [a \in DOMAIN sdata |->
                   IF a \in {Coords(i) : i \in {u \in Items : Bundle(u) = b}}
                     THEN {j * local_size + a[2]} ELSE sdata[a]]
    BY <1>1, <1>6, <2>1 DEF ComputeIndicies, StoreTile
  <2>3. ASSUME NEW i \in Items
        PROVE  /\ sdata'[Flux(i)] = sdata[Flux(i)]
               /\ sdata'[Coords(i)] = IF Bundle(i) = b THEN {j * local_size + i}
                                                       ELSE sdata[Coords(i)]
    <3>1. Flux(i) \in DOMAIN sdata /\ Coords(i) \in DOMAIN sdata
      BY <1>1
    <3>2. Coords(i) \in {Coords(u) : u \in {v \in Items : Bundle(v) = b}} <=> Bundle(i) = b
      BY <1>3
    <3>3. Flux(i) \notin {Coords(u) : u \in {v \in Items : Bundle(v) = b}}
      BY <1>3
    <3> QED
      BY <1>3, <2>2, <3>1, <3>2, <3>3
  <2>4. ASSUME NEW i \in Items, NEW k \in 0 .. Rounds - 1
        PROVE  LoadedBy(i, k)'
    <3>1. k \in Nat /\ j \in Nat /\ Start(k) \in Nat /\ Start(k + 1) \in Nat /\ Start(j) \in Nat
          /\ Bundle(i) \in Group
      BY <1>1, RoundOf, BundleIs
    <3>2. CASE Bundle(i) # b
      <4>1. LoadedBy(i, k) /\ at'[Bundle(i)] = at[Bundle(i)]
        BY <1>1, <1>4, <3>1, <3>2
      <4>2. sdata'[Coords(i)] = sdata[Coords(i)] /\ sdata'[Flux(i)] = sdata[Flux(i)]
        BY <2>3, <3>2
      <4> QED
        BY <1>2, <4>1, <4>2 DEF LoadedBy, Flux, Coords
    <3>3. CASE Bundle(i) = b
      <4>1. PICK n \in Nat : n = at'[Bundle(i)] /\ n = Start(j) + 2
        BY <1>1, <2>1, <3>1, <3>3
      <4>2. ASSUME n <= Start(k + 1) \/ k = Rounds - 1, n > Start(k)
            PROVE  /\ sdata'[Flux(i)] = {FluxOf(k * local_size + i)}
                   /\ sdata'[Coords(i)] = {k * local_size + i}
        <5>1. j = k
          BY <1>1, <4>1, <4>2, ThisRound
        <5>2. at[Bundle(i)] = Start(k) + 1 /\ Start(k + 1) = Start(k) + Round /\ Round > 3
          BY <1>1, <2>1, <3>1, <3>3, <5>1, RoundOf
        <5>3. sdata[Flux(i)] = {FluxOf(k * local_size + i)}
          <6>1. at[Bundle(i)] <= Start(k + 1) /\ at[Bundle(i)] > Start(k)
            BY <1>1, <3>1, <5>2, RoundOf
          <6> QED
            BY <1>4, <6>1 DEF LoadedBy
        <5> QED
          BY <2>3, <3>3, <5>1, <5>3
      <4>3. n > Start(k) + 1 => n > Start(k)
        BY <3>1
      <4> QED
        BY <1>2, <4>1, <4>2, <4>3 DEF LoadedBy, Flux, Coords
    <3> QED
      BY <3>2, <3>3
  <2> QED
    BY <1>2, <2>4 DEF Loaded
<1> QED
  BY <1>5, <1>6
-----------------------------------------------------------------------------
(* The transforms *)

\* The pixels below p.
Below(p) == {x \in Pixels : x < p}

\* What has been seen before the pixels of a round, within them, behind them.
LEMMA SeenIs ==
  ASSUME Sized, NEW k \in Nat
  PROVE  /\ \A r \in 0 .. 3 : Seen(k, r) = Below(k * local_size)
         /\ \A q \in Items : /\ Seen(k, 3 + q) = Below(k * local_size + q)
                             /\ Seen(k, 4 + q) = Below(k * local_size + q + 1)
         /\ Seen(k + 1, 0) = Below(k * local_size + local_size)
<1>1. /\ local_size \in Nat /\ k * local_size \in Nat
      /\ (k + 1) * local_size = k * local_size + local_size
  BY DEF Sized
<1>2. PICK n \in Nat : n = k * local_size
  BY <1>1
<1>3. \A r \in 0 .. 3 : Seen(k, r) = Below(n)
  BY <1>2 DEF Seen, Below, Pixels
<1>4. ASSUME NEW q \in Items
      PROVE  Seen(k, 3 + q) = Below(n + q) /\ Seen(k, 4 + q) = Below(n + q + 1)
  <2>1. q \in Nat
    BY <1>1 DEF Items
  <2>2. (IF 3 + q <= 3 THEN 0 ELSE (3 + q) - 3) = q
    BY <2>1
  <2>3. (IF 4 + q <= 3 THEN 0 ELSE (4 + q) - 3) = q + 1 /\ n + (q + 1) = n + q + 1
    BY <2>1
  <2>4. Seen(k, 3 + q) = {x \in Pixels : x < n + q}
    <3>1. Seen(k, 3 + q) = {x \in Pixels : x < k * local_size + q}
      BY <2>2, Zenon DEF Seen
    <3> QED
      BY <1>2, <3>1
  <2>5. Seen(k, 4 + q) = {x \in Pixels : x < n + q + 1}
    <3>1. Seen(k, 4 + q) = {x \in Pixels : x < k * local_size + (q + 1)}
      BY <2>3, Zenon DEF Seen
    <3> QED
      BY <1>2, <2>3, <3>1
  <2> QED
    BY <2>4, <2>5, Zenon DEF Below
<1>5. Seen(k + 1, 0) = Below(n + local_size)
  <2>1. (k + 1) * local_size + 0 = n + local_size
    BY <1>1, <1>2
  <2> QED
    BY <2>1 DEF Seen, Below
<1> QED
  BY <1>2, <1>3, <1>4, <1>5

\* A pixel that is added is in local memory, with its coordinates.
LEMMA PixelAdded ==
  ASSUME GroupInv, InStep, Loaded, OneBundle \/ OneTile, NEW b \in Group,
         NEW j \in 0 .. Rounds - 1, NEW q \in Items, at[b] = Start(j) + 3 + q
  PROVE  Contribution(q) = IF j * local_size + q < image_size THEN {j * local_size + q} ELSE {}
<1>1. Sized /\ Bundle(q) \in Group /\ at[b] \in Nat /\ at[Bundle(q)] \in Nat
      /\ q \in Nat /\ q < local_size
  <2>1. Sized /\ Bundle(q) \in Group
    BY BundleIs DEF GroupInv
  <2> QED
    BY <2>1 DEF GroupInv, Typed, Items, Sized
<1>2. /\ j \in Nat /\ Start(j) \in Nat /\ Start(j + 1) = Start(j) + Round
      /\ Start(j + 1) \in Nat /\ Round = local_size + 3 /\ Rounds \in Nat
      /\ local_size \in Nat /\ j * local_size \in Nat
  <2>1. local_size \in Nat
    BY <1>1 DEF Sized
  <2>2. j * local_size \in Nat
    BY <2>1, <1>1, RoundOf
  <2> QED
    BY <1>1, <2>1, <2>2, RoundOf
<1>3. at[Bundle(q)] >= Start(j) + 2
  <2>1. at[b] > Start(j) + 2
    BY <1>1, <1>2
  <2> QED
    BY <1>1, <2>1 DEF InStep
<1>4. at[Bundle(q)] <= Start(j + 1) \/ j = Rounds - 1
  <2>1. CASE OneBundle
    <3>1. Bundle(q) = b
      BY <1>1, <2>1, BundleIs
    <3> QED
      BY <1>1, <1>2, <3>1
  <2>2. CASE OneTile
    BY <1>1, <1>2, <2>2 DEF OneTile, Sized
  <2> QED
    BY <2>1, <2>2
<1>5. sdata[Flux(q)] = {FluxOf(j * local_size + q)} /\ sdata[Coords(q)] = {j * local_size + q}
  <2>1. LoadedBy(q, j)
    BY DEF Loaded
  <2>2. at[Bundle(q)] > Start(j) /\ at[Bundle(q)] > Start(j) + 1
    BY <1>1, <1>2, <1>3
  <2> QED
    BY <1>4, <2>1, <2>2 DEF LoadedBy
<1>6. PICK p \in Nat : p = j * local_size + q
  BY <1>1, <1>2
<1>7. CASE p < image_size
  BY <1>5, <1>6, <1>7 DEF Contribution, FluxOf, PADDING
<1>8. CASE ~ (p < image_size)
  BY <1>5, <1>6, <1>8 DEF Contribution, FluxOf
<1> QED
  BY <1>6, <1>7, <1>8

\* It is added to what was below it.
LEMMA NextPixel ==
  ASSUME Sized, NEW p \in Nat
  PROVE  Plus(Below(p), IF p < image_size THEN {p} ELSE {}) = Below(p + 1)
<1>1. image_size \in Nat
  BY DEF Sized
<1>2. CASE p < image_size
  <2>1. Below(p) \cap {p} = {} /\ Below(p) \cup {p} = Below(p + 1)
    BY <1>1, <1>2 DEF Below, Pixels
  <2> QED
    BY <1>2, <2>1 DEF Plus
<1>3. CASE ~ (p < image_size)
  <2>1. Below(p + 1) = Below(p)
    BY <1>1, <1>3 DEF Below, Pixels
  <2> QED
    BY <1>3, <2>1 DEF Plus
<1> QED
  BY <1>2, <1>3

\* Where a bundle is behind a pixel.
LEMMA BehindPixel ==
  ASSUME Sized, NEW j \in 0 .. Rounds - 1, NEW q \in Items, NEW k \in 0 .. Rounds,
         NEW n \in Start(k) .. Start(k + 1) - 1, n = Start(j) + 4 + q
  PROVE  \/ k = j /\ n - Start(k) = 4 + q
         \/ k = j + 1 /\ n - Start(k) = 0 /\ q + 1 = local_size
<1>1. /\ j \in Nat /\ Rounds \in Nat /\ Round = local_size + 3 /\ Start(j) \in Nat
      /\ Start(j + 1) = Start(j) + Round /\ Start(j + 1) \in Nat
  BY RoundOf
<1>2. local_size \in Nat /\ q \in Nat /\ q + 1 <= local_size
  BY DEF Sized, Items
<1>3. k \in Nat /\ j + 1 \in Nat
  BY <1>1
<1>4. Start(k) \in Nat /\ Start(k + 1) = Start(k) + Round
  BY <1>3, Starts
<1>5. ASSUME k < j PROVE FALSE
  <2>1. Start(k) + Round <= Start(j)
    BY <1>1, <1>3, <1>5, Starts
  <2> QED
    BY <1>1, <1>2, <1>4, <2>1
<1>6. ASSUME j + 1 < k PROVE FALSE
  <2>1. Start(j + 1) + Round <= Start(k)
    BY <1>3, <1>6, Starts
  <2> QED
    BY <1>1, <1>2, <1>4, <2>1
<1>7. CASE k = j
  BY <1>1, <1>2, <1>7
<1>8. CASE k = j + 1
  <2>1. Start(k) = Start(j) + Round
    BY <1>1, <1>8
  <2> QED
    BY <1>1, <1>2, <1>4, <1>8, <2>1
<1> QED
  BY <1>1, <1>3, <1>5, <1>6, <1>7, <1>8

LEMMA PixelStep ==
  ASSUME GroupInv, InStep, Loaded, Added, OneBundle \/ OneTile, NEW b \in DOMAIN at, FtPixel(b)
  PROVE  Added'
<1>1. /\ Sized /\ KernelShape /\ b \in Group /\ Moves(b, at[b]) /\ at[b] \in 1 .. Last
      /\ \A c \in Group : at[c] \in Nat /\ at'[c] = IF c = b THEN at[b] + 1 ELSE at[c]
      /\ Lanes(b, local_size, width) = {i \in Items : Bundle(i) = b}
  BY StepMoves, GroupStep, BundleIs DEF GroupInv, Typed, Moves
<1>2. /\ Items' = Items /\ Rounds' = Rounds /\ \A k : Start(k)' = Start(k)
      /\ \A i : Bundle(i)' = Bundle(i) /\ \A k, r : Seen(k, r)' = Seen(k, r)
  BY <1>1, PlanKept DEF Moves
<1>3. PICK j \in 0 .. Rounds - 1 :
        \E q \in Items : at[b] = Start(j) + 3 + q /\ program[at[b]].h = q
  BY <1>1, OpIs DEF FtPixel, Executes
<1>4. PICK q \in Items : at[b] = Start(j) + 3 + q /\ program[at[b]].h = q
  BY <1>3
<1>5. PICK p \in Nat : p = j * local_size + q
  <2>1. j \in Nat /\ local_size \in Nat /\ q \in Nat
    BY <1>1, RoundOf DEF Sized, Items
  <2> QED
    BY <2>1
<1>6. /\ Start(j) \in Nat /\ Start(j + 1) = Start(j) + Round /\ Round = local_size + 3
      /\ j \in Nat /\ j \in 0 .. Rounds
      /\ local_size \in Nat /\ q \in Nat /\ q < local_size /\ Start(j + 1) \in Nat
  BY <1>1, RoundOf DEF Sized, Items
<1>7. ASSUME NEW i \in Items
      PROVE  dft_output'[i] = IF Bundle(i) = b THEN Below(p + 1) ELSE dft_output[i]
  <2>1. dft_output'[i] = IF Bundle(i) = b THEN Plus(dft_output[i], Contribution(q))
                                          ELSE dft_output[i]
    BY <1>1, <1>4 DEF FtPixel
  <2>2. CASE Bundle(i) = b
    <3>1. at[b] \in Start(j) .. Start(j + 1) - 1 /\ at[b] - Start(j) = 3 + q
      BY <1>4, <1>6
    <3>2. dft_output[i] = Seen(j, 3 + q)
      BY <1>6, <2>2, <3>1 DEF Added, AddedBy
    <3>3. dft_output[i] = Below(p)
      BY <1>1, <1>5, <1>6, <3>2, SeenIs
    <3>4. Contribution(q) = IF p < image_size THEN {p} ELSE {}
      BY <1>1, <1>4, <1>5, PixelAdded
    <3> QED
      BY <1>1, <2>1, <2>2, <3>3, <3>4, NextPixel
  <2> QED
    BY <2>1, <2>2
<1>8. ASSUME NEW i \in Items, NEW k \in 0 .. Rounds,
             at'[Bundle(i)] \in Start(k) .. Start(k + 1) - 1
      PROVE  dft_output'[i] = Seen(k, at'[Bundle(i)] - Start(k))
  <2>1. Bundle(i) \in Group
    BY <1>1, BundleIs
  <2>2. CASE Bundle(i) # b
    BY <1>1, <1>7, <1>8, <2>1, <2>2 DEF Added, AddedBy
  <2>3. CASE Bundle(i) = b
    <3>1. at'[Bundle(i)] = Start(j) + 4 + q
      BY <1>1, <1>4, <1>6, <2>1, <2>3
    <3>2. CASE k = j /\ at'[Bundle(i)] - Start(k) = 4 + q
      <4>1. Seen(j, 4 + q) = Below(p + 1)
        BY <1>1, <1>5, <1>6, SeenIs
      <4> QED
        BY <1>7, <2>3, <3>2, <4>1
    <3>3. CASE k = j + 1 /\ at'[Bundle(i)] - Start(k) = 0 /\ q + 1 = local_size
      <4>1. Seen(j + 1, 0) = Below(j * local_size + local_size)
        BY <1>1, <1>6, SeenIs
      <4>2. p + 1 = j * local_size + local_size
        BY <1>5, <1>6, <3>3
      <4> QED
        BY <1>7, <2>3, <3>3, <4>1, <4>2
    <3> QED
      BY <1>1, <1>8, <3>1, <3>2, <3>3, BehindPixel
  <2> QED
    BY <2>2, <2>3
<1> QED
  BY <1>2, <1>8 DEF Added, AddedBy

\* The other steps add nothing, and see nothing.
LEMMA OtherStep ==
  ASSUME GroupInv, Added, NEW b \in DOMAIN at,
         LoadPixels(b) \/ ComputeIndicies(b) \/ WaitBarrier(b) \/ Output(b)
  PROVE  Added'
<1>1. /\ Sized /\ KernelShape /\ b \in Group /\ Moves(b, at[b]) /\ at[b] \in 1 .. Last
      /\ \A c \in Group : at[c] \in Nat /\ at'[c] = IF c = b THEN at[b] + 1 ELSE at[c]
  BY StepMoves, GroupStep DEF GroupInv, Typed, Moves
<1>2. /\ Items' = Items /\ Rounds' = Rounds /\ \A k : Start(k)' = Start(k)
      /\ \A i : Bundle(i)' = Bundle(i) /\ \A k, r : Seen(k, r)' = Seen(k, r)
  BY <1>1, PlanKept DEF Moves
<1>3. dft_output' = dft_output /\ program[at[b]].op # "ft_pixel"
  <2>1. CASE LoadPixels(b) \/ ComputeIndicies(b)
    BY <2>1 DEF LoadPixels, ComputeIndicies, StoreTile, Executes
  <2>2. CASE WaitBarrier(b)
    BY <2>2 DEF WaitBarrier, PassBarrier, Executes
  <2>3. CASE Output(b)
    BY <2>3 DEF Output, Executes
  <2> QED
    BY <2>1, <2>2, <2>3
<1>4. ASSUME NEW i \in Items, NEW k \in 0 .. Rounds,
             at'[Bundle(i)] \in Start(k) .. Start(k + 1) - 1
      PROVE  dft_output'[i] = Seen(k, at'[Bundle(i)] - Start(k))
  <2>1. Bundle(i) \in Group
    BY <1>1, BundleIs
  <2>2. CASE Bundle(i) # b
    BY <1>1, <1>3, <1>4, <2>1, <2>2 DEF Added, AddedBy
  <2>3. CASE Bundle(i) = b /\ at[b] = Last
    <3>1. at'[b] = Start(Rounds) + 1 /\ Rounds \in Nat /\ Start(Rounds) \in Nat /\ k \in Nat
          /\ k + 1 \in Nat /\ Round \in Nat /\ Round > 3 /\ Start(Rounds + 1) = Start(Rounds) + Round
      BY <1>1, <2>3, Starts DEF Last, Sized, Round
    <3>2. k = Rounds
      <4>1. ASSUME k < Rounds PROVE FALSE
        <5>1. Start(k) + Round <= Start(Rounds) /\ Start(k + 1) = Start(k) + Round
              /\ Start(k) \in Nat
          BY <1>1, <3>1, <4>1, Starts
        <5> QED
          BY <1>4, <2>3, <3>1, <5>1
      <4> QED
        BY <3>1, <4>1
    <3>3. dft_output[i] = Seen(Rounds, 0)
      <4>1. at[b] \in Start(Rounds) .. Start(Rounds + 1) - 1 /\ at[b] - Start(Rounds) = 0
            /\ Rounds \in 0 .. Rounds
        BY <2>3, <3>1 DEF Last
      <4> QED
        BY <2>3, <4>1 DEF Added, AddedBy
    <3>4. at'[Bundle(i)] - Start(k) = 1
      BY <2>3, <3>1, <3>2
    <3>5. Seen(Rounds, 0) = Seen(Rounds, 1)
      BY <1>1, <3>1, SeenIs
    <3> QED
      BY <1>3, <3>2, <3>3, <3>4, <3>5
  <2>4. CASE Bundle(i) = b /\ at[b] # Last
    <3>1. PICK j \in 0 .. Rounds - 1, r \in 0 .. Round - 1 : at[b] = Start(j) + r
      BY <1>1, <2>4, Places
    <3>2. /\ j \in Nat /\ j \in 0 .. Rounds /\ Rounds \in Nat /\ Round \in Nat
          /\ Round = local_size + 3 /\ Start(j) \in Nat /\ Start(j + 1) = Start(j) + Round
          /\ Round > 3
      BY <1>1, RoundOf
    <3>3. r \in 0 .. 2
      <4>1. ASSUME r > 2 PROVE FALSE
        <5>0. local_size \in Nat
          BY <1>1 DEF Sized
        <5>1. r - 3 \in Items /\ Start(j) + 3 + (r - 3) = at[b]
          BY <3>1, <3>2, <4>1, <5>0 DEF Items
        <5> QED
          BY <1>1, <1>3, <5>1, OpAt
      <4> QED
        BY <4>1
    <3>4. at'[b] = Start(j) + (r + 1) /\ k \in Nat /\ Start(k) \in Nat
          /\ Start(k + 1) = Start(k) + Round
      <4>1. k \in Nat
        BY <3>2
      <4>2. Start(k) \in Nat /\ Start(k + 1) = Start(k) + Round
        BY <1>1, <4>1, Starts
      <4>3. at'[b] = at[b] + 1
        BY <1>1
      <4>4. at'[b] = Start(j) + (r + 1)
        BY <3>1, <3>2, <4>3
      <4> QED
        BY <4>1, <4>2, <4>4
    <3>5. k = j
      <4>1. ASSUME k < j PROVE FALSE
        <5>1. Start(k) + Round <= Start(j)
          BY <1>1, <3>2, <3>4, <4>1, Starts
        <5> QED
          BY <1>4, <2>4, <3>2, <3>3, <3>4, <5>1
      <4>2. ASSUME j < k PROVE FALSE
        <5>1. Start(j) + Round <= Start(k)
          BY <1>1, <3>2, <3>4, <4>2, Starts
        <5> QED
          BY <1>4, <2>4, <3>2, <3>3, <3>4, <5>1
      <4> QED
        BY <3>2, <3>4, <4>1, <4>2
    <3>6. dft_output[i] = Seen(j, r)
      <4>1. at[b] \in Start(j) .. Start(j + 1) - 1 /\ at[b] - Start(j) = r
        BY <3>1, <3>2
      <4> QED
        BY <2>4, <3>2, <4>1 DEF Added, AddedBy
    <3>7. at'[Bundle(i)] - Start(k) = r + 1
      BY <2>4, <3>2, <3>4, <3>5
    <3>8. Seen(j, r) = Seen(j, r + 1)
      <4>1. r \in 0 .. 3 /\ r + 1 \in 0 .. 3
        BY <3>3
      <4> QED
        BY <1>1, <3>2, <4>1, SeenIs
    <3> QED
      BY <1>3, <3>5, <3>6, <3>7, <3>8
  <2> QED
    BY <2>2, <2>3, <2>4
<1> QED
  BY <1>2, <1>4 DEF Added, AddedBy

\* What is written has all pixels: behind the last round none is missing.
LEMMA OutputStep ==
  ASSUME GroupInv, Added, DftOfImage, NEW b \in DOMAIN at,
         LoadPixels(b) \/ ComputeIndicies(b) \/ FtPixel(b) \/ WaitBarrier(b) \/ Output(b)
  PROVE  DftOfImage'
<1>1. Sized /\ Moves(b, at[b]) /\ image_size' = image_size
  BY StepMoves DEF GroupInv, Moves, plan
<1>2. CASE ~ Output(b)
  <2>1. output' = output
    BY <1>2, StepMoves
  <2> QED
    BY <1>1, <2>1 DEF DftOfImage
<1>3. CASE Output(b)
  <2>1. at[b] = Last /\ Lanes(b, local_size, width) = {i \in Items : Bundle(i) = b}
    BY <1>1, <1>3, StepMoves, BundleIs
  <2>2. /\ Rounds \in Nat /\ Rounds \in 0 .. Rounds /\ local_size \in Nat
        /\ image_size \in Nat /\ image_size <= Rounds * local_size /\ Rounds * local_size \in Nat
    BY <1>1 DEF Sized
  <2>3. Last \in Nat /\ Start(Rounds + 1) = Last + Round /\ Round \in Nat \ {0}
    BY <1>1, <2>2, Starts DEF Last
  <2>4. Seen(Rounds, 0) = 0 .. image_size - 1
    <3>1. PICK n \in Nat : n = Rounds * local_size
      BY <2>2
    <3>2. Seen(Rounds, 0) = Below(n)
      BY <1>1, <2>2, <3>1, SeenIs
    <3>3. \A x \in 0 .. image_size - 1 : x < n
      BY <2>2, <3>1
    <3> QED
      BY <3>2, <3>3 DEF Below, Pixels
  <2>5. ASSUME NEW i \in Items, Bundle(i) = b
        PROVE  dft_output[i] = 0 .. image_size - 1
    <3>1. at[Bundle(i)] \in Start(Rounds) .. Start(Rounds + 1) - 1 /\ at[Bundle(i)] - Start(Rounds) = 0
      BY <2>1, <2>3, <2>5 DEF Last
    <3>2. dft_output[i] = Seen(Rounds, 0)
      BY <2>2, <3>1 DEF Added, AddedBy
    <3> QED
      BY <2>4, <3>2
  <2>6. ASSUME NEW i \in DOMAIN output' PROVE output'[i] = 0 .. image_size - 1
    <3>1. CASE i \in DOMAIN output
      <4>1. output'[i] = output[i]
        BY <1>3, <3>1 DEF Output
      <4> QED
        BY <3>1, <4>1 DEF DftOfImage
    <3>2. CASE i \notin DOMAIN output
      <4>1. i \in Items /\ Bundle(i) = b /\ output'[i] = dft_output[i]
        BY <1>3, <2>1, <3>2 DEF Output
      <4> QED
        BY <2>5, <4>1
    <3> QED
      BY <3>1, <3>2
  <2> QED
    BY <1>1, <2>6 DEF DftOfImage
<1> QED
  BY <1>2, <1>3
-----------------------------------------------------------------------------
(* The theorems *)

\* A group executes the kernel of its launch from top to bottom, each bundle
\* for itself, and an item has written exactly if its bundle is done and it has
\* a UV point (ft_dft2d.cl 103-179).
THEOREM GroupInvariant == Spec => []GroupInv
<1>1. Init => GroupInv
  BY InitGroup
<1>2. GroupInv /\ [Next]_vars => GroupInv'
  <2> SUFFICES ASSUME GroupInv, [Next]_vars PROVE GroupInv'
    OBVIOUS
  <2>1. CASE Next
    BY <2>1, GroupStep DEF Next
  <2>2. CASE UNCHANGED vars
    BY <2>2 DEF vars, plan, group, GroupInv, Sized, KernelShape, RoundAt, Typed, Written, Items,
                Group, Bundle, Rounds, Start, Round, Last
  <2> QED
    BY <2>1, <2>2
<1> QED
  BY <1>1, <1>2, PTL DEF Spec

\* The number of items is that of whole groups, one more than the UV points fill.
LEMMA GroupsLaunched ==
  ASSUME Sized
  PROVE  Groups = 0 .. nuv \div local_size
<1> DEFINE k == nuv \div local_size
<1>1. nuv \in Nat /\ local_size \in Nat \ {0}
  BY DEF Sized
<1>2. k \in Nat
  BY <1>1, DivIs
<1> HIDE DEF k
<1>3. (k + 1) * local_size = (k + 1) * local_size + 0 /\ (k + 1) * local_size \in Nat
  BY <1>1, <1>2
<1>4. ((k + 1) * local_size) \div local_size = k + 1
  BY ONLY <1>1, <1>2, <1>3, ModIs
<1>5. global \div local_size = k + 1
  BY <1>4 DEF global, next_multiple, k
<1> QED
  BY <1>2, <1>5 DEF Groups, k

\* Each UV point belongs to one item of one of the groups: the quotient and the
\* remainder of its division by the group size.
LEMMA UVPointsShared ==
  ASSUME Sized, NEW uv \in 0 .. nuv - 1
  PROVE  \E b \in Groups, i \in Items :
           \A c \in Groups, j \in Items : UVPoint(c, j) = uv <=> c = b /\ j = i
<1>1. nuv \in Nat /\ local_size \in Nat \ {0} /\ uv \in Nat /\ uv <= nuv
  BY DEF Sized
<1>2. PICK b \in Nat, i \in 0 .. local_size - 1 :
        uv = b * local_size + i /\ uv \div local_size = b /\ uv % local_size = i
  BY <1>1, DivIs
<1>3. b \in Groups /\ i \in Items
  <2>1. b <= nuv \div local_size /\ nuv \div local_size \in Nat
    BY <1>1, <1>2, DivMonotone, DivIs
  <2> QED
    BY <1>2, <2>1, GroupsLaunched DEF Items
<1>4. ASSUME NEW c \in Groups, NEW j \in Items, UVPoint(c, j) = uv
      PROVE  c = b /\ j = i
  <2>1. c \in Nat /\ j \in 0 .. local_size - 1 /\ uv = c * local_size + j
    BY <1>1, <1>4, GroupsLaunched DEF Items, UVPoint
  <2> QED
    BY <1>1, <1>2, <2>1, ModIs
<1>5. UVPoint(b, i) = uv
  BY <1>2 DEF UVPoint
<1> QED
  BY <1>3, <1>4, <1>5

\* Whatever the sizes of a launch, its groups share out the UV points, none of
\* which is left out or given twice, and a finished group has written each of
\* its own and nothing else: the items beyond nuv that fill up the last group
\* leave the output buffer alone (CRoutine_DFT.cpp 69-94, ft_dft2d.cl 176-178).
THEOREM EveryUVPointWritten == Spec => []EveryUVPointOnce
<1>1. GroupInv => EveryUVPointOnce
  <2> SUFFICES ASSUME GroupInv PROVE EveryUVPointOnce
    OBVIOUS
  <2>1. ASSUME Finished(program)
        PROVE  {UVPoint(bid, i) : i \in DOMAIN output}
                 = {UVPoint(bid, i) : i \in Items} \cap (0 .. nuv - 1)
    <3>1. \A i \in Items : at[Bundle(i)] > Last
      BY <2>1, BundleIs, OpAt DEF Finished, GroupInv, Typed
    <3>2. DOMAIN output = {i \in Items : UVPoint(bid, i) < nuv}
      BY <3>1 DEF GroupInv, Written, UVPoint
    <3>3. \A i \in Items : UVPoint(bid, i) \in Nat
      BY DEF GroupInv, Sized, Items, UVPoint
    <3>4. nuv \in Nat
      BY DEF GroupInv, Sized
    <3>5. \A i \in Items : UVPoint(bid, i) < nuv <=> UVPoint(bid, i) \in 0 .. nuv - 1
      BY <3>3, <3>4
    <3> QED
      BY <3>2, <3>5
  <2>2. \A uv \in 0 .. nuv - 1 : \E b \in Groups, i \in Items :
          \A c \in Groups, j \in Items : UVPoint(c, j) = uv <=> c = b /\ j = i
    BY UVPointsShared DEF GroupInv
  <2> QED
    BY <2>1, <2>2 DEF EveryUVPointOnce
<1> QED
  BY <1>1, GroupInvariant, PTL

\* A group of one bundle is in lockstep, a single tile is never overwritten: in
\* both cases the transforms are of the whole image.
ImageInv ==
  /\ GroupInv /\ InStep /\ Loaded
  /\ OneBundle \/ OneTile => Added /\ DftOfImage

LEMMA InitImage ==
  ASSUME Init
  PROVE  ImageInv
<1>1. GroupInv /\ Sized /\ \A b \in Group : at[b] = 1
  BY InitGroup DEF GroupInv
<1>2. \A i \in Items : Bundle(i) \in Group
  BY <1>1, BundleIs
<1>3. \A k \in Nat : Start(k) \in Nat \ {0} /\ Start(k + 1) = Start(k) + Round
  BY <1>1, Starts
<1>4. Rounds \in Nat /\ Start(0) = 1 /\ Round \in Nat \ {0}
  BY <1>1, Starts DEF Sized
<1>5. InStep
  <2>1. \A k \in 0 .. Rounds - 1 : ~ (1 > Start(k) + 2)
    BY <1>3, <1>4
  <2> QED
    BY <1>1, <2>1 DEF InStep
<1>6. Loaded
  <2>1. \A k \in 0 .. Rounds - 1 : ~ (1 > Start(k)) /\ ~ (1 > Start(k) + 1)
    BY <1>3, <1>4
  <2> QED
    BY <1>1, <1>2, <2>1 DEF Loaded, LoadedBy
<1>7. Added
  <2>1. ASSUME NEW i \in Items, NEW k \in 0 .. Rounds, 1 \in Start(k) .. Start(k + 1) - 1
        PROVE  dft_output[i] = Seen(k, 1 - Start(k))
    <3>1. k \in Nat /\ Start(k) = 1
      <4>1. k \in Nat /\ Start(k) \in Nat \ {0}
        BY <1>3, <1>4
      <4> QED
        BY <1>3, <2>1, <4>1
    <3>2. k = 0
      <4>1. ASSUME 0 < k PROVE FALSE
        <5>1. Start(0) + Round <= Start(k)
          BY <1>1, <3>1, <4>1, Starts
        <5> QED
          BY <1>4, <3>1, <5>1
      <4> QED
        BY <3>1, <4>1
    <3>3. local_size \in Nat /\ 0 * local_size = 0
      BY <1>1 DEF Sized
    <3>4. Seen(0, 0) = {}
      <4>1. Seen(0, 0) = Below(0)
        BY <1>1, <3>3, SeenIs
      <4> QED
        BY <4>1 DEF Below, Pixels
    <3>5. dft_output[i] = {}
      BY DEF Init
    <3> QED
      BY <3>1, <3>2, <3>4, <3>5
  <2> QED
    BY <1>1, <1>2, <2>1 DEF Added, AddedBy
<1>8. DftOfImage
  BY DEF Init, DftOfImage
<1> QED
  BY <1>1, <1>5, <1>6, <1>7, <1>8 DEF ImageInv

LEMMA ImageStep ==
  ASSUME ImageInv, NEW b \in DOMAIN at,
         LoadPixels(b) \/ ComputeIndicies(b) \/ FtPixel(b) \/ WaitBarrier(b) \/ Output(b)
  PROVE  ImageInv'
<1>1. GroupInv /\ InStep /\ Loaded
  BY DEF ImageInv
<1>2. GroupInv' /\ InStep'
  BY <1>1, GroupStep, InStepKept
<1>3. Loaded'
  BY <1>1, LoadStep, LoadedKept
<1>4. (OneBundle \/ OneTile)' <=> OneBundle \/ OneTile
  <2>1. Moves(b, at[b])
    BY <1>1, StepMoves
  <2> QED
    BY <2>1 DEF Moves, plan, OneBundle, OneTile
<1>5. ASSUME OneBundle \/ OneTile PROVE Added' /\ DftOfImage'
  <2>1. Added /\ DftOfImage
    BY <1>5 DEF ImageInv
  <2>2. Added'
    BY <1>1, <1>5, <2>1, PixelStep, OtherStep
  <2>3. DftOfImage'
    BY <1>1, <2>1, OutputStep
  <2> QED
    BY <2>2, <2>3
<1> QED
  BY <1>2, <1>3, <1>4, <1>5 DEF ImageInv

\* What the kernel writes is the transform of the whole image, each pixel added
\* once and at its own coordinates, if the group runs in lockstep or the image
\* fits into one tile (ft_dft2d.cl 128-170).  Otherwise no barrier keeps a bundle
\* from loading the next tile over one that others still read.
THEOREM TransformIsWhole == Spec => [](OneBundle \/ OneTile => DftOfImage)
<1>1. Init => ImageInv
  BY InitImage
<1>2. ImageInv /\ [Next]_vars => ImageInv'
  <2> SUFFICES ASSUME ImageInv, [Next]_vars PROVE ImageInv'
    OBVIOUS
  <2>1. CASE Next
    BY <2>1, ImageStep DEF Next
  <2>2. CASE UNCHANGED vars
    <3>1. /\ UNCHANGED plan /\ UNCHANGED <<dft_output, output, at, sdata, reg>>
      BY <2>2 DEF vars, group
    <3>2. GroupInv /\ InStep /\ Loaded /\ Sized /\ KernelShape
      BY DEF ImageInv, GroupInv
    <3>3. /\ Sized' /\ KernelShape' /\ Items' = Items /\ Group' = Group /\ Rounds' = Rounds
          /\ Last' = Last /\ \A k : Start(k)' = Start(k)
          /\ \A i : Bundle(i)' = Bundle(i)
          /\ \A k, r : Seen(k, r)' = Seen(k, r)
          /\ \A p : FluxOf(p)' = FluxOf(p)
      BY <3>1, <3>2, PlanKept
    <3>4. /\ local_size' = local_size /\ width' = width /\ image_size' = image_size
          /\ nuv' = nuv /\ bid' = bid
      BY <3>1 DEF plan
    <3>5. GroupInv'
      BY <3>1, <3>2, <3>3, <3>4 DEF GroupInv, Typed, Written, Flux, Coords
    <3>6. InStep'
      BY <3>1, <3>2, <3>3 DEF InStep
    <3>7. Loaded'
      BY <3>1, <3>2, <3>3, <3>4 DEF Loaded, LoadedBy, Flux, Coords
    <3>8. ASSUME OneBundle \/ OneTile PROVE Added' /\ DftOfImage'
      <4>1. Added /\ DftOfImage
        BY <3>8 DEF ImageInv
      <4>2. Added'
        BY <3>1, <3>3, <4>1 DEF Added, AddedBy
      <4>3. DftOfImage'
        BY <3>1, <3>4, <4>1 DEF DftOfImage
      <4> QED
        BY <4>2, <4>3
    <3>9. (OneBundle \/ OneTile)' <=> OneBundle \/ OneTile
      BY <3>4 DEF OneBundle, OneTile
    <3> QED
      BY <3>5, <3>6, <3>7, <3>8, <3>9 DEF ImageInv
  <2> QED
    BY <2>1, <2>2
<1>3. ImageInv => (OneBundle \/ OneTile => DftOfImage)
  BY DEF ImageInv
<1> QED
  BY <1>1, <1>2, <1>3, PTL DEF Spec
=============================================================================
