----------------------------- MODULE DftKernel -----------------------------
(***************************************************************************)
(* The Fourier transform of the image: CRoutine_DFT::FT enqueues the       *)
(* kernel dft_2d with one work-item per UV point, rounded up to a multiple *)
(* of the group size.  The items of a group load the image tile by tile    *)
(* into local memory - fluxes and coordinates apart - and each item adds   *)
(* every pixel of the tile to its own transform.                           *)
(*                                                                         *)
(* Groups share only the image, so the module follows one of them.  A      *)
(* transform is known by the pixels added to it; a flux that was used with *)
(* the coordinates of another pixel is MISPLACED.                          *)
(***************************************************************************)
EXTENDS WorkGroup, Geometry

\* [local, width, pixels, nuv]: the group size the kernel gets and the lockstep
\* width of the device, the size of the image, the number of UV points.
CONSTANT Launches

ASSUME LaunchAssumption ==
  Launches \subseteq [local : Nat \ {0}, width : Nat \ {0}, pixels : Nat \ {0}, nuv : Nat \ {0}]

VARIABLES
  local_size, width, image_size, nuv,
  bid,             \* the group that is followed
  program,
  dft_output,      \* the transform of each item of the group
  output           \* the elements of the output buffer the group wrote

plan == <<local_size, width, image_size, nuv, bid, program>>
vars == <<plan, dft_output, output, group>>

Items == 0 .. local_size - 1
\* The number of items.  Mutant: the incomplete last group is left out.
globalRoundedDown == (nuv \div local_size) * local_size
global == next_multiple(nuv, local_size)
Groups == 0 .. global \div local_size - 1
UVPoint(b, i) == b * local_size + i      \* of item i of group b
PADDING == -3      \* flux outside the image

\* One round of the loop over the image.  Mutant: without the barrier.
TileUnsynchronised(start, size) ==
  <<Instr("load_pixels", start), Instr("compute_indicies", start)>>
  \o [pixel \in 1 .. size |-> Instr("ft_pixel", pixel - 1)]
Tile(start, size) ==
  <<Instr("load_pixels", start), Instr("compute_indicies", start), Barrier>>
  \o [pixel \in 1 .. size |-> Instr("ft_pixel", pixel - 1)]

Tiles(n, size) == (n + size - 1) \div size
Dft2d(n, size) ==
  LET round == Len(Tile(0, size))
  IN [i \in 1 .. Tiles(n, size) * round |->
        Tile(((i - 1) \div round) * size, size)[1 + ((i - 1) % round)]]
     \o <<Instr("output", 0)>>

Flux(k) == <<"image", k>>
Coords(k) == <<"coords", k>>

Init ==
  /\ \E l \in Launches :
       local_size = l.local /\ width = l.width /\ image_size = l.pixels /\ nuv = l.nuv
  /\ bid \in Groups
  /\ program = Dft2d(image_size, local_size)
  /\ dft_output = [i \in Items |-> {}]
  /\ output = << >>
  /\ LET g == GroupInit(local_size, width, {Flux(i) : i \in Items} \cup {Coords(i) : i \in Items})
     IN at = g.at /\ sdata = g.sdata /\ reg = g.reg

\* Bundle b stores value(lid) at address(lid), for each of its items.
StoreTile(b, address(_), value(_)) ==
  /\ sdata' = [a \in DOMAIN sdata |->
       IF a \in {address(i) : i \in Lanes(b, local_size, width)} THEN {value(a[2])} ELSE sdata[a]]
  /\ Advance(b)
  /\ UNCHANGED <<plan, dft_output, output, reg>>

\* Both bound checks, lid > size, never apply.
LoadPixels(b) ==
  /\ Executes(program, b, "load_pixels")
  /\ LET start == program[at[b]].h IN
       StoreTile(b, Flux, LAMBDA lid : IF start + lid < image_size THEN start + lid ELSE PADDING)

ComputeIndicies(b) ==
  /\ Executes(program, b, "compute_indicies")
  /\ LET start == program[at[b]].h IN StoreTile(b, Coords, LAMBDA lid : start + lid)

\* A flux of zero contributes nothing, whatever the coordinates.
MISPLACED == -4
Contribution(pixel) ==
  {IF {f} = sdata[Coords(pixel)] THEN f ELSE MISPLACED : f \in sdata[Flux(pixel)] \ {PADDING}}

FtPixel(b) ==
  /\ Executes(program, b, "ft_pixel")
  /\ dft_output' = [i \in Items |->
       IF i \in Lanes(b, local_size, width)
         THEN Plus(dft_output[i], Contribution(program[at[b]].h)) ELSE dft_output[i]]
  /\ Advance(b)
  /\ UNCHANGED <<plan, output, sdata, reg>>

WaitBarrier(b) ==
  /\ PassBarrier(program, b)
  /\ UNCHANGED <<plan, dft_output, output>>

Writes(tid) == tid < nuv
Output(b) ==
  /\ Executes(program, b, "output")
  /\ output' = [i \in DOMAIN output \cup
                      {j \in Lanes(b, local_size, width) : Writes(UVPoint(bid, j))} |->
                  IF i \in DOMAIN output THEN output[i] ELSE dft_output[i]]
  /\ Advance(b)
  /\ UNCHANGED <<plan, dft_output, sdata, reg>>

Next == \E b \in DOMAIN at :
  LoadPixels(b) \/ ComputeIndicies(b) \/ FtPixel(b) \/ WaitBarrier(b) \/ Output(b)

Spec == Init /\ [][Next]_vars
-----------------------------------------------------------------------------
\* ft_dft2d.cl: "Computes the DFT of a 2D image": what an item writes has
\* every pixel of the image exactly once, at its own coordinates, however the
\* bundles of the group interleave.
DftOfImage ==
  \A i \in DOMAIN output : output[i] = 0 .. image_size - 1

\* Each UV point is that of exactly one item of exactly one of the groups that
\* are launched, and a group that has finished wrote the transforms of its own:
\* together they write the transform of every UV point once and nothing beyond,
\* although there are always more items than UV points (CRoutine_DFT.cpp 69-94,
\* ft_dft2d.cl 116, 176-178).
EveryUVPointOnce ==
  /\ \A uv \in 0 .. nuv - 1 : \E b \in Groups, i \in Items :
       \A c \in Groups, j \in Items : UVPoint(c, j) = uv <=> c = b /\ j = i
  /\ Finished(program) =>
       {UVPoint(bid, i) : i \in DOMAIN output}
         = {UVPoint(bid, i) : i \in Items} \cap (0 .. nuv - 1)
=============================================================================
