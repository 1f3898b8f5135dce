---------------------------- MODULE MCEdgeDetect ----------------------------
(* TLC instance of EdgeDetect: a kernel of three, black and white pixels,    *)
(* the default thresholds, and lines long enough for two stripes of different*)
(* widths.  A size_t of 4 bits has the residue of 2^64 modulo the size.      *)
EXTENDS EdgeDetect

MCKernelGauss == <<1>>

(* From here the image of 8 by 2 pixels is met along its upper row, at the   *)
(* corner, or not at all.                                                    *)
MCCentres == {<<-1, 0>>}
MCDirections == {<<1, 0>>, <<2, 1>>, <<-1, 0>>}

(* The kernel of the program (ray_localizer.cpp:20-23): none of the sums that*)
(* FilterLine saturates leaves int16_t, whatever the image.                  *)
ProgramKernel == Convolve(KernelDiff, <<2, 22, 49, 22, 2>>)
ASSUME ProgramKernelAssumption ==
    /\ ProgramKernel = <<2, 22, 47, 0, -47, -22, -2>>
    /\ 255 * (2 + 22 + 47) <= 32767
=============================================================================
