---------------------------- MODULE BlitBuildMC -----------------------------
(* Small requests for BlitBuild: aligned and not, contiguous and strided,  *)
(* flipped (a frame-buffer stride of -12), empty and too large ones, ones  *)
(* that end behind the last frame-buffer address, and ones whose lines and *)
(* strides wrap (26 * 3 = 14 and 10 * 7 = 6, modulo 64).                   *)
EXTENDS BlitBuild

SmallRequests ==
  [mem_addr : {0, 6, 13}, mem_stride : {4, 10, 12, 26}, fb_addr : {16, 19, 48},
   fb_stride : {U32 - 12, 4, 10, 14}, num_lines : {0, 1, 2, 3, 4, 7},
   line_length : {0, 3, 4, 10}]
=============================================================================
