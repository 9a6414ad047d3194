----------------------------- MODULE MC_CArray ------------------------------
(* Model-checking instance of CArray.                                      *)
EXTENDS CArray, TLC

\* THREAD_INCREMENT is 1 << 32 in the code; any power of two above the
\* largest byte total behaves the same under the mask and fits TLC's
\* integers.
MCThreadIncrement == 2^20

\* THREAD_MASK as written in extract_carray_log_size.
MCThreadMask == 65535

ThreadSymmetry == Permutations(Threads)
=============================================================================
