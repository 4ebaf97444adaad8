---------------------------- MODULE MCFragmentation ----------------------------
EXTENDS Fragmentation

\* Not above the threshold; two fragments of which the first is padded; two that
\* overflow the buffer; a TLV that is refused after a fragment was sent; and a TLV of
\* exactly the threshold.
AllCmdus == {<<2, 3>>, <<2, 5, 6>>, <<4, 7, 8>>, <<3, 5, 11, 12>>, <<5, 6>>}

MessageAndFragment == (0..MaxCalls) \X (0..(FragmentIds - 1))

=============================================================================
