------------------------- MODULE MCChannelSwitching -------------------------
(* Instances of ChannelSwitching.  The iteration order of the pool's hash map *)
(* is unspecified: the coordinated-CAC task works last with two radios and     *)
(* first with one.                                                             *)
EXTENDS ChannelSwitching

TwoRadios == <<"wlan0", "wlan2", "cac">>
OneRadio == <<"cac", "wlan0">>

=============================================================================
