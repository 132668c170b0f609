---------------------------- MODULE MCMultiChannel ----------------------------
(***************************************************************************)
(* Small geometries for MultiChannel: up to two channels and four ranks.   *)
(***************************************************************************)
EXTENDS MultiChannel

\* Rows and columns never come as one, banks may.
Devices ==
    {[bank |-> banks, row |-> 2, col |-> 4, BL |-> burst] : banks \in {1, 2}, burst \in {2, 4}}

\* Zero and three channels are refused by the code.
Systems == {[chan |-> chans, bus |-> 2] : chans \in 0 .. 3}

\* Options that are not part of the geometry leave num alone.
NoGeometryOption == {<<>>}

ChannelOption == {[chan |-> chans] : chans \in {1, 2}}
=============================================================================
