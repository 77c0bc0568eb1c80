---------------------------- MODULE MCH264Convert ----------------------------
(* Units for H264Convert: the parameter sets, a frame no other one refers   *)
(* to, whose header is 01, and a delimiter, which is not kept.              *)
EXTENDS H264Convert

MCUnits == {<<103, 2>>, <<104, 2>>, <<1, 2>>, <<9, 0, 2>>}
=============================================================================
