---------------------------- MODULE MCPosterPool ----------------------------
(* Model values for PosterPool: three videos, the last a copy of the first.  *)
EXTENDS PosterPool

MCJobs == 1 .. 3
MCContent == <<"a", "b", "a">>
MCContents == {"a", "b"}
TwoSlots == 1 .. 2
=============================================================================
