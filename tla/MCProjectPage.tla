---------------------------- MODULE MCProjectPage ----------------------------
(***************************************************************************)
(* Instances of ProjectPage for TLC.  A project is there with a screenshot *)
(* and a role, or with an uploaded video.                                  *)
(***************************************************************************)
EXTENDS ProjectPage, TLC

CONSTANTS u1, u2, u3, old, new

Seed(video, media) ==
  [media |-> media, likes |-> 0,
   scalar |-> [f \in Scalars |-> CASE f = "status" -> "PUBLISHED" [] f \in {"role", "title"} -> old
                                   [] f = "video" -> video [] OTHER -> None]]
MCSeeds ==
  UNION {{[s EXCEPT !.likes = n] : s \in {Seed(None, {[type |-> "SCREENSHOT", url |-> u1]}),
                                          Seed(u1, {[type |-> "VIDEO", url |-> u1]})}} : n \in 0 .. 1}
Symmetry == Permutations({u2, u3})
==============================================================================
