---------------------------- MODULE MCUrlManager ----------------------------
(***************************************************************************)
(* An instance of UrlManager: four urls, two of one file, and of the two    *)
(* others one in the same directory and one with the same end of the md5.  *)
(***************************************************************************)
EXTENDS UrlManager, TLC

CONSTANTS u1, u2, u3, u4

MCUrls == {u1, u2, u3, u4}
MCLen == (u1 :> 1 @@ u2 :> 1 @@ u3 :> 1 @@ u4 :> 2)
MCTail == (u1 :> "a" @@ u2 :> "a" @@ u3 :> "b" @@ u4 :> "a")
MCLens == <<1, 2>>
MCTails == <<"a", "b">>
Symmetry == Permutations(Reqs)
=============================================================================
