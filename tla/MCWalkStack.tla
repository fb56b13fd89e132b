---------------------------- MODULE MCWalkStack ----------------------------
(***************************************************************************)
(* Small instances of WalkStack: one library with two builds, whose symbol *)
(* file may lie in the directory under the name build_linux.sh gives it    *)
(* and under a name a user has chosen to keep two builds apart.            *)
(***************************************************************************)
EXTENDS WalkStack, TLC

MCModules == {"libcrash.so"}
MCSymNames == {"libcrash.so.sym", "libcrash-1.0.sym"}
MCSymFileOf == [m \in MCModules |-> "libcrash.so.sym"]

Holding(id, body) == [mod |-> "libcrash.so", id |-> id, body |-> body]

\* Two builds' files; which build a file is of that is cut short makes no
\* difference, and a torn one is staged like a whole one.
MCContents == {Holding("A1", "whole"), Holding("B2", "whole"), Holding("A1", "cut")}

\* The scripts differ in nothing but their names.
MCSymmetry == Permutations(Walkers)
=============================================================================
