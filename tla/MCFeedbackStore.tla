--------------------------- MODULE MCFeedbackStore ---------------------------
(* Two analysts add records with two labels while a third reads the list   *)
(* one record per page.                                                    *)
EXTENDS FeedbackStore

CONSTANTS w1, w2, tp, fp

(* Threads are interchangeable, and so are labels. *)
MCSymmetry == Permutations(Writers) \cup Permutations(Labels)
=============================================================================
