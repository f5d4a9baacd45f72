-------------------------- MODULE MCActionService ---------------------------
(* One account; a like and a reply of the same tweet, fetched twice.         *)
EXTENDS ActionService, TLC

CONSTANTS acc, tw, author, row1, row2

LikeRow1 == [account |-> acc, kind |-> "like", tweet |-> tw, handle |-> author, row |-> row1]
LikeRow2 == [LikeRow1 EXCEPT !.row = row2]
ReplyRow1 == [LikeRow1 EXCEPT !.kind = "reply"]

LikeAndReply == {LikeRow1, ReplyRow1}
LikeTwiceAndReply == {LikeRow1, LikeRow2, ReplyRow1}

(* Handlers and workers are interchangeable.                                 *)
Symmetry == Permutations(Handlers) \union Permutations(Workers)

(* The TTL may run out at any time from the remote call on, except between   *)
(* the GET and the DELETE of the release.                                    *)
LongPlaces == AfterStart \ {"delete"}
=============================================================================
