--------------------------- MODULE MCTweetScoring ---------------------------
EXTENDS TweetScoring, TLC

CONSTANTS me, hot, plain, old, said, echo

(* One account with two sources.                                             *)
TwoSources == [x \in {me} |-> <<"timeline", "popular">>]
OneSource == [x \in {me} |-> <<"timeline">>]

ItemOf(reply, retweet, popular, recent) ==
    [reply |-> reply, retweet |-> retweet, popular |-> popular, recent |-> recent]
Items ==
    hot   :> ItemOf(FALSE, FALSE, TRUE, TRUE)
 @@ plain :> ItemOf(FALSE, FALSE, FALSE, TRUE)
 @@ old   :> ItemOf(TRUE, FALSE, TRUE, FALSE)
 @@ said  :> ItemOf(TRUE, FALSE, TRUE, TRUE)
 @@ echo  :> ItemOf(FALSE, TRUE, TRUE, TRUE)

Answer(form, like, draft, score, confidence) ==
    [form |-> form, like |-> like, draft |-> draft, score |-> score, confidence |-> confidence,
     unknown |-> FALSE]
Prose == Answer("prose", Absent, Absent, Absent, Absent)
Both == Answer("json", "true", "text", 11, Absent)
Neither == Answer("lines", Absent, "none", Words, -1)
AllAnswers == {Prose, Both, Neither, [Both EXCEPT !.unknown = TRUE]}
SomeAnswers == {Prose, Both}

(* Filtered, old, repeated and missing tweets around the one that is stored. *)
Shows == { << <<hot>> >>, << <<echo, hot>>, <<hot, plain>> >>,
           << <<echo>>, <<said, old>>, <<hot>> >>, << <<>>, <<plain>> >> }
Singles == { << <<hot>> >>, << <<plain>> >>, << <<said>> >> }
=============================================================================
