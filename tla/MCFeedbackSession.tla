------------------------- MODULE MCFeedbackSession -------------------------
(* Bounds for model-checking the feedback session. *)
EXTENDS FeedbackSession

SomeBatches == {<< >>, <<1>>, <<-1, 1>>}
=============================================================================
